--------------------------- MODULE EditorTab_proofs ---------------------------
(***************************************************************************)
(* Proofs about EditorTab: what a tab and its socket know of each other.   *)
(*                                                                         *)
(* Typed and Wired come first: what each helper and each action does to    *)
(* the records of a page and of a socket, and that a socket is its page's  *)
(* until the page closes it.  On these rest, each with an invariant of its *)
(* own, the histories (Base: which session a socket has joined, what its   *)
(* frames belong to, which replica the page has) and the freeze            *)
(* (PauseInv: what a page that was asked to be quiet has heard and said).  *)
(***************************************************************************)
EXTENDS EditorTab, FiniteSetTheorems, WellFoundedInduction, NaturalsInduction, TLAPS

-----------------------------------------------------------------------------
(* What the state is made of.                                              *)

Codes == {"superseded", "ended", "stale", "expired", "replaced", "deleted", "lockdown", "dropped"}
ReqFrames == [t : {"req"}, role : {"editor", "observer", "none"}]
EditFrames == [t : {"edit"}, tab : Tabs, gen : Nat, n : Nat, s : Nat]
UpFrames == ReqFrames \cup EditFrames \cup [t : {"ready", "fin", "lost"}]
StateFrames == [t : {"boot", "update"}, s : Nat, mirror : BOOLEAN]
DownFrames == StateFrames \cup [t : {"ack"}, n : Nat] \cup [t : {"start", "end"}]
                \cup [t : {"close"}, code : Codes]

Held == {"opening", "open", "broken"}      \* client states of a socket its page has
SockRec == [owner : Tabs \cup {0}, client : Held \cup {"free", "closed"},
            server : {"none", "open", "closing", "leaving", "gone"},
            role : {"editor", "observer"}, attached : BOOLEAN, joined : BOOLEAN, sess : Nat,
            boot : BOOLEAN, recipient : BOOLEAN, received : Nat,
            up : Seq(UpFrames), down : Seq(DownFrames)]
ProvRec == [role : {"editor", "observer", "none"}, booted : BOOLEAN, sent : Nat, acked : Nat,
            pubPaused : BOOLEAN, readySent : BOOLEAN, freezing : SUBSET {1, 2},
            retry : {"none", "timer", "refresh", "wake"}]
PageRec == [writer : Nat, kind : Kinds, pipe : Phases, paused : BOOLEAN, shown : Nat, gen : Nat,
            bound : Nat, own : Nat, mirror : BOOLEAN, broke : BOOLEAN, prov : ProvRec,
            socket : {0} \cup Sockets, asleep : BOOLEAN, handoff : Nat, left : BOOLEAN]
PauseRec == [on : BOOLEAN, waiting : SUBSET Sockets, ready : SUBSET Sockets]

Typed ==
  /\ tab \in [Tabs -> PageRec] /\ sock \in [Sockets -> SockRec]
  /\ session \in Nat /\ holders \subseteq Sockets /\ pause \in PauseRec /\ dirty \in BOOLEAN
  /\ integrated \in [Tabs -> [gen : Nat, n : Nat]]
  /\ {nSessions, nClicks, nEdits, nPauses, nFaults} \subseteq Nat

-----------------------------------------------------------------------------
(* Sequences of frames.                                                    *)

(* A channel with nothing on it.                                           *)
LEMMA EmptyIs ==
    ASSUME NEW S
    PROVE  <<>> \in Seq(S) /\ DOMAIN <<>> = {} /\ Len(<<>>) = 0
  OBVIOUS

(* What is in a channel a frame is appended to.                            *)
LEMMA AppendIs ==
    ASSUME NEW S, NEW q \in Seq(S), NEW m \in S
    PROVE  /\ Append(q, m) \in Seq(S) /\ Append(q, m) # <<>>
           /\ Len(Append(q, m)) = Len(q) + 1
           /\ DOMAIN q = 1 .. Len(q) /\ Len(q) \in Nat
           /\ DOMAIN Append(q, m) = 1 .. Len(q) + 1
           /\ \A i \in 1 .. Len(q) : Append(q, m)[i] = q[i]
           /\ Append(q, m)[Len(q) + 1] = m
           /\ q # <<>> => Head(Append(q, m)) = Head(q)
  <1>1. /\ Append(q, m) \in Seq(S) /\ Len(Append(q, m)) = Len(q) + 1
        /\ DOMAIN q = 1 .. Len(q) /\ Len(q) \in Nat
        /\ \A i \in 1 .. Len(q) : Append(q, m)[i] = q[i]
        /\ Append(q, m)[Len(q) + 1] = m
    OBVIOUS
  <1>2. DOMAIN Append(q, m) = 1 .. Len(q) + 1
    BY <1>1
  <1>3. Append(q, m) # <<>>
    BY <1>1, EmptyIs
  <1>4. q # <<>> => Head(Append(q, m)) = Head(q)
    OBVIOUS
  <1>. QED
    BY <1>1, <1>2, <1>3, <1>4

(* What is in a channel whose first frame is taken.                        *)
LEMMA TailIs ==
    ASSUME NEW S, NEW q \in Seq(S), q # <<>>
    PROVE  /\ Tail(q) \in Seq(S) /\ Len(q) \in Nat /\ Len(q) > 0
           /\ Len(Tail(q)) = Len(q) - 1
           /\ DOMAIN q = 1 .. Len(q)
           /\ DOMAIN Tail(q) = 1 .. Len(q) - 1
           /\ \A i \in 1 .. Len(q) - 1 : Tail(q)[i] = q[i + 1]
           /\ Head(q) = q[1] /\ Head(q) \in S
  OBVIOUS

LEMMA SingleIs ==
    ASSUME NEW S, NEW m \in S
    PROVE  /\ <<m>> \in Seq(S) /\ DOMAIN <<m>> = {1} /\ <<m>>[1] = m /\ <<m>> # <<>>
           /\ Head(<<m>>) = m /\ Len(<<m>>) = 1
  OBVIOUS

-----------------------------------------------------------------------------
(* The frames.                                                             *)

LEMMA UpFramesAre ==
    /\ [t |-> "ready"] \in UpFrames /\ [t |-> "fin"] \in UpFrames /\ [t |-> "lost"] \in UpFrames
    /\ \A role \in {"editor", "observer", "none"} : [t |-> "req", role |-> role] \in UpFrames
    /\ \A u \in Tabs, g, n, s \in Nat :
          [t |-> "edit", tab |-> u, gen |-> g, n |-> n, s |-> s] \in UpFrames
    /\ \A m \in UpFrames : m.t \in {"req", "edit", "ready", "fin", "lost"}
    /\ \A m \in UpFrames : m.t = "edit" => m \in EditFrames
    /\ \A m \in UpFrames : m.t = "req" => m.role \in {"editor", "observer", "none"}
  BY DEF UpFrames, ReqFrames, EditFrames

LEMMA EditFramesAre ==
    \A m \in EditFrames : /\ m.tab \in Tabs /\ m.gen \in Nat /\ m.n \in Nat /\ m.s \in Nat
                          /\ m.t = "edit"
  BY DEF EditFrames

LEMMA DownFramesAre ==
    /\ [t |-> "start"] \in DownFrames /\ [t |-> "end"] \in DownFrames
    /\ \A n \in Nat : [t |-> "ack", n |-> n] \in DownFrames
    /\ \A code \in Codes : [t |-> "close", code |-> code] \in DownFrames
    /\ \A s \in Nat, mirror \in BOOLEAN :
          /\ [t |-> "boot", s |-> s, mirror |-> mirror] \in DownFrames
          /\ [t |-> "update", s |-> s, mirror |-> mirror] \in DownFrames
    /\ \A m \in DownFrames : m.t \in {"boot", "update", "ack", "start", "end", "close"}
    /\ \A m \in DownFrames : m.t \in {"boot", "update"} => m.s \in Nat /\ m.mirror \in BOOLEAN
    /\ \A m \in DownFrames : m.t = "ack" => m.n \in Nat
    /\ \A m \in DownFrames : m.t = "close" => m.code \in Codes
  BY DEF DownFrames, StateFrames

-----------------------------------------------------------------------------
(* What the helpers make of a socket.                                      *)

(* Nothing of a socket but its channels and its client's state differs.    *)
Alike(r, r2) ==
  /\ r2.owner = r.owner /\ r2.server = r.server /\ r2.role = r.role
  /\ r2.attached = r.attached /\ r2.joined = r.joined /\ r2.sess = r.sess
  /\ r2.boot = r.boot /\ r2.recipient = r.recipient /\ r2.received = r.received

LEMMA UnusedIs ==
    /\ Unused \in SockRec
    /\ Unused.owner = 0 /\ Unused.client = "free" /\ Unused.server = "none"
    /\ Unused.role = "observer" /\ ~Unused.attached /\ ~Unused.joined /\ Unused.sess = 0
    /\ ~Unused.boot /\ ~Unused.recipient /\ Unused.received = 0
    /\ Unused.up = <<>> /\ Unused.down = <<>>
  BY EmptyIs DEF Unused, SockRec

LEMMA SockRecIs ==
    ASSUME NEW r \in SockRec
    PROVE  /\ r.owner \in Tabs \cup {0} /\ r.client \in Held \cup {"free", "closed"}
           /\ r.server \in {"none", "open", "closing", "leaving", "gone"}
           /\ r.role \in {"editor", "observer"} /\ r.attached \in BOOLEAN /\ r.joined \in BOOLEAN
           /\ r.sess \in Nat /\ r.boot \in BOOLEAN /\ r.recipient \in BOOLEAN
           /\ r.received \in Nat /\ r.up \in Seq(UpFrames) /\ r.down \in Seq(DownFrames)
  BY DEF SockRec

(* The page closes a socket.                                               *)
LEMMA ClosedIs ==
    ASSUME NEW r \in SockRec
    PROVE  /\ Closed(r) \in SockRec
           /\ \/ Closed(r) = Unused
              \/ /\ Alike(r, Closed(r)) /\ Closed(r).client = "closed" /\ Closed(r).down = <<>>
                 /\ r.client = "open" => Closed(r).up = Append(r.up, [t |-> "fin"])
                 /\ r.client # "open" => Closed(r).up = r.up
           /\ Closed(r) = Unused =>
                \/ r.role = "observer" /\ r.up = <<>>
                \/ r.server \in {"none", "gone"}
  <1> DEFINE r2 == [r EXCEPT !.client = "closed", !.down = <<>>,
                             !.up = IF r.client = "open" THEN Append(@, [t |-> "fin"]) ELSE @]
  <1>1. r2 \in SockRec
    <2>1. Append(r.up, [t |-> "fin"]) \in Seq(UpFrames)
      BY UpFramesAre DEF SockRec
    <2>2. <<>> \in Seq(DownFrames)
      BY EmptyIs
    <2>. QED
      BY <2>1, <2>2 DEF SockRec
  <1>2. /\ Alike(r, r2) /\ r2.client = "closed" /\ r2.down = <<>>
        /\ r.client = "open" => r2.up = Append(r.up, [t |-> "fin"])
        /\ r.client # "open" => r2.up = r.up
    BY DEF SockRec, Alike
  <1>3. Closed(r) = IF Unnoticed(r) THEN Unused
                    ELSE IF r2.client = "closed" /\ r2.server \in {"none", "gone"} THEN Unused ELSE r2
    BY DEF Closed, Tidy
  <1> HIDE DEF r2
  <1>. QED
    BY <1>1, <1>2, <1>3, UnusedIs DEF Unnoticed, Alike

(* The network breaks it.                                                  *)
LEMMA BrokenIs ==
    ASSUME NEW r \in SockRec
    PROVE  /\ Broken(r) \in SockRec /\ Alike(r, Broken(r)) /\ Broken(r).client = "broken"
           /\ Broken(r).down = <<[t |-> "close", code |-> "dropped"]>>
           /\ Broken(r).up = IF r.server \in {"open", "closing"} THEN <<[t |-> "lost"]>> ELSE <<>>
  <1>1. /\ [t |-> "close", code |-> "dropped"] \in DownFrames /\ [t |-> "lost"] \in UpFrames
    BY DownFramesAre, UpFramesAre DEF Codes
  <1>2. /\ <<[t |-> "close", code |-> "dropped"]>> \in Seq(DownFrames)
        /\ <<[t |-> "lost"]>> \in Seq(UpFrames) /\ <<>> \in Seq(UpFrames)
    BY <1>1, SingleIs, EmptyIs
  <1>. QED
    BY <1>2 DEF Broken, SockRec, Alike, Held

(* The server sends a frame on it.                                         *)
LEMMA SentIs ==
    ASSUME NEW r \in SockRec, NEW m \in DownFrames
    PROVE  /\ Sent(r, m) \in SockRec /\ Alike(r, Sent(r, m))
           /\ Sent(r, m).client = r.client /\ Sent(r, m).up = r.up
           /\ r.server # "open" => Sent(r, m) = r
           /\ r.server = "open" => Sent(r, m).down = Append(r.down, m)
  <1>1. Append(r.down, m) \in Seq(DownFrames)
    BY SockRecIs
  <1>2. PICK q \in Seq(DownFrames) : q = Append(r.down, m)
    BY <1>1
  <1>3. CASE r.server = "open"
    <2>1. Sent(r, m) = [r EXCEPT !.down = q]
      BY <1>2, <1>3 DEF Sent
    <2>2. Sent(r, m) \in SockRec /\ Sent(r, m).down = q
      BY <2>1 DEF SockRec
    <2>3. Alike(r, Sent(r, m)) /\ Sent(r, m).client = r.client /\ Sent(r, m).up = r.up
      BY <2>1 DEF SockRec, Alike
    <2>. QED
      BY <1>2, <1>3, <2>2, <2>3
  <1>4. CASE r.server # "open"
    <2>1. Sent(r, m) = r
      BY <1>4 DEF Sent
    <2>. QED
      BY <1>4, <2>1 DEF Alike
  <1>. QED
    BY <1>3, <1>4

(* The server closes it.                                                   *)
LEMMA ShutIs ==
    ASSUME NEW r \in SockRec, NEW code \in Codes
    PROVE  /\ Shut(r, code) \in SockRec
           /\ Shut(r, code).owner = r.owner /\ Shut(r, code).client = r.client
           /\ Shut(r, code).role = r.role /\ Shut(r, code).attached = r.attached
           /\ Shut(r, code).joined = r.joined /\ Shut(r, code).sess = r.sess
           /\ Shut(r, code).boot = r.boot /\ Shut(r, code).recipient = r.recipient
           /\ Shut(r, code).received = r.received /\ Shut(r, code).up = r.up
           /\ r.server # "open" => Shut(r, code) = r
           /\ r.server = "open" => /\ Shut(r, code).server = "closing"
                                   /\ Shut(r, code).down = Append(r.down, [t |-> "close", code |-> code])
  <1>1. Append(r.down, [t |-> "close", code |-> code]) \in Seq(DownFrames)
    BY SockRecIs, DownFramesAre
  <1>2. PICK q \in Seq(DownFrames) : q = Append(r.down, [t |-> "close", code |-> code])
    BY <1>1
  <1>3. CASE r.server = "open"
    <2>1. Shut(r, code) = [r EXCEPT !.server = "closing", !.down = q]
      BY <1>2, <1>3 DEF Shut
    <2>2. Shut(r, code) \in SockRec /\ Shut(r, code).server = "closing" /\ Shut(r, code).down = q
      BY <2>1 DEF SockRec
    <2>3. /\ Shut(r, code).owner = r.owner /\ Shut(r, code).client = r.client
          /\ Shut(r, code).role = r.role /\ Shut(r, code).attached = r.attached
          /\ Shut(r, code).joined = r.joined /\ Shut(r, code).sess = r.sess
      BY <2>1 DEF SockRec
    <2>4. /\ Shut(r, code).boot = r.boot /\ Shut(r, code).recipient = r.recipient
          /\ Shut(r, code).received = r.received /\ Shut(r, code).up = r.up
      BY <2>1 DEF SockRec
    <2>. QED
      BY <1>2, <1>3, <2>2, <2>3, <2>4
  <1>4. CASE r.server # "open"
    <2>1. Shut(r, code) = r
      BY <1>4 DEF Shut
    <2>. QED
      BY <1>4, <2>1
  <1>. QED
    BY <1>3, <1>4

(* It joins a session.                                                     *)
LEMMA JoinIs ==
    ASSUME NEW r \in SockRec, NEW s \in Nat
    PROVE  /\ Join(r, s) \in SockRec
           /\ Join(r, s).owner = r.owner /\ Join(r, s).client = r.client
           /\ Join(r, s).server = r.server /\ Join(r, s).role = r.role
           /\ Join(r, s).attached /\ Join(r, s).joined /\ Join(r, s).sess = s
           /\ Join(r, s).boot = ~r.joined /\ Join(r, s).recipient = r.recipient
           /\ Join(r, s).received = r.received
           /\ Join(r, s).up = r.up /\ Join(r, s).down = r.down
  BY DEF Join, SockRec

(* The server is done with it.                                             *)
LEMMA OffIs ==
    ASSUME NEW r \in SockRec, NEW state \in {"leaving", "gone"}
    PROVE  /\ Off(r, state) \in SockRec
           /\ \/ Off(r, state) = Unused /\ r.client = "closed" /\ state = "gone"
              \/ /\ Off(r, state).owner = r.owner /\ Off(r, state).client = r.client
                 /\ Off(r, state).server = state /\ Off(r, state).role = r.role
                 /\ Off(r, state).attached = r.attached /\ Off(r, state).joined = r.joined
                 /\ Off(r, state).sess = r.sess /\ ~Off(r, state).boot /\ ~Off(r, state).recipient
                 /\ Off(r, state).received = r.received
                 /\ Off(r, state).up = <<>> /\ Off(r, state).down = r.down
  <1> DEFINE r2 == [r EXCEPT !.server = state, !.up = <<>>, !.boot = FALSE, !.recipient = FALSE]
  <1>1. <<>> \in Seq(UpFrames)
    BY EmptyIs
  <1>2. /\ r2 \in SockRec
        /\ r2.owner = r.owner /\ r2.client = r.client /\ r2.server = state /\ r2.role = r.role
        /\ r2.attached = r.attached /\ r2.joined = r.joined /\ r2.sess = r.sess
        /\ ~r2.boot /\ ~r2.recipient /\ r2.received = r.received
        /\ r2.up = <<>> /\ r2.down = r.down
    BY <1>1 DEF SockRec
  <1>3. Off(r, state) = IF r2.client = "closed" /\ r2.server \in {"none", "gone"} THEN Unused ELSE r2
    BY DEF Off, Tidy
  <1> HIDE DEF r2
  <1>. QED
    BY <1>2, <1>3, UnusedIs

(* The server takes a frame from it.                                       *)
Heard(r) == [r EXCEPT !.up = Tail(@)]

LEMMA HeardIs ==
    ASSUME NEW r \in SockRec, r.up # <<>>
    PROVE  /\ Heard(r) \in SockRec /\ Alike(r, Heard(r)) /\ Heard(r).client = r.client
           /\ Heard(r).up = Tail(r.up) /\ Heard(r).down = r.down
  <1>1. Tail(r.up) \in Seq(UpFrames)
    BY SockRecIs, TailIs
  <1>. QED
    BY <1>1 DEF Heard, SockRec, Alike

(* The page takes a frame from it.                                         *)
Got(r) == [r EXCEPT !.down = Tail(@)]

LEMMA GotIs ==
    ASSUME NEW r \in SockRec, r.down # <<>>
    PROVE  /\ Got(r) \in SockRec /\ Alike(r, Got(r)) /\ Got(r).client = r.client
           /\ Got(r).down = Tail(r.down) /\ Got(r).up = r.up
  <1>1. Tail(r.down) \in Seq(DownFrames)
    BY SockRecIs, TailIs
  <1>. QED
    BY <1>1 DEF Got, SockRec, Alike

(* The page sends a frame on it.                                           *)
Said(r, m) == [r EXCEPT !.up = Append(@, m)]

LEMMA SaidIs ==
    ASSUME NEW r \in SockRec, NEW m \in UpFrames
    PROVE  /\ Said(r, m) \in SockRec /\ Alike(r, Said(r, m)) /\ Said(r, m).client = r.client
           /\ Said(r, m).up = Append(r.up, m) /\ Said(r, m).down = r.down
  <1>1. Append(r.up, m) \in Seq(UpFrames)
    BY SockRecIs
  <1>. QED
    BY <1>1 DEF Said, SockRec, Alike

(* A new socket, and its opening.                                          *)
Dialed(r, t) == [r EXCEPT !.client = "opening", !.owner = t]
Connected(r, role) ==
  [r EXCEPT !.client = "open", !.server = "open", !.up = <<[t |-> "req", role |-> role]>>]

LEMMA DialedIs ==
    ASSUME NEW t \in Tabs
    PROVE  LET r == Dialed(Unused, t) IN
           /\ r \in SockRec /\ r.owner = t /\ r.client = "opening" /\ r.server = "none"
           /\ r.role = "observer" /\ ~r.attached /\ ~r.joined /\ r.sess = 0
           /\ ~r.boot /\ ~r.recipient /\ r.received = 0 /\ r.up = <<>> /\ r.down = <<>>
  BY UnusedIs DEF Dialed, SockRec, Held

LEMMA ConnectedIs ==
    ASSUME NEW r \in SockRec, NEW role \in {"editor", "observer", "none"}
    PROVE  LET r2 == Connected(r, role) IN
           /\ r2 \in SockRec /\ r2.owner = r.owner /\ r2.client = "open" /\ r2.server = "open"
           /\ r2.role = r.role /\ r2.attached = r.attached /\ r2.joined = r.joined
           /\ r2.sess = r.sess /\ r2.boot = r.boot /\ r2.recipient = r.recipient
           /\ r2.received = r.received /\ r2.up = <<[t |-> "req", role |-> role]>>
           /\ r2.down = r.down
  <1>1. <<[t |-> "req", role |-> role]>> \in Seq(UpFrames)
    BY UpFramesAre
  <1>. QED
    BY <1>1 DEF Connected, SockRec, Held

-----------------------------------------------------------------------------
(* What a step does to the page and to the socket it is about.             *)

OnPage(t, k) ==
  /\ k \in PageRec /\ tab' \in [Tabs -> PageRec] /\ tab'[t] = k
  /\ \A u \in Tabs \ {t} : tab'[u] = tab[u]
OnSock(c, r) ==
  /\ r \in SockRec /\ sock' \in [Sockets -> SockRec] /\ sock'[c] = r
  /\ \A d \in Sockets \ {c} : sock'[d] = sock[d]

LEMMA OnPageIs ==
    ASSUME Typed, NEW t \in Tabs, NEW k \in PageRec, tab' = [tab EXCEPT ![t] = k]
    PROVE  OnPage(t, k)
  BY DEF Typed, OnPage

LEMMA OnSockIs ==
    ASSUME Typed, NEW c \in Sockets, NEW r \in SockRec, sock' = [sock EXCEPT ![c] = r]
    PROVE  OnSock(c, r)
  BY DEF Typed, OnSock

LEMMA SocketsAre == Sockets \subseteq Nat /\ 0 \notin Sockets
  BY DEF Sockets

LEMMA PageIs ==
    ASSUME NEW k \in PageRec
    PROVE  /\ k.kind \in Kinds /\ k.pipe \in Phases /\ k.paused \in BOOLEAN /\ k.shown \in Nat
           /\ k.gen \in Nat /\ k.bound \in Nat /\ k.own \in Nat /\ k.mirror \in BOOLEAN
           /\ k.broke \in BOOLEAN /\ k.prov \in ProvRec /\ k.socket \in {0} \cup Sockets
           /\ k.asleep \in BOOLEAN /\ k.handoff \in Nat /\ k.left \in BOOLEAN
           /\ k.prov.role \in {"editor", "observer", "none"} /\ k.prov.booted \in BOOLEAN
           /\ k.prov.sent \in Nat /\ k.prov.acked \in Nat /\ k.prov.pubPaused \in BOOLEAN
           /\ k.prov.readySent \in BOOLEAN /\ k.prov.freezing \subseteq {1, 2}
           /\ k.prov.retry \in {"none", "timer", "refresh", "wake"}
  BY DEF PageRec, ProvRec

LEMMA ProviderIs ==
    ASSUME NEW role \in {"editor", "observer", "none"}
    PROVE  /\ Provider(role) \in ProvRec /\ Provider(role).role = role
           /\ ~Provider(role).booted /\ Provider(role).sent = 0 /\ Provider(role).acked = 0
           /\ ~Provider(role).pubPaused /\ ~Provider(role).readySent
           /\ Provider(role).freezing = {} /\ Provider(role).retry = "none"
  BY DEF Provider, ProvRec

(* A page that lets go of its socket.                                      *)
HangTo(t, k) == OnPage(t, k) /\ k.socket = 0 /\ sock' = HungUp(t)

(* A page that lets go of its socket, if it has one, and opens another.    *)
DialTo(t, k, c) ==
  /\ k.socket = c /\ OnPage(t, k)
  /\ HungUp(t)[c] = Unused
  /\ sock' \in [Sockets -> SockRec] /\ sock'[c] = Dialed(Unused, t)
  /\ \A d \in Sockets \ {c} : sock'[d] = HungUp(t)[d]

LEMMA HungUpIs ==
    ASSUME Typed, NEW t \in Tabs
    PROVE  /\ HungUp(t) \in [Sockets -> SockRec]
           /\ \A d \in Sockets : d # tab[t].socket => HungUp(t)[d] = sock[d]
           /\ tab[t].socket # 0 => HungUp(t)[tab[t].socket] = Closed(sock[tab[t].socket])
  <1>1. tab[t].socket \in {0} \cup Sockets
    BY PageIs DEF Typed
  <1>2. CASE tab[t].socket = 0
    BY <1>2, SocketsAre DEF Typed, HungUp
  <1>3. CASE tab[t].socket # 0
    <2>1. Closed(sock[tab[t].socket]) \in SockRec
      BY <1>1, <1>3, ClosedIs DEF Typed
    <2>2. HungUp(t) = [sock EXCEPT ![tab[t].socket] = Closed(sock[tab[t].socket])]
      BY <1>3 DEF HungUp
    <2>. QED
      BY <1>1, <1>3, <2>1, <2>2 DEF Typed
  <1>. QED
    BY <1>2, <1>3

(* The first free socket is a free socket.                                 *)
LEMMA MinIsFree ==
    ASSUME NEW s, FreeIn(s) # {}
    PROVE  Min(FreeIn(s)) \in FreeIn(s)
  <1> DEFINE less == {ss \in Nat \X Nat : ss[1] < ss[2]}
             S == FreeIn(s)
  <1>1. IsWellFoundedOn(less, Nat)
    <2>1. less = OpToRel(<, Nat)
      BY Zenon DEF OpToRel
    <2>. QED
      BY <2>1, NatLessThanWellFounded, Zenon
  <1>2. S \subseteq Nat /\ S # {}
    BY SocketsAre DEF FreeIn
  <1>3. PICK b \in S : \A i \in S : ~(<<i, b>> \in less)
    <2> HIDE DEF less, S
    <2>. QED
      BY <1>1, <1>2, WFMin
  <1>4. \A i \in S : b <= i
    <2> SUFFICES ASSUME NEW i \in S, i < b PROVE FALSE
      BY <1>2
    <2>1. <<i, b>> \in less
      BY <1>2
    <2>. QED
      BY <1>3, <2>1
  <1>. QED
    BY <1>3, <1>4 DEF Min

LEMMA DialDoes ==
    ASSUME Typed, NEW t \in Tabs, NEW k \in PageRec, Dial(t, k, HungUp(t))
    PROVE  \E c \in Sockets : DialTo(t, [k EXCEPT !.socket = c], c)
  <1> DEFINE s == HungUp(t)
             c == Min(FreeIn(s))
  <1>1. c \in Sockets /\ s[c] = Unused
    BY MinIsFree DEF Dial, FreeIn
  <1>2. /\ s \in [Sockets -> SockRec]
        /\ sock' = [s EXCEPT ![c].client = "opening", ![c].owner = t]
        /\ tab' = [tab EXCEPT ![t] = [k EXCEPT !.socket = c]]
    BY HungUpIs DEF Dial
  <1> HIDE DEF s, c
  <1>3. sock'[c] = Dialed(Unused, t)
    BY <1>1, <1>2 DEF Dialed
  <1>4. \A d \in Sockets \ {c} : sock'[d] = s[d]
    BY <1>1, <1>2
  <1>5. Dialed(Unused, t) \in SockRec
    BY DialedIs
  <1>6. sock' \in [Sockets -> SockRec]
    BY <1>1, <1>2, <1>3, <1>4, <1>5
  <1>7. [k EXCEPT !.socket = c] \in PageRec /\ [k EXCEPT !.socket = c].socket = c
    BY <1>1 DEF PageRec
  <1>8. OnPage(t, [k EXCEPT !.socket = c])
    BY <1>2, <1>7, OnPageIs
  <1>9. HungUp(t)[c] = Unused /\ \A d \in Sockets \ {c} : sock'[d] = HungUp(t)[d]
    BY <1>1, <1>4 DEF s
  <1>. QED
    BY <1>1, <1>3, <1>6, <1>7, <1>8, <1>9 DEF DialTo

-----------------------------------------------------------------------------
(* A page that loses its socket: what stays of it.                         *)

SameDoc(k0, k) ==
  /\ k.gen = k0.gen /\ k.bound = k0.bound /\ k.own = k0.own /\ k.mirror = k0.mirror
  /\ k.paused = k0.paused /\ k.shown = k0.shown
FreshDoc(k0, k) ==
  /\ k.gen = k0.gen + 1 /\ k.bound = 0 /\ k.own = 0 /\ ~k.mirror /\ ~k.broke
  /\ k.paused = k0.paused /\ k.shown = k0.shown
SameFreeze(p0, p) ==
  p.pubPaused = p0.pubPaused /\ p.readySent = p0.readySent /\ p.freezing = p0.freezing
NoFreeze(p) == ~p.pubPaused /\ ~p.readySent /\ p.freezing = {}

LetsGo(k0, k) ==
  /\ k \in PageRec /\ k.socket = 0 /\ SameDoc(k0, k) /\ (k0.broke => k.broke)
  /\ k.prov.role = "editor" => k.broke
  /\ k.kind = "editing" => k.left \/ (k0.kind = "editing" /\ k.prov.role = k0.prov.role)
  /\ SameFreeze(k0.prov, k.prov) \/ NoFreeze(k.prov)

Redials(k0, k) ==
  /\ k \in PageRec /\ k.prov.retry = "none"
  /\ (SameDoc(k0, k) /\ k.broke = k0.broke) \/ FreshDoc(k0, k)
  /\ SameFreeze(k0.prov, k.prov) \/ NoFreeze(k.prov)
  /\ k.kind = "editing" =>
       k.left \/ k.prov.role = "editor" \/ (k0.kind = "editing" /\ k.prov.role = k0.prov.role)
  /\ k.prov.role = "editor" =>
       k.pipe # "live" \/ (k0.socket = 0 /\ k0.prov.role = "editor" /\ k.broke = k0.broke)

(* The steps that do so.                                                   *)
LetsGoStep(t) == \E k \in PageRec : LetsGo(tab[t], k) /\ HangTo(t, k)
RedialStep(t) ==
  \E k \in PageRec, c \in Sockets :
    Redials(tab[t], k) /\ DialTo(t, [k EXCEPT !.socket = c], c)

LEMMA RedialIs ==
    ASSUME Typed, NEW t \in Tabs, NEW k, Redials(tab[t], k), Dial(t, k, HungUp(t))
    PROVE  RedialStep(t)
  <1>1. PICK c \in Sockets : DialTo(t, [k EXCEPT !.socket = c], c)
    BY DialDoes DEF Redials
  <1>2. k \in PageRec
    BY DEF Redials
  <1>. QED
    BY <1>1, <1>2 DEF RedialStep

(* A provider of its own kind, for the same replica or for a fresh one.    *)
LEMMA StartIs ==
    ASSUME Typed, NEW t \in Tabs, NEW k \in PageRec, NEW role \in {"editor", "observer"},
           k.pipe # "live",
           (SameDoc(tab[t], k) /\ k.broke = tab[t].broke) \/ FreshDoc(tab[t], k),
           k.kind = "editing" => role = "editor",
           Start(t, k, role)
    PROVE  RedialStep(t)
  <1> DEFINE k2 == [k EXCEPT !.prov = Provider(role)]
  <1>1. /\ k2 \in PageRec /\ k2.prov = Provider(role) /\ k2.pipe = k.pipe /\ k2.kind = k.kind
        /\ k2.gen = k.gen /\ k2.bound = k.bound /\ k2.own = k.own /\ k2.mirror = k.mirror
        /\ k2.paused = k.paused /\ k2.shown = k.shown /\ k2.broke = k.broke
    BY ProviderIs DEF PageRec
  <1> HIDE DEF k2
  <1>2. Redials(tab[t], k2)
    BY <1>1, ProviderIs DEF Redials, SameDoc, FreshDoc, NoFreeze
  <1>3. Dial(t, k2, HungUp(t))
    BY DEF Start, k2
  <1>. QED
    BY <1>2, <1>3, RedialIs

LEMMA OpenEditorDoes ==
    ASSUME Typed, NEW t \in Tabs, OpenEditor(t) \/ StopEditing(t) \/ RefreshFails(t)
    PROVE  RedialStep(t)
  <1> DEFINE k(kind) == [tab[t] EXCEPT !.kind = kind, !.pipe = "connecting"]
  <1>1. ASSUME NEW kind \in Kinds
        PROVE  /\ k(kind) \in PageRec /\ SameDoc(tab[t], k(kind)) /\ k(kind).broke = tab[t].broke
               /\ k(kind).pipe # "live" /\ k(kind).kind = kind
    <2>1. tab[t] \in PageRec
      BY DEF Typed
    <2>. QED
      BY <2>1 DEF PageRec, SameDoc, Phases
  <1>2. \/ Start(t, k("editing"), "editor")
        \/ Start(t, k("viewing"), "observer")
        \/ Start(t, k("socketStopped"), "observer")
    BY DEF OpenEditor, StopEditing, RefreshFails
  <1> HIDE DEF k
  <1>3. {"editing", "viewing", "socketStopped"} \subseteq Kinds
    BY DEF Kinds
  <1>4. CASE Start(t, k("editing"), "editor")
    BY <1>1, <1>3, <1>4, StartIs
  <1>5. CASE Start(t, k("viewing"), "observer")
    BY <1>1, <1>3, <1>5, StartIs
  <1>6. CASE Start(t, k("socketStopped"), "observer")
    BY <1>1, <1>3, <1>6, StartIs
  <1>. QED
    BY <1>2, <1>4, <1>5, <1>6

(* mintFreshReplica.                                                       *)
LEMMA FreshReplicaIs ==
    ASSUME NEW k \in PageRec
    PROVE  LET r == FreshReplica(k) IN
           /\ r \in PageRec /\ FreshDoc(k, r) /\ r.kind = k.kind /\ r.pipe = k.pipe
           /\ r.prov = k.prov /\ r.socket = k.socket /\ r.left = k.left
           /\ r.asleep = k.asleep
  <1>1. k.gen + 1 \in Nat
    BY PageIs
  <1>. QED
    BY <1>1 DEF FreshReplica, PageRec, FreshDoc

LEMMA ReplacedDoes ==
    ASSUME Typed, NEW t \in Tabs, NEW keep \in BOOLEAN, Replaced(t, keep)
    PROVE  RedialStep(t)
  <1> DEFINE kind == IF tab[t].kind = "editing" /\ ~keep THEN "socketStopped" ELSE tab[t].kind
             k == [FreshReplica(tab[t]) EXCEPT !.kind = kind, !.pipe = "connecting", !.handoff = 0]
             role == IF kind = "editing" THEN "editor" ELSE "observer"
  <1>1. FreshReplica(tab[t]) \in PageRec /\ FreshDoc(tab[t], FreshReplica(tab[t]))
        /\ FreshReplica(tab[t]).kind = tab[t].kind
    BY FreshReplicaIs DEF Typed
  <1>2. Start(t, k, role)
    BY <1>1 DEF Replaced
  <1>3. kind \in Kinds
    BY PageIs DEF Typed, Kinds
  <1> HIDE DEF kind
  <1>4. k \in PageRec /\ FreshDoc(tab[t], k) /\ k.pipe # "live" /\ k.kind = kind
    BY <1>1, <1>3 DEF PageRec, FreshDoc, Phases
  <1> HIDE DEF k
  <1>. QED
    BY <1>2, <1>4, StartIs

(* The socket is gone and the provider stays.                              *)
LEMMA HangsDoes ==
    ASSUME Typed, NEW t \in Tabs, NEW k \in PageRec, SameDoc(tab[t], k),
           k.kind = tab[t].kind, k.prov = tab[t].prov,
           NEW retry \in {"none", "timer", "refresh", "wake"}, Hangs(t, k, retry)
    PROVE  LetsGoStep(t)
  <1> DEFINE k2 == [k EXCEPT !.socket = 0, !.broke = TRUE, !.prov = [@ EXCEPT !.retry = retry]]
  <1>1. /\ k2 \in PageRec /\ k2.socket = 0 /\ SameDoc(k, k2) /\ k2.broke /\ k2.kind = k.kind
        /\ k2.prov.role = k.prov.role /\ SameFreeze(k.prov, k2.prov)
    BY DEF PageRec, ProvRec, SameDoc, SameFreeze
  <1>2. tab' = [tab EXCEPT ![t] = k2] /\ sock' = HungUp(t)
    BY DEF Hangs
  <1> HIDE DEF k2
  <1>3. LetsGo(tab[t], k2)
    BY <1>1 DEF LetsGo, SameDoc
  <1>. QED
    BY <1>1, <1>2, <1>3, OnPageIs DEF LetsGoStep, HangTo

(* The page is told that its socket is closed.                             *)
LEMMA ToldClosedDoes ==
    ASSUME Typed, NEW t \in Tabs, ToldClosed(t),
           tab[t].prov.retry = "none", tab[t].kind = "editing" => tab[t].prov.role = "editor"
    PROVE  RedialStep(t) \/ LetsGoStep(t)
  <1> DEFINE k == tab[t]
             code == Arriving(t).code
             late == [k EXCEPT !.pipe = "reconnecting"]
  <1>1. k \in PageRec
    BY DEF Typed
  <1>2. /\ late \in PageRec /\ SameDoc(k, late) /\ late.kind = k.kind /\ late.prov = k.prov
        /\ SameDoc(k, k)
    BY <1>1 DEF PageRec, SameDoc, Phases
  <1>3. Torn(k) \in PageRec /\ Torn(k).prov = Provider("none") /\ Torn(k).socket = 0
        /\ SameDoc(k, Torn(k)) /\ Torn(k).kind = k.kind /\ Torn(k).broke = k.broke
    BY <1>1, ProviderIs DEF PageRec, SameDoc, Torn
  <1>4. ASSUME NEW retry \in {"none", "timer", "refresh", "wake"},
               Hangs(t, k, retry) \/ Hangs(t, late, retry)
        PROVE  LetsGoStep(t)
    <2> HIDE DEF late, k
    <2>1. CASE Hangs(t, k, retry)
      BY <1>1, <1>2, <2>1, HangsDoes DEF k
    <2>2. CASE Hangs(t, late, retry)
      BY <1>2, <2>2, HangsDoes DEF k
    <2>. QED
      BY <1>4, <2>1, <2>2
  <1>5. CASE code = "deleted"
    <2> DEFINE k2 == [Torn(k) EXCEPT !.left = TRUE]
    <2>1. tab' = [tab EXCEPT ![t] = k2] /\ sock' = HungUp(t)
      BY <1>5 DEF ToldClosed
    <2>2. /\ k2 \in PageRec /\ k2.left /\ k2.socket = 0 /\ SameDoc(k, k2) /\ k2.kind = k.kind
          /\ k2.prov = Provider("none") /\ k2.broke = k.broke
      BY <1>3 DEF PageRec, SameDoc
    <2> HIDE DEF k2, k
    <2>3. LetsGo(k, k2)
      BY <2>2, ProviderIs DEF LetsGo, NoFreeze
    <2>. QED
      BY <2>1, <2>2, <2>3, OnPageIs DEF LetsGoStep, HangTo, k
  <1>6. CASE code # "deleted" /\ k.prov.role = "editor"
    <2>1. EditorClosed(t, k, code)
      BY <1>6 DEF ToldClosed
    <2>2. CASE code \in {"replaced", "stale"}
      <3>1. Replaced(t, TRUE) \/ Replaced(t, FALSE)
        BY <2>1, <2>2 DEF EditorClosed
      <3>. QED
        BY <3>1, ReplacedDoes
    <2>3. CASE code = "superseded" /\ k.kind = "editing"
      <3> DEFINE k2 == [k EXCEPT !.kind = "superseded", !.pipe = "connecting"]
      <3>1. Start(t, k2, "observer")
        BY <2>1, <2>3 DEF EditorClosed
      <3>2. k2 \in PageRec /\ SameDoc(k, k2) /\ k2.broke = k.broke /\ k2.pipe # "live"
            /\ k2.kind # "editing"
        BY <1>1 DEF PageRec, SameDoc, Phases, Kinds
      <3> HIDE DEF k2
      <3>. QED
        BY <3>1, <3>2, StartIs
    <2>4. CASE ~(code \in {"replaced", "stale"}) /\ ~(code = "superseded" /\ k.kind = "editing")
      <3>1. code \in Codes
        <4>1. tab[t].socket \in Sockets /\ sock[tab[t].socket].down # <<>>
          BY PageIs DEF ToldClosed, Incoming, Typed
        <4>2. Arriving(t) \in DownFrames
          BY <4>1, SockRecIs, TailIs DEF Arriving, Typed
        <4>. QED
          BY <4>2, DownFramesAre DEF ToldClosed
      <3>2. \E retry \in {"none", "timer", "refresh", "wake"} :
                Hangs(t, k, retry) \/ Hangs(t, late, retry)
        <4>1. CASE code = "superseded"
          BY <2>1, <2>4, <4>1 DEF EditorClosed
        <4>2. CASE code = "lockdown"
          BY <2>1, <4>2 DEF EditorClosed
        <4>3. CASE code = "expired"
          BY <2>1, <4>3 DEF EditorClosed
        <4>4. CASE code \in {"dropped", "ended"}
          BY <2>1, <4>4 DEF EditorClosed
        <4>. QED
          BY <1>6, <2>4, <3>1, <4>1, <4>2, <4>3, <4>4 DEF Codes
      <3>. QED
        BY <3>2, <1>4
    <2>. QED
      BY <2>2, <2>3, <2>4
  <1>7. CASE code # "deleted" /\ k.prov.role # "editor"
    <2>1. ObserverClosed(t, k, code)
      BY <1>7 DEF ToldClosed
    <2>2. CASE code \in {"replaced", "stale"}
      <3>1. Dial(t, k, HungUp(t))
        BY <2>1, <2>2 DEF ObserverClosed
      <3>2. Redials(k, k)
        BY <1>1, <1>2, <1>7 DEF Redials, SameFreeze
      <3>. QED
        BY <3>1, <3>2, RedialIs
    <2>3. CASE code = "ended"
      <3> DEFINE k2 == [Torn(k) EXCEPT !.pipe = "connecting", !.handoff = k.gen]
      <3>1. tab' = [tab EXCEPT ![t] = k2] /\ sock' = HungUp(t)
        BY <2>1, <2>3 DEF ObserverClosed
      <3>2. /\ k2 \in PageRec /\ k2.socket = 0 /\ SameDoc(k, k2) /\ k2.kind = k.kind
            /\ k2.prov = Provider("none") /\ k2.broke = k.broke
        BY <1>1, <1>3, PageIs DEF PageRec, SameDoc, Phases
      <3> HIDE DEF k2
      <3>3. LetsGo(k, k2)
        BY <1>7, <3>2, ProviderIs DEF LetsGo, NoFreeze
      <3>. QED
        BY <3>1, <3>2, <3>3, OnPageIs DEF LetsGoStep, HangTo, k
    <2>4. CASE code \notin {"replaced", "stale", "ended"}
      <3>1. \E retry \in {"none", "timer", "refresh", "wake"} :
                Hangs(t, k, retry) \/ Hangs(t, late, retry)
        BY <2>1, <2>4 DEF ObserverClosed
      <3>. QED
        BY <3>1, <1>4
    <2>. QED
      BY <2>2, <2>3, <2>4
  <1>. QED
    BY <1>5, <1>6, <1>7

(* A page without a socket opens one again.                                *)
LEMMA ReopenDoes ==
    ASSUME Typed, NEW t \in Tabs, tab[t].socket = 0,
           NEW k \in PageRec, SameDoc(tab[t], k), k.broke = tab[t].broke, k.kind = tab[t].kind,
           k.prov = [tab[t].prov EXCEPT !.retry = "none"], Dial(t, k, sock)
    PROVE  RedialStep(t)
  <1>1. HungUp(t) = sock
    BY DEF HungUp
  <1>2. /\ k.prov.role = tab[t].prov.role /\ k.prov.retry = "none"
        /\ SameFreeze(tab[t].prov, k.prov)
    <2>1. tab[t].prov \in ProvRec
      BY PageIs DEF Typed
    <2>. QED
      BY <2>1 DEF ProvRec, SameFreeze
  <1>3. Redials(tab[t], k)
    BY <1>2 DEF Redials
  <1>. QED
    BY <1>1, <1>3, RedialIs

LEMMA ReconnectDoes ==
    ASSUME Typed, NEW t \in Tabs, Reconnect(t), tab[t].socket # 0 => tab[t].prov.retry = "none"
    PROVE  RedialStep(t)
  <1> DEFINE k == [tab[t] EXCEPT !.prov = [@ EXCEPT !.retry = "none"]]
  <1>1. tab[t] \in PageRec
    BY DEF Typed
  <1>2. /\ k \in PageRec /\ SameDoc(tab[t], k) /\ k.broke = tab[t].broke /\ k.kind = tab[t].kind
        /\ k.prov = [tab[t].prov EXCEPT !.retry = "none"]
    BY <1>1 DEF PageRec, ProvRec, SameDoc
  <1>3. Dial(t, k, sock) /\ tab[t].socket = 0
    BY DEF Reconnect
  <1> HIDE DEF k
  <1>. QED
    BY <1>2, <1>3, ReopenDoes

(* The page is awake again.                                                *)
Awoken(k) == [k EXCEPT !.asleep = FALSE]

LEMMA WakeDoes ==
    ASSUME Typed, NEW t \in Tabs, Wake(t), tab[t].socket # 0 => tab[t].prov.retry = "none"
    PROVE  \/ RedialStep(t)
           \/ OnPage(t, Awoken(tab[t])) /\ UNCHANGED sock
  <1>1. tab[t] \in PageRec
    BY DEF Typed
  <1>2. CASE tab[t].prov.retry = "wake"
    <2> DEFINE k == [tab[t] EXCEPT !.asleep = FALSE, !.prov = [@ EXCEPT !.retry = "none"]]
    <2>1. /\ k \in PageRec /\ SameDoc(tab[t], k) /\ k.broke = tab[t].broke /\ k.kind = tab[t].kind
          /\ k.prov = [tab[t].prov EXCEPT !.retry = "none"]
      BY <1>1 DEF PageRec, ProvRec, SameDoc
    <2>2. Dial(t, k, sock) /\ tab[t].socket = 0
      BY <1>2 DEF Wake
    <2> HIDE DEF k
    <2>. QED
      BY <2>1, <2>2, ReopenDoes
  <1>3. CASE tab[t].prov.retry # "wake"
    <2>1. tab' = [tab EXCEPT ![t].asleep = FALSE] /\ UNCHANGED sock
      BY <1>3 DEF Wake
    <2>2. Awoken(tab[t]) \in PageRec
      BY <1>1 DEF PageRec, Awoken
    <2>3. OnPage(t, Awoken(tab[t]))
      BY <2>1, <2>2, OnPageIs DEF Awoken
    <2>. QED
      BY <2>1, <2>3
  <1>. QED
    BY <1>2, <1>3

Handed(k) == [k EXCEPT !.handoff = 0]

LEMMA HandoffDoneDoes ==
    ASSUME Typed, NEW t \in Tabs, HandoffDone(t)
    PROVE  \/ RedialStep(t)
           \/ OnPage(t, Handed(tab[t])) /\ UNCHANGED sock
  <1>1. CASE tab[t].gen = tab[t].handoff
    BY <1>1, ReplacedDoes DEF HandoffDone
  <1>2. CASE tab[t].gen # tab[t].handoff
    <2>1. tab' = [tab EXCEPT ![t].handoff = 0] /\ UNCHANGED sock
      BY <1>2 DEF HandoffDone
    <2>2. Handed(tab[t]) \in PageRec
      BY DEF Typed, PageRec, Handed
    <2>3. OnPage(t, Handed(tab[t]))
      BY <2>1, <2>2, OnPageIs DEF Handed
    <2>. QED
      BY <2>1, <2>3
  <1>. QED
    BY <1>1, <1>2

-----------------------------------------------------------------------------
(* What the other steps of a page do.                                      *)

(* Its socket, or its page, is left as it is.                              *)
OwnSock(t) == sock[tab[t].socket]

Unfocused(k) == [k EXCEPT !.kind = "viewing"]

LEMMA UnfocusDoes ==
    ASSUME Typed, NEW t \in Tabs, Unfocus(t)
    PROVE  OnPage(t, Unfocused(tab[t])) /\ UNCHANGED sock
  <1>1. Unfocused(tab[t]) \in PageRec
    BY DEF Typed, PageRec, Unfocused, Kinds
  <1>2. tab' = [tab EXCEPT ![t].kind = "viewing"] /\ UNCHANGED sock
    BY DEF Unfocus
  <1>3. tab' = [tab EXCEPT ![t] = Unfocused(tab[t])]
    BY <1>2 DEF Unfocused
  <1>. QED
    BY <1>1, <1>2, <1>3, OnPageIs

OpenedPage(k) ==
  [k EXCEPT !.pipe = "live", !.prov = [@ EXCEPT !.booted = FALSE, !.sent = 0, !.acked = 0]]

LEMMA OpenedDoes ==
    ASSUME Typed, NEW t \in Tabs, Opened(t)
    PROVE  /\ OnPage(t, OpenedPage(tab[t])) /\ tab[t].socket \in Sockets
           /\ OnSock(tab[t].socket, Connected(OwnSock(t), tab[t].prov.role))
  <1>1. tab[t] \in PageRec /\ tab[t].socket \in Sockets
    BY PageIs DEF Typed, Opened
  <1>2. OpenedPage(tab[t]) \in PageRec
    BY <1>1 DEF PageRec, ProvRec, OpenedPage, Phases
  <1>3. tab' = [tab EXCEPT ![t] = OpenedPage(tab[t])]
    <2>1. tab \in [Tabs -> PageRec] /\ tab[t] \in PageRec /\ tab[t].prov \in ProvRec
      BY <1>1 DEF Typed, PageRec
    <2>2. tab' = [tab EXCEPT ![t].pipe = "live", ![t].prov.booted = FALSE,
                             ![t].prov.sent = 0, ![t].prov.acked = 0]
      BY DEF Opened
    <2>. QED
      BY <2>1, <2>2 DEF OpenedPage
  <1>4. Connected(OwnSock(t), tab[t].prov.role) \in SockRec
    BY <1>1, ConnectedIs, PageIs DEF Typed, OwnSock
  <1>5. sock' = [sock EXCEPT ![tab[t].socket] = Connected(OwnSock(t), tab[t].prov.role)]
    BY <1>1 DEF Opened, Connected, OwnSock, Typed
  <1>. QED
    BY <1>1, <1>2, <1>3, <1>4, <1>5, OnPageIs, OnSockIs

(* A keystroke.                                                            *)
EditOf(t) == [t |-> "edit", tab |-> t, gen |-> tab[t].gen, n |-> tab[t].own + 1, s |-> tab[t].bound]
Sends(t) == tab[t].prov.role = "editor" /\ tab[t].socket # 0 /\ OwnSock(t).client = "open"
SentNow(k) == IF k.prov.role = "editor" THEN k.prov.sent + 1 ELSE k.prov.sent
TypedPage(k) == [k EXCEPT !.own = k.own + 1, !.prov = [@ EXCEPT !.sent = SentNow(k)]]

LEMMA TypeDoes ==
    ASSUME Typed, NEW t \in Tabs, Type(t)
    PROVE  /\ OnPage(t, TypedPage(tab[t]))
           /\ EditOf(t) \in UpFrames
           /\ Sends(t) => /\ tab[t].socket \in Sockets
                          /\ OnSock(tab[t].socket, Said(OwnSock(t), EditOf(t)))
           /\ ~Sends(t) => UNCHANGED sock
  <1>1. tab[t] \in PageRec
    BY DEF Typed
  <1>2. TypedPage(tab[t]) \in PageRec
    <2>1. tab[t].own + 1 \in Nat /\ SentNow(tab[t]) \in Nat
      BY <1>1, PageIs DEF SentNow
    <2>. QED
      BY <1>1, <2>1 DEF PageRec, ProvRec, TypedPage
  <1>3. tab' = [tab EXCEPT ![t] = TypedPage(tab[t])]
    <2>1. tab' = [tab EXCEPT ![t].own = tab[t].own + 1, ![t].prov.sent = SentNow(tab[t])]
      BY DEF Typed, Type, SentNow
    <2>. QED
      BY <2>1 DEF Typed, TypedPage
  <1>4. EditOf(t) \in UpFrames
    <2>1. tab[t].gen \in Nat /\ tab[t].own + 1 \in Nat /\ tab[t].bound \in Nat
      BY <1>1, PageIs
    <2>. QED
      BY <2>1, UpFramesAre DEF EditOf
  <1>5. CASE Sends(t)
    <2>1. tab[t].socket \in Sockets
      BY <1>1, <1>5, PageIs DEF Sends
    <2>2. Said(OwnSock(t), EditOf(t)) \in SockRec
      BY <1>4, <2>1, SaidIs DEF Typed, OwnSock
    <2>3. sock' = [sock EXCEPT ![tab[t].socket] = Said(OwnSock(t), EditOf(t))]
      BY <1>5, <2>1 DEF Type, Sends, Said, OwnSock, EditOf, Typed
    <2>. QED
      BY <1>2, <1>3, <1>4, <1>5, <2>1, <2>2, <2>3, OnPageIs, OnSockIs
  <1>6. CASE ~Sends(t)
    <2>1. UNCHANGED sock
      BY <1>6 DEF Type, Sends, OwnSock
    <2>. QED
      BY <1>2, <1>3, <1>4, <1>6, <2>1, OnPageIs
  <1>. QED
    BY <1>5, <1>6

(* An animation frame.                                                     *)
ShownNow(k) == IF Editable(k) THEN k.gen ELSE 0
Thawing(p) == {n \in {1} : n + 1 \in p.freezing}
ReadyNow(p) == p.readySent \/ ReadyDue(p)
FramedPage(k) ==
  [k EXCEPT !.shown = ShownNow(k),
            !.prov = [@ EXCEPT !.freezing = Thawing(k.prov), !.readySent = ReadyNow(k.prov)]]
SaysReady(t) == ReadyDue(tab[t].prov) /\ tab[t].socket # 0 /\ OwnSock(t).client = "open"

LEMMA FrameDoes ==
    ASSUME Typed, NEW t \in Tabs, Frame(t)
    PROVE  /\ OnPage(t, FramedPage(tab[t]))
           /\ SaysReady(t) => /\ tab[t].socket \in Sockets
                              /\ OnSock(tab[t].socket, Said(OwnSock(t), [t |-> "ready"]))
           /\ ~SaysReady(t) => UNCHANGED sock
  <1>1. tab[t] \in PageRec
    BY DEF Typed
  <1>2. FramedPage(tab[t]) \in PageRec
    <2>1. ShownNow(tab[t]) \in Nat
      BY <1>1, PageIs DEF ShownNow
    <2>2. ReadyNow(tab[t].prov) \in BOOLEAN
      BY <1>1, PageIs, Zenon DEF ReadyNow
    <2>3. Thawing(tab[t].prov) \in SUBSET {1, 2}
      BY DEF Thawing
    <2>. QED
      BY <1>1, <2>1, <2>2, <2>3 DEF PageRec, ProvRec, FramedPage
  <1>3. tab' = [tab EXCEPT ![t] = FramedPage(tab[t])]
    <2>1. tab' = [tab EXCEPT ![t].shown = ShownNow(tab[t]),
                             ![t].prov.freezing = Thawing(tab[t].prov),
                             ![t].prov.readySent = ReadyNow(tab[t].prov)]
      BY DEF Typed, Frame, ShownNow, Thawing, ReadyNow
    <2>. QED
      BY <2>1 DEF Typed, FramedPage
  <1>5. CASE SaysReady(t)
    <2>1. tab[t].socket \in Sockets
      BY <1>1, <1>5, PageIs DEF SaysReady
    <2>2. Said(OwnSock(t), [t |-> "ready"]) \in SockRec
      BY <2>1, SaidIs, UpFramesAre DEF Typed, OwnSock
    <2>3. sock' = [sock EXCEPT ![tab[t].socket] = Said(OwnSock(t), [t |-> "ready"])]
      BY <1>5, <2>1 DEF Frame, SaysReady, Said, OwnSock, Typed
    <2>. QED
      BY <1>2, <1>3, <1>5, <2>1, <2>2, <2>3, OnPageIs, OnSockIs
  <1>6. CASE ~SaysReady(t)
    <2>1. UNCHANGED sock
      BY <1>6 DEF Frame, SaysReady, OwnSock
    <2>. QED
      BY <1>2, <1>3, <1>6, <2>1, OnPageIs
  <1>. QED
    BY <1>5, <1>6

(* A frame from the server.                                                *)
LEMMA MirroredIs ==
    ASSUME NEW k \in PageRec, NEW m \in BOOLEAN
    PROVE  LET k2 == Mirrored(k, m) IN
           /\ k2 \in PageRec /\ k2.mirror = m
           /\ k2.paused = (IF m # k.mirror THEN m ELSE k.paused)
           /\ k2.kind = k.kind /\ k2.pipe = k.pipe /\ k2.shown = k.shown /\ k2.gen = k.gen
           /\ k2.bound = k.bound /\ k2.own = k.own /\ k2.broke = k.broke /\ k2.prov = k.prov
           /\ k2.socket = k.socket /\ k2.left = k.left
  <1>1. (IF m # k.mirror THEN m ELSE k.paused) \in BOOLEAN
    BY PageIs
  <1>. QED
    BY <1>1 DEF PageRec, Mirrored

(* A bootstrap: merged into the replica, or bound to a fresh one.          *)
BootedPage(r, m) == [Mirrored(r, m.mirror) EXCEPT !.bound = m.s, !.prov = [@ EXCEPT !.booted = TRUE]]
ReplicaFor(k, m) == IF k.bound \in {0, m.s} THEN k ELSE FreshReplica(k)

LEMMA BootFrameIs ==
    ASSUME NEW k \in PageRec, NEW m \in DownFrames, m.t = "boot"
    PROVE  /\ AfterFrame(k, m) = BootedPage(ReplicaFor(k, m), m)
           /\ ReplicaFor(k, m) \in PageRec
  <1>1. AfterFrame(k, m) = [Bootstrapped(k, m) EXCEPT !.prov.booted = TRUE]
    BY DEF AfterFrame
  <1>2. Bootstrapped(k, m) = [Mirrored(ReplicaFor(k, m), m.mirror) EXCEPT !.bound = m.s]
    BY DEF Bootstrapped, ReplicaFor
  <1>3. ReplicaFor(k, m) \in PageRec
    BY FreshReplicaIs DEF ReplicaFor
  <1>4. AfterFrame(k, m) = BootedPage(ReplicaFor(k, m), m)
    BY <1>1, <1>2 DEF BootedPage
  <1>. QED
    BY <1>3, <1>4

LEMMA BootedPageIs ==
    ASSUME NEW k \in PageRec, NEW m \in DownFrames, m.t = "boot"
    PROVE  LET k2 == BootedPage(k, m) IN
           /\ k2 \in PageRec /\ k2.bound = m.s /\ k2.mirror = m.mirror
           /\ k2.paused = (IF m.mirror # k.mirror THEN m.mirror ELSE k.paused)
           /\ k2.gen = k.gen /\ k2.own = k.own /\ k2.broke = k.broke
           /\ k2.kind = k.kind /\ k2.pipe = k.pipe /\ k2.shown = k.shown
           /\ k2.prov = [k.prov EXCEPT !.booted = TRUE]
           /\ k2.socket = k.socket /\ k2.left = k.left
  <1>1. m.s \in Nat /\ m.mirror \in BOOLEAN
    BY DownFramesAre
  <1> DEFINE k1 == Mirrored(k, m.mirror)
  <1>2. /\ k1 \in PageRec /\ k1.mirror = m.mirror
        /\ k1.paused = (IF m.mirror # k.mirror THEN m.mirror ELSE k.paused)
        /\ k1.kind = k.kind /\ k1.pipe = k.pipe /\ k1.shown = k.shown /\ k1.gen = k.gen
        /\ k1.bound = k.bound /\ k1.own = k.own /\ k1.broke = k.broke /\ k1.prov = k.prov
        /\ k1.socket = k.socket /\ k1.left = k.left
    BY <1>1, MirroredIs
  <1> DEFINE p2 == [k1.prov EXCEPT !.booted = TRUE]
  <1>3. BootedPage(k, m) = [k1 EXCEPT !.bound = m.s, !.prov = p2]
    BY DEF BootedPage
  <1>4. p2 \in ProvRec /\ p2 = [k.prov EXCEPT !.booted = TRUE]
    BY <1>2, PageIs DEF ProvRec
  <1> HIDE DEF k1, p2
  <1>5. LET k2 == BootedPage(k, m) IN
           /\ k2 \in PageRec /\ k2.bound = m.s /\ k2.mirror = k1.mirror
           /\ k2.paused = k1.paused
           /\ k2.gen = k1.gen /\ k2.own = k1.own /\ k2.broke = k1.broke
           /\ k2.kind = k1.kind /\ k2.pipe = k1.pipe /\ k2.shown = k1.shown
           /\ k2.prov = p2 /\ k2.socket = k1.socket /\ k2.left = k1.left
    BY <1>1, <1>2, <1>3, <1>4 DEF PageRec
  <1>. QED
    BY <1>2, <1>4, <1>5

(* Two fields of a provider: the replica the bootstrap is bound to.        *)
LEMMA ReplicaForIs ==
    ASSUME NEW k \in PageRec, NEW m
    PROVE  LET r == ReplicaFor(k, m) IN
           /\ r \in PageRec
           /\ r.kind = k.kind /\ r.pipe = k.pipe /\ r.prov = k.prov /\ r.socket = k.socket
           /\ r.left = k.left /\ r.paused = k.paused /\ r.shown = k.shown
           /\ k.bound \in {0, m.s} => r = k
           /\ k.bound \notin {0, m.s} => FreshDoc(k, r)
  BY FreshReplicaIs DEF ReplicaFor, FreshDoc

(* The pause begins, and it ends.                                          *)
LEMMA PauseStartedIs ==
    ASSUME NEW k \in PageRec, ~k.prov.pubPaused
    PROVE  LET k2 == PauseStarted(k) IN
           /\ k2 \in PageRec /\ k2.paused
           /\ k2.prov = [k.prov EXCEPT !.pubPaused = TRUE, !.readySent = FALSE,
                                       !.freezing = k.prov.freezing \cup {2}]
           /\ k2.kind = k.kind /\ k2.pipe = k.pipe /\ k2.shown = k.shown /\ k2.gen = k.gen
           /\ k2.bound = k.bound /\ k2.own = k.own /\ k2.broke = k.broke
           /\ k2.mirror = k.mirror /\ k2.socket = k.socket /\ k2.left = k.left
  <1> DEFINE p2 == [k.prov EXCEPT !.pubPaused = TRUE, !.readySent = FALSE,
                                  !.freezing = k.prov.freezing \cup {2}]
  <1>1. p2 \in ProvRec
    <2>1. k.prov.freezing \cup {2} \in SUBSET {1, 2}
      BY PageIs
    <2>. QED
      BY <2>1, PageIs DEF ProvRec
  <1>2. PauseStarted(k) = [k EXCEPT !.paused = TRUE, !.prov = p2]
    BY DEF PauseStarted
  <1> HIDE DEF p2
  <1>3. LET k2 == PauseStarted(k) IN
           /\ k2 \in PageRec /\ k2.paused /\ k2.prov = p2
           /\ k2.kind = k.kind /\ k2.pipe = k.pipe /\ k2.shown = k.shown /\ k2.gen = k.gen
           /\ k2.bound = k.bound /\ k2.own = k.own /\ k2.broke = k.broke
           /\ k2.mirror = k.mirror /\ k2.socket = k.socket /\ k2.left = k.left
    BY <1>1, <1>2 DEF PageRec
  <1>. QED
    BY <1>3 DEF p2

LEMMA PauseEndedIs ==
    ASSUME NEW k \in PageRec
    PROVE  LET k2 == PauseEnded(k) IN
           /\ k2 \in PageRec /\ ~k2.paused /\ ~k2.mirror
           /\ k2.prov = [k.prov EXCEPT !.pubPaused = FALSE, !.readySent = FALSE]
           /\ k2.kind = k.kind /\ k2.pipe = k.pipe /\ k2.shown = k.shown /\ k2.gen = k.gen
           /\ k2.bound = k.bound /\ k2.own = k.own /\ k2.broke = k.broke
           /\ k2.socket = k.socket /\ k2.left = k.left
  <1> DEFINE p2 == [k.prov EXCEPT !.pubPaused = FALSE, !.readySent = FALSE]
  <1>1. PauseEnded(k) = [k EXCEPT !.paused = FALSE, !.mirror = FALSE, !.prov = p2]
    BY DEF PauseEnded
  <1>2. p2 \in ProvRec
    BY PageIs DEF ProvRec
  <1> HIDE DEF p2
  <1>3. LET k2 == PauseEnded(k) IN
           /\ k2 \in PageRec /\ ~k2.paused /\ ~k2.mirror /\ k2.prov = p2
           /\ k2.kind = k.kind /\ k2.pipe = k.pipe /\ k2.shown = k.shown /\ k2.gen = k.gen
           /\ k2.bound = k.bound /\ k2.own = k.own /\ k2.broke = k.broke
           /\ k2.socket = k.socket /\ k2.left = k.left
    BY <1>1, <1>2 DEF PageRec
  <1>. QED
    BY <1>3 DEF p2

(* A receipt.                                                              *)
AckedNow(k, m) == IF m.n > k.prov.acked THEN m.n ELSE k.prov.acked
AckedPage(k, m) == [k EXCEPT !.prov = [@ EXCEPT !.acked = AckedNow(k, m)]]

LEMMA AckedPageIs ==
    ASSUME NEW k \in PageRec, NEW m \in DownFrames, m.t = "ack"
    PROVE  LET k2 == AckedPage(k, m) IN
           /\ k2 \in PageRec /\ k2.prov = [k.prov EXCEPT !.acked = AckedNow(k, m)]
           /\ k2.kind = k.kind /\ k2.pipe = k.pipe /\ k2.shown = k.shown /\ k2.gen = k.gen
           /\ k2.bound = k.bound /\ k2.own = k.own /\ k2.broke = k.broke
           /\ k2.mirror = k.mirror /\ k2.paused = k.paused
           /\ k2.socket = k.socket /\ k2.left = k.left
  <1>1. AckedNow(k, m) \in Nat
    BY PageIs, DownFramesAre DEF AckedNow
  <1>. QED
    BY <1>1 DEF PageRec, ProvRec, AckedPage

(* The frames by their kinds.                                              *)
LEMMA AfterFrameIs ==
    ASSUME NEW k \in PageRec, NEW m \in DownFrames, m.t # "close"
    PROVE  /\ AfterFrame(k, m) \in PageRec
           /\ \/ m.t = "boot" /\ AfterFrame(k, m) = BootedPage(ReplicaFor(k, m), m)
              \/ m.t = "update" /\ AfterFrame(k, m) = Mirrored(k, m.mirror)
              \/ /\ m.t = "start" /\ k.prov.role = "editor" /\ ~k.prov.pubPaused
                 /\ AfterFrame(k, m) = PauseStarted(k)
              \/ m.t = "end" /\ k.prov.role = "editor" /\ AfterFrame(k, m) = PauseEnded(k)
              \/ m.t = "ack" /\ AfterFrame(k, m) = AckedPage(k, m)
              \/ /\ m.t \in {"start", "end"} /\ AfterFrame(k, m) = k
                 /\ k.prov.role = "editor" => m.t = "start" /\ k.prov.pubPaused
  <1>1. m.t \in {"boot", "update", "ack", "start", "end"}
    BY DownFramesAre
  <1>2. CASE m.t = "boot"
    <2>1. /\ AfterFrame(k, m) = BootedPage(ReplicaFor(k, m), m) /\ ReplicaFor(k, m) \in PageRec
      BY <1>2, BootFrameIs
    <2>2. BootedPage(ReplicaFor(k, m), m) \in PageRec
      BY <1>2, <2>1, BootedPageIs
    <2>. QED
      BY <1>2, <2>1, <2>2
  <1>3. CASE m.t = "update"
    BY <1>3, MirroredIs, DownFramesAre DEF AfterFrame
  <1>4. CASE m.t = "start"
    <2>1. AfterFrame(k, m) = IF k.prov.role = "editor" THEN PauseStarted(k) ELSE k
      BY <1>4 DEF AfterFrame
    <2>2. k.prov.pubPaused => PauseStarted(k) = k
      BY DEF PauseStarted
    <2>. QED
      BY <1>4, <2>1, <2>2, PauseStartedIs
  <1>5. CASE m.t = "end"
    BY <1>5, PauseEndedIs DEF AfterFrame
  <1>6. CASE m.t = "ack"
    <2>1. AfterFrame(k, m) = AckedPage(k, m)
      BY <1>6 DEF AfterFrame, AckedPage, AckedNow
    <2>. QED
      BY <1>6, <2>1, AckedPageIs
  <1>. QED
    BY <1>1, <1>2, <1>3, <1>4, <1>5, <1>6

LEMMA ReceiveDoes ==
    ASSUME Typed, NEW t \in Tabs, Receive(t)
    PROVE  /\ tab[t].socket \in Sockets /\ OwnSock(t).down # <<>>
           /\ Arriving(t) \in DownFrames /\ Arriving(t).t # "close"
           /\ Arriving(t) = OwnSock(t).down[1]
           /\ OnPage(t, AfterFrame(tab[t], Arriving(t)))
           /\ OnSock(tab[t].socket, Got(OwnSock(t)))
  <1>1. tab[t].socket \in Sockets /\ OwnSock(t).down # <<>> /\ tab[t] \in PageRec
    BY PageIs DEF Receive, Incoming, Typed, OwnSock
  <1>2. OwnSock(t) \in SockRec
    BY <1>1 DEF OwnSock, Typed
  <1>3. Arriving(t) \in DownFrames /\ Arriving(t) = OwnSock(t).down[1]
    BY <1>1, <1>2, SockRecIs, TailIs DEF Arriving, OwnSock
  <1>4. Arriving(t).t # "close"
    BY DEF Receive
  <1>5. AfterFrame(tab[t], Arriving(t)) \in PageRec
    BY <1>1, <1>3, <1>4, AfterFrameIs
  <1>6. tab' = [tab EXCEPT ![t] = AfterFrame(tab[t], Arriving(t))]
    BY DEF Receive
  <1>7. sock' = [sock EXCEPT ![tab[t].socket] = Got(OwnSock(t))]
    BY <1>1 DEF Receive, Got, OwnSock, Typed
  <1>8. Got(OwnSock(t)) \in SockRec
    BY <1>1, <1>2, GotIs
  <1>. QED
    BY <1>1, <1>3, <1>4, <1>5, <1>6, <1>7, <1>8, OnPageIs, OnSockIs

(* The network, the browser and the clock.                                 *)
Faulted(k) == [k EXCEPT !.broke = TRUE]

LEMMA DropDoes ==
    ASSUME Typed, NEW c \in Sockets, Drop(c), sock[c].owner \in Tabs
    PROVE  OnPage(sock[c].owner, Faulted(tab[sock[c].owner])) /\ OnSock(c, Broken(sock[c]))
  <1>1. Faulted(tab[sock[c].owner]) \in PageRec
    <2>1. tab[sock[c].owner] \in PageRec
      BY DEF Typed
    <2>. QED
      BY <2>1 DEF Faulted, PageRec
  <1>2. tab' = [tab EXCEPT ![sock[c].owner] = Faulted(tab[sock[c].owner])]
    BY DEF Drop, Faulted
  <1>3. sock' = [sock EXCEPT ![c] = Broken(sock[c])] /\ Broken(sock[c]) \in SockRec
    BY BrokenIs DEF Drop, Typed
  <1>. QED
    BY <1>1, <1>2, <1>3, OnPageIs, OnSockIs

Slept(k) == [k EXCEPT !.asleep = TRUE, !.broke = TRUE]

LEMMA SleepDoes ==
    ASSUME Typed, NEW t \in Tabs, Sleep(t)
    PROVE  /\ OnPage(t, Slept(tab[t]))
           /\ \/ /\ tab[t].socket \in Sockets /\ OwnSock(t).client \in {"opening", "open"}
                 /\ OnSock(tab[t].socket, Broken(OwnSock(t)))
              \/ /\ UNCHANGED sock
                 /\ tab[t].socket # 0 => OwnSock(t).client \notin {"opening", "open"}
  <1>1. Slept(tab[t]) \in PageRec
    <2>1. PICK k \in PageRec : k = tab[t]
      BY DEF Typed
    <2>2. [k EXCEPT !.asleep = TRUE, !.broke = TRUE] \in PageRec
      BY DEF PageRec
    <2>. QED
      BY <2>1, <2>2 DEF Slept
  <1>2. tab' = [tab EXCEPT ![t] = Slept(tab[t])]
    BY DEF Sleep, Slept, Typed
  <1>3. CASE tab[t].socket # 0 /\ OwnSock(t).client \in {"opening", "open"}
    <2>1. tab[t].socket \in Sockets
      BY <1>3, PageIs DEF Typed
    <2>2. Broken(OwnSock(t)) \in SockRec
      BY <2>1, BrokenIs DEF Typed, OwnSock
    <2>3. sock' = [sock EXCEPT ![tab[t].socket] = Broken(OwnSock(t))]
      BY <1>3 DEF Sleep, OwnSock
    <2>. QED
      BY <1>1, <1>2, <1>3, <2>1, <2>2, <2>3, OnPageIs, OnSockIs
  <1>4. CASE ~(tab[t].socket # 0 /\ OwnSock(t).client \in {"opening", "open"})
    <2>1. UNCHANGED sock
      BY <1>4 DEF Sleep, OwnSock
    <2>. QED
      BY <1>1, <1>2, <1>4, <2>1, OnPageIs
  <1>. QED
    BY <1>3, <1>4

-----------------------------------------------------------------------------
(* What the steps of the server do.                                        *)

Attach(r) == [r EXCEPT !.attached = TRUE]
JoinEditor(r, s) == [Join(r, s) EXCEPT !.role = "editor"]

LEMMA AttachIs ==
    ASSUME NEW r \in SockRec
    PROVE  LET r2 == Attach(r) IN
           /\ r2 \in SockRec /\ r2.owner = r.owner /\ r2.client = r.client
           /\ r2.server = r.server /\ r2.role = r.role /\ r2.attached /\ r2.joined = r.joined
           /\ r2.sess = r.sess /\ r2.boot = r.boot /\ r2.recipient = r.recipient
           /\ r2.received = r.received /\ r2.up = r.up /\ r2.down = r.down
  BY DEF Attach, SockRec

LEMMA JoinEditorIs ==
    ASSUME NEW r \in SockRec, NEW s \in Nat
    PROVE  LET r2 == JoinEditor(r, s) IN
           /\ r2 \in SockRec /\ r2.owner = r.owner /\ r2.client = r.client
           /\ r2.server = r.server /\ r2.role = "editor" /\ r2.attached /\ r2.joined
           /\ r2.sess = s /\ r2.boot = ~r.joined /\ r2.recipient = r.recipient
           /\ r2.received = r.received /\ r2.up = r.up /\ r2.down = r.down
  BY DEF JoinEditor, Join, SockRec

(* The frame is off the channel.                                           *)
LEMMA HandledIs ==
    ASSUME Typed, NEW c \in Sockets
    PROVE  /\ Handled(c) = [sock EXCEPT ![c] = Heard(sock[c])]
           /\ Serving(c) => /\ sock[c].up # <<>> /\ sock[c].server \in {"open", "closing"}
                            /\ Heard(sock[c]) \in SockRec /\ Asks(c) \in UpFrames
                            /\ Asks(c) = sock[c].up[1]
                            /\ Handled(c) \in [Sockets -> SockRec]
                            /\ Handled(c)[c] = Heard(sock[c])
                            /\ \A d \in Sockets \ {c} : Handled(c)[d] = sock[d]
  <1>1. Handled(c) = [sock EXCEPT ![c] = Heard(sock[c])]
    BY DEF Handled, Heard
  <1>2. ASSUME Serving(c)
        PROVE  /\ sock[c].up # <<>> /\ sock[c].server \in {"open", "closing"}
               /\ Heard(sock[c]) \in SockRec /\ Asks(c) \in UpFrames /\ Asks(c) = sock[c].up[1]
    <2>1. sock[c].up # <<>> /\ sock[c].server \in {"open", "closing"} /\ sock[c] \in SockRec
      BY <1>2 DEF Serving, Typed
    <2>2. Asks(c) \in UpFrames /\ Asks(c) = sock[c].up[1]
      BY <2>1, SockRecIs, TailIs DEF Asks
    <2>. QED
      BY <2>1, <2>2, HeardIs
  <1>. QED
    BY <1>1, <1>2 DEF Typed

LEMMA AskObserverDoes ==
    ASSUME Typed, NEW c \in Sockets, AskObserver(c)
    PROVE  /\ Serving(c) /\ Asks(c).t = "req"
           /\ \/ sock[c].attached /\ OnSock(c, Heard(sock[c]))
              \/ ~sock[c].attached /\ session # 0 /\ OnSock(c, Join(Heard(sock[c]), session))
              \/ ~sock[c].attached /\ session = 0 /\ OnSock(c, Attach(Heard(sock[c])))
  <1>1. Serving(c) /\ Asks(c).t = "req" /\ session \in Nat
    BY DEF AskObserver, Typed
  <1>2. Heard(sock[c]) \in SockRec
    BY <1>1, HandledIs
  <1>3. Join(Heard(sock[c]), session) \in SockRec /\ Attach(Heard(sock[c])) \in SockRec
    BY <1>1, <1>2, JoinIs, AttachIs
  <1>4. Handled(c) = [sock EXCEPT ![c] = Heard(sock[c])]
    BY HandledIs
  <1>5. CASE sock[c].attached
    <2>1. sock' = Handled(c)
      BY <1>5 DEF AskObserver
    <2>. QED
      BY <1>1, <1>2, <1>4, <1>5, <2>1, OnSockIs
  <1>6. CASE ~sock[c].attached /\ session # 0
    <2>1. sock' = [Handled(c) EXCEPT ![c] = Join(@, session)]
      BY <1>6 DEF AskObserver
    <2>2. sock' = [sock EXCEPT ![c] = Join(Heard(sock[c]), session)]
      BY <1>4, <2>1 DEF Typed
    <2>. QED
      BY <1>1, <1>3, <1>6, <2>2, OnSockIs
  <1>7. CASE ~sock[c].attached /\ session = 0
    <2>1. sock' = [Handled(c) EXCEPT ![c].attached = TRUE]
      BY <1>7 DEF AskObserver
    <2>2. sock' = [sock EXCEPT ![c] = Attach(Heard(sock[c]))]
      BY <1>4, <2>1 DEF Typed, Attach
    <2>. QED
      BY <1>1, <1>3, <1>7, <2>2, OnSockIs
  <1>. QED
    BY <1>5, <1>6, <1>7

(* An editor's request that is not refused: the session it joins.          *)
JoinedBy == IF session = 0 THEN nSessions + 1 ELSE session

LEMMA AskEditorDoes ==
    ASSUME Typed, NEW c \in Sockets, AskEditor(c)
    PROVE  /\ Serving(c) /\ Asks(c).t = "req" /\ Asks(c).role = "editor" /\ JoinedBy \in Nat \ {0}
           /\ \/ /\ sock[c].attached /\ OnSock(c, Heard(sock[c]))
                 /\ UNCHANGED <<session, holders, nSessions, integrated>>
              \/ /\ ~sock[c].attached
                 /\ session' = JoinedBy /\ holders' = holders \cup {c}
                 /\ nSessions' = IF session = 0 THEN JoinedBy ELSE nSessions
                 /\ integrated' = IF session' # session THEN [t \in Tabs |-> Nothing]
                                  ELSE integrated
                 /\ sock' \in [Sockets -> SockRec]
                 /\ sock'[c] = JoinEditor(Heard(sock[c]), JoinedBy)
                 /\ \A d \in Sockets \ {c} :
                      \/ sock'[d] = Shut(sock[d], "superseded")
                      \/ /\ sock[d].server = "open" /\ ~sock[d].joined
                         /\ sock[d].role = "observer"
                         /\ sock[d].attached \/ "unasked" \in Env
                         /\ sock'[d] = Join(sock[d], JoinedBy)
                      \/ sock'[d] = sock[d]
  <1>1. Serving(c) /\ Asks(c).t = "req" /\ Asks(c).role = "editor"
    BY DEF AskEditor
  <1>2. JoinedBy \in Nat \ {0}
    BY DEF JoinedBy, Typed
  <1>3. /\ Handled(c) \in [Sockets -> SockRec]
        /\ Handled(c)[c] = Heard(sock[c]) /\ Heard(sock[c]) \in SockRec
        /\ \A d \in Sockets \ {c} : Handled(c)[d] = sock[d]
        /\ Handled(c) = [sock EXCEPT ![c] = Heard(sock[c])]
    BY <1>1, HandledIs
  <1>4. CASE sock[c].attached
    <2>1. sock' = Handled(c) /\ UNCHANGED <<session, holders, nSessions, integrated>>
      BY <1>4 DEF AskEditor
    <2>. QED
      BY <1>1, <1>2, <1>3, <1>4, <2>1, OnSockIs
  <1>5. CASE ~sock[c].attached
    <2> DEFINE mine == [Handled(c) EXCEPT ![c] = [Join(@, JoinedBy) EXCEPT !.role = "editor"]]
               first == \A d \in Sockets \ {c} : d \notin holders
    <2>1. /\ session' = JoinedBy /\ holders' = holders \cup {c}
          /\ nSessions' = IF session = 0 THEN JoinedBy ELSE nSessions
          /\ integrated' = IF session' # session THEN [t \in Tabs |-> Nothing] ELSE integrated
          /\ sock' = [d \in Sockets |->
               CASE d \in Superseded(c, mine) -> Shut(mine[d], "superseded")
                 [] first /\ d \in Waiting(c, mine) -> Join(mine[d], JoinedBy)
                 [] OTHER -> mine[d]]
      BY <1>5 DEF AskEditor, JoinedBy
    <2>2. mine[c] = JoinEditor(Heard(sock[c]), JoinedBy) /\ \A d \in Sockets \ {c} : mine[d] = sock[d]
      BY <1>3 DEF JoinEditor
    <2> HIDE DEF mine, first
    <2>3. c \notin Superseded(c, mine) /\ c \notin Waiting(c, mine)
      BY DEF Superseded, Waiting
    <2>4. sock'[c] = JoinEditor(Heard(sock[c]), JoinedBy)
      BY <2>1, <2>2, <2>3
    <2>5. ASSUME NEW d \in Sockets \ {c}
          PROVE  \/ sock'[d] = Shut(sock[d], "superseded")
                 \/ /\ sock[d].server = "open" /\ ~sock[d].joined /\ sock[d].role = "observer"
                    /\ sock[d].attached \/ "unasked" \in Env
                    /\ sock'[d] = Join(sock[d], JoinedBy)
                 \/ sock'[d] = sock[d]
      <3>1. CASE d \in Superseded(c, mine)
        <4>1. d \notin Waiting(c, mine)
          BY <3>1 DEF Superseded, Waiting
        <4>2. sock'[d] = Shut(mine[d], "superseded")
          BY <2>1, <3>1, <4>1
        <4>3. mine[d] = sock[d]
          BY <2>2
        <4>. QED
          BY <4>2, <4>3
      <3>2. CASE d \notin Superseded(c, mine) /\ first /\ d \in Waiting(c, mine)
        <4>1. sock'[d] = Join(mine[d], JoinedBy)
          BY <2>1, <3>2
        <4>2. /\ mine[d].server = "open" /\ mine[d].role = "observer" /\ ~mine[d].joined
              /\ mine[d].attached \/ "unasked" \in Env
          BY <3>2 DEF Waiting
        <4>3. mine[d] = sock[d]
          BY <2>2
        <4>. QED
          BY <4>1, <4>2, <4>3
      <3>3. CASE d \notin Superseded(c, mine) /\ ~(first /\ d \in Waiting(c, mine))
        BY <2>1, <2>2, <3>3
      <3>. QED
        BY <3>1, <3>2, <3>3
    <2>6. sock'[c] \in SockRec
      BY <1>2, <1>3, <2>4, JoinEditorIs
    <2>7. ASSUME NEW d \in Sockets \ {c} PROVE sock'[d] \in SockRec
      <3>1. sock[d] \in SockRec /\ "superseded" \in Codes
        BY DEF Typed, Codes
      <3>2. Shut(sock[d], "superseded") \in SockRec
        BY <3>1, ShutIs
      <3>3. Join(sock[d], JoinedBy) \in SockRec
        BY <1>2, <3>1, JoinIs
      <3>. QED
        BY <2>5, <3>1, <3>2, <3>3
    <2>8. sock' \in [Sockets -> SockRec]
      BY <2>1, <2>6, <2>7
    <2>. QED
      BY <1>1, <1>2, <1>5, <2>1, <2>4, <2>5, <2>8
  <1>. QED
    BY <1>4, <1>5

Bootable(r) == r.server = "open" /\ session = r.sess
BootOf == [t |-> "boot", s |-> session, mirror |-> pause.on]
MadeRecipient(r) == [r EXCEPT !.boot = FALSE, !.recipient = TRUE]
Booting(r) == MadeRecipient(Sent(r, BootOf))
Unbooted(r) == [r EXCEPT !.boot = FALSE]

LEMMA BootingIs ==
    ASSUME Typed, NEW r \in SockRec
    PROVE  /\ BootOf \in DownFrames
           /\ LET r2 == Booting(r) IN
              /\ r2 \in SockRec /\ r2.owner = r.owner /\ r2.client = r.client
              /\ r2.server = r.server /\ r2.role = r.role /\ r2.attached = r.attached
              /\ r2.joined = r.joined /\ r2.sess = r.sess /\ ~r2.boot /\ r2.recipient
              /\ r2.received = r.received /\ r2.up = r.up
              /\ r.server = "open" => r2.down = Append(r.down, BootOf)
           /\ LET r2 == Unbooted(r) IN
              /\ r2 \in SockRec /\ r2.owner = r.owner /\ r2.client = r.client
              /\ r2.server = r.server /\ r2.role = r.role /\ r2.attached = r.attached
              /\ r2.joined = r.joined /\ r2.sess = r.sess /\ ~r2.boot
              /\ r2.recipient = r.recipient
              /\ r2.received = r.received /\ r2.up = r.up /\ r2.down = r.down
  <1>1. BootOf \in DownFrames
    BY DownFramesAre DEF BootOf, Typed, PauseRec
  <1>2. /\ Sent(r, BootOf) \in SockRec /\ Alike(r, Sent(r, BootOf))
        /\ Sent(r, BootOf).client = r.client /\ Sent(r, BootOf).up = r.up
        /\ r.server = "open" => Sent(r, BootOf).down = Append(r.down, BootOf)
    BY <1>1, SentIs
  <1>3. ASSUME NEW q \in SockRec
        PROVE  LET r2 == MadeRecipient(q) IN
              /\ r2 \in SockRec /\ r2.owner = q.owner /\ r2.client = q.client
              /\ r2.server = q.server /\ r2.role = q.role /\ r2.attached = q.attached
              /\ r2.joined = q.joined /\ r2.sess = q.sess /\ ~r2.boot /\ r2.recipient
              /\ r2.received = q.received /\ r2.up = q.up /\ r2.down = q.down
    BY DEF SockRec, MadeRecipient
  <1>4. Booting(r) = MadeRecipient(Sent(r, BootOf))
    BY DEF Booting
  <1>5. LET r2 == Unbooted(r) IN
              /\ r2 \in SockRec /\ r2.owner = r.owner /\ r2.client = r.client
              /\ r2.server = r.server /\ r2.role = r.role /\ r2.attached = r.attached
              /\ r2.joined = r.joined /\ r2.sess = r.sess /\ ~r2.boot
              /\ r2.recipient = r.recipient
              /\ r2.received = r.received /\ r2.up = r.up /\ r2.down = r.down
    BY DEF SockRec, Unbooted
  <1>6. LET r2 == Booting(r) IN
              /\ r2 \in SockRec /\ r2.owner = r.owner /\ r2.client = r.client
              /\ r2.server = r.server /\ r2.role = r.role /\ r2.attached = r.attached
              /\ r2.joined = r.joined /\ r2.sess = r.sess /\ ~r2.boot /\ r2.recipient
              /\ r2.received = r.received /\ r2.up = r.up
              /\ r.server = "open" => r2.down = Append(r.down, BootOf)
    BY <1>2, <1>3, <1>4 DEF Alike
  <1>. QED
    BY <1>1, <1>5, <1>6

LEMMA SendBootstrapDoes ==
    ASSUME Typed, NEW c \in Sockets, SendBootstrap(c)
    PROVE  /\ sock[c].boot
           /\ \/ Bootable(sock[c]) /\ OnSock(c, Booting(sock[c]))
              \/ ~Bootable(sock[c]) /\ OnSock(c, Unbooted(sock[c]))
  <1>1. sock' = [sock EXCEPT ![c] = IF Bootable(sock[c]) THEN Booting(sock[c]) ELSE Unbooted(sock[c])]
    BY DEF SendBootstrap, Bootable, Booting, MadeRecipient, Unbooted, BootOf, Live, Typed
  <1>2. Booting(sock[c]) \in SockRec /\ Unbooted(sock[c]) \in SockRec
    BY BootingIs DEF Typed
  <1>3. sock[c].boot
    BY DEF SendBootstrap
  <1>. QED
    BY <1>1, <1>2, <1>3, OnSockIs

(* An edit: dropped, refused with a close, or taken in.                    *)
UpdateOf == [t |-> "update", s |-> session, mirror |-> pause.on]
AckOf(r) == [t |-> "ack", n |-> r.received + 1]
Receipt(r) == [Sent(Heard(r), AckOf(r)) EXCEPT !.received = r.received + 1]
Dropped(c) == sock[c].role = "observer" \/ session = 0

LEMMA ReceiptIs ==
    ASSUME NEW r \in SockRec, r.up # <<>>
    PROVE  LET r2 == Receipt(r) IN
           /\ r2 \in SockRec /\ r2.owner = r.owner /\ r2.client = r.client
           /\ r2.server = r.server /\ r2.role = r.role /\ r2.attached = r.attached
           /\ r2.joined = r.joined /\ r2.sess = r.sess /\ r2.boot = r.boot
           /\ r2.recipient = r.recipient /\ r2.received = r.received + 1 /\ r2.up = Tail(r.up)
           /\ AckOf(r) \in DownFrames
           /\ r.server = "open" => r2.down = Append(r.down, AckOf(r))
           /\ r.server # "open" => r2.down = r.down
  <1>1. r.received + 1 \in Nat /\ AckOf(r) \in DownFrames
    BY SockRecIs, DownFramesAre DEF AckOf
  <1>2. /\ Heard(r) \in SockRec /\ Alike(r, Heard(r)) /\ Heard(r).client = r.client
        /\ Heard(r).up = Tail(r.up) /\ Heard(r).down = r.down
    BY HeardIs
  <1> DEFINE q == Sent(Heard(r), AckOf(r))
  <1>3. /\ q \in SockRec /\ Alike(Heard(r), q) /\ q.client = Heard(r).client /\ q.up = Heard(r).up
        /\ Heard(r).server # "open" => q = Heard(r)
        /\ Heard(r).server = "open" => q.down = Append(Heard(r).down, AckOf(r))
    BY <1>1, <1>2, SentIs
  <1>4. Receipt(r) = [q EXCEPT !.received = r.received + 1]
    BY DEF Receipt
  <1> HIDE DEF q
  <1>5. LET r2 == Receipt(r) IN
           /\ r2 \in SockRec /\ r2.owner = q.owner /\ r2.client = q.client
           /\ r2.server = q.server /\ r2.role = q.role /\ r2.attached = q.attached
           /\ r2.joined = q.joined /\ r2.sess = q.sess /\ r2.boot = q.boot
           /\ r2.recipient = q.recipient /\ r2.received = r.received + 1 /\ r2.up = q.up
           /\ r2.down = q.down
    BY <1>1, <1>3, <1>4 DEF SockRec
  <1>. QED
    BY <1>1, <1>2, <1>3, <1>5 DEF Alike

LEMMA EditArrivesDoes ==
    ASSUME Typed, NEW c \in Sockets, EditArrives(c)
    PROVE  /\ Serving(c) /\ Asks(c).t = "edit" /\ ~sock[c].boot
           /\ \/ Dropped(c) /\ OnSock(c, Heard(sock[c])) /\ UNCHANGED integrated
              \/ /\ ~Dropped(c) /\ ~IsCurrentSessionEditor(c) /\ UNCHANGED integrated
                 /\ OnSock(c, Shut(Heard(sock[c]), "stale"))
              \/ /\ ~Dropped(c) /\ IsCurrentSessionEditor(c)
                 /\ integrated' = IF Integrates(Asks(c))
                                  THEN [integrated EXCEPT ![Asks(c).tab] =
                                          [gen |-> Asks(c).gen, n |-> Asks(c).n]]
                                  ELSE integrated
                 /\ UpdateOf \in DownFrames
                 /\ sock' \in [Sockets -> SockRec]
                 /\ sock'[c] = Receipt(sock[c])
                 /\ \A d \in Sockets \ {c} :
                      sock'[d] = IF sock[d].recipient THEN Sent(sock[d], UpdateOf) ELSE sock[d]
  <1>1. Serving(c) /\ Asks(c).t = "edit" /\ ~sock[c].boot
    BY DEF EditArrives
  <1>2. /\ Handled(c) \in [Sockets -> SockRec] /\ sock[c].up # <<>>
        /\ Handled(c)[c] = Heard(sock[c]) /\ Heard(sock[c]) \in SockRec
        /\ \A d \in Sockets \ {c} : Handled(c)[d] = sock[d]
        /\ Handled(c) = [sock EXCEPT ![c] = Heard(sock[c])]
    BY <1>1, HandledIs
  <1>3. CASE Dropped(c)
    <2>1. sock' = Handled(c) /\ UNCHANGED integrated
      BY <1>3 DEF EditArrives, Dropped
    <2>. QED
      BY <1>1, <1>2, <1>3, <2>1, OnSockIs
  <1>4. CASE ~Dropped(c) /\ ~IsCurrentSessionEditor(c)
    <2>1. sock' = [Handled(c) EXCEPT ![c] = Shut(@, "stale")] /\ UNCHANGED integrated
      BY <1>4 DEF EditArrives, Dropped
    <2>2. sock' = [sock EXCEPT ![c] = Shut(Heard(sock[c]), "stale")]
      BY <1>2, <2>1 DEF Typed
    <2>3. Shut(Heard(sock[c]), "stale") \in SockRec
      BY <1>2, ShutIs DEF Codes
    <2>. QED
      BY <1>1, <1>4, <2>1, <2>2, <2>3, OnSockIs
  <1>5. CASE ~Dropped(c) /\ IsCurrentSessionEditor(c)
    <2> DEFINE s == [Handled(c) EXCEPT ![c] = Receipt(sock[c])]
    <2>1. /\ integrated' = IF Integrates(Asks(c))
                           THEN [integrated EXCEPT ![Asks(c).tab] =
                                   [gen |-> Asks(c).gen, n |-> Asks(c).n]]
                           ELSE integrated
          /\ sock' = ToRecipients(s, UpdateOf, c)
      <3>1. [Handled(c) EXCEPT ![c] =
               [Sent(@, [t |-> "ack", n |-> sock[c].received + 1])
                  EXCEPT !.received = sock[c].received + 1]] = s
        BY <1>2 DEF Receipt, AckOf
      <3>. QED
        BY <1>5, <3>1 DEF EditArrives, Dropped, UpdateOf
    <2>2. Receipt(sock[c]) \in SockRec
      BY <1>2, ReceiptIs DEF Typed
    <2>3. s[c] = Receipt(sock[c]) /\ \A d \in Sockets \ {c} : s[d] = sock[d]
      BY <1>2
    <2>4. UpdateOf \in DownFrames
      BY DownFramesAre DEF UpdateOf, Typed, PauseRec
    <2> HIDE DEF s
    <2>5. sock'[c] = Receipt(sock[c])
      BY <2>1, <2>3 DEF ToRecipients
    <2>6. ASSUME NEW d \in Sockets \ {c}
          PROVE  sock'[d] = IF sock[d].recipient THEN Sent(sock[d], UpdateOf) ELSE sock[d]
      BY <2>1, <2>3 DEF ToRecipients
    <2>7. ASSUME NEW d \in Sockets \ {c} PROVE sock'[d] \in SockRec
      <3>1. sock[d] \in SockRec
        BY DEF Typed
      <3>2. Sent(sock[d], UpdateOf) \in SockRec
        BY <2>4, <3>1, SentIs
      <3>. QED
        BY <2>6, <3>1, <3>2
    <2>8. sock' \in [Sockets -> SockRec]
      BY <2>1, <2>2, <2>5, <2>7 DEF ToRecipients
    <2>. QED
      BY <1>1, <1>5, <2>1, <2>4, <2>5, <2>6, <2>8
  <1>. QED
    BY <1>3, <1>4, <1>5

LEMMA ReadyArrivesDoes ==
    ASSUME Typed, NEW c \in Sockets, ReadyArrives(c)
    PROVE  /\ Serving(c) /\ Asks(c).t = "ready"
           /\ \/ OnSock(c, Heard(sock[c]))
              \/ OnSock(c, Shut(Heard(sock[c]), "stale")) /\ UNCHANGED pause
           /\ \/ UNCHANGED pause
              \/ /\ c \in pause.waiting /\ pause.on
                 /\ pause' = [pause EXCEPT !.waiting = @ \ {c}, !.ready = @ \cup {c}]
  <1>1. Serving(c) /\ Asks(c).t = "ready"
    BY DEF ReadyArrives
  <1>2. Handled(c) = [sock EXCEPT ![c] = Heard(sock[c])] /\ Heard(sock[c]) \in SockRec
    BY <1>1, HandledIs
  <1>3. CASE UNCHANGED pause /\ sock' = Handled(c)
    BY <1>1, <1>2, <1>3, OnSockIs
  <1>4. CASE sock' = [Handled(c) EXCEPT ![c] = Shut(@, "stale")] /\ UNCHANGED pause
    <2>1. sock' = [sock EXCEPT ![c] = Shut(Heard(sock[c]), "stale")]
      BY <1>2, <1>4 DEF Typed
    <2>2. Shut(Heard(sock[c]), "stale") \in SockRec
      BY <1>2, ShutIs DEF Codes
    <2>. QED
      BY <1>1, <1>4, <2>1, <2>2, OnSockIs
  <1>5. CASE /\ sock' = Handled(c)
             /\ pause' = IF pause.on /\ c \in pause.waiting
                         THEN [pause EXCEPT !.waiting = @ \ {c}, !.ready = @ \cup {c}] ELSE pause
    BY <1>1, <1>2, <1>5, OnSockIs
  <1>. QED
    BY <1>3, <1>4, <1>5 DEF ReadyArrives

LEMMA TokenExpiredDoes ==
    ASSUME Typed, NEW c \in Sockets, TokenExpired(c), sock[c].owner \in Tabs
    PROVE  /\ Serving(c) /\ sock[c].server = "open" /\ Asks(c).t \notin {"fin", "lost"}
           /\ OnSock(c, Shut(Heard(sock[c]), "expired"))
           /\ OnPage(sock[c].owner, Faulted(tab[sock[c].owner]))
  <1>1. Serving(c) /\ sock[c].server = "open" /\ Asks(c).t \notin {"fin", "lost"}
    BY DEF TokenExpired, Live
  <1>2. Faulted(tab[sock[c].owner]) \in PageRec
    <2>1. tab[sock[c].owner] \in PageRec
      BY DEF Typed
    <2>. QED
      BY <2>1 DEF Faulted, PageRec
  <1>3. tab' = [tab EXCEPT ![sock[c].owner] = Faulted(tab[sock[c].owner])]
    BY DEF TokenExpired, Faulted
  <1>4. Heard(sock[c]) \in SockRec
    BY <1>1, HandledIs
  <1>5. Shut(Heard(sock[c]), "expired") \in SockRec
    BY <1>4, ShutIs DEF Codes
  <1>6. sock' = [sock EXCEPT ![c] = Shut(Heard(sock[c]), "expired")]
    <2>1. Handled(c) = [sock EXCEPT ![c] = Heard(sock[c])]
      BY HandledIs
    <2>2. sock' = [Handled(c) EXCEPT ![c] = Shut(@, "expired")]
      BY DEF TokenExpired
    <2>. QED
      BY <2>1, <2>2 DEF Typed
  <1>. QED
    BY <1>1, <1>2, <1>3, <1>5, <1>6, OnPageIs, OnSockIs

(* An editor's socket is gone.                                             *)
LEMMA LeaveDoes ==
    ASSUME Typed, NEW c \in Sockets, NEW last \in BOOLEAN, Leave(c, last),
           sock[c].role = "observer" => sock[c].server # "open"
    PROVE  /\ sock' \in [Sockets -> SockRec] /\ sock'[c] = Gone(sock[c])
           /\ \A d \in Sockets \ {c} :
                sock'[d] = IF last /\ sock[d].role = "observer" THEN Shut(sock[d], "ended")
                           ELSE sock[d]
           /\ holders' = holders \ {c}
           /\ session' = IF holders' = {} THEN 0 ELSE session
  <1> DEFINE others == IF last THEN [d \in Sockets |-> IF sock[d].role = "observer"
                                                       THEN Shut(sock[d], "ended") ELSE sock[d]]
                       ELSE sock
  <1>1. /\ sock' = [others EXCEPT ![c] = Gone(@)]
        /\ holders' = holders \ {c}
        /\ session' = IF holders' = {} THEN 0 ELSE session
    BY DEF Leave
  <1>2. \A d \in Sockets : sock[d] \in SockRec /\ Shut(sock[d], "ended") \in SockRec
    BY ShutIs DEF Codes, Typed
  <1>3. others \in [Sockets -> SockRec]
    BY <1>2 DEF Typed
  <1>4. others[c] = sock[c]
    <2>1. sock[c].role = "observer" => Shut(sock[c], "ended") = sock[c]
      BY DEF Shut
    <2>. QED
      BY <2>1
  <1>5. \A d \in Sockets : others[d] = IF last /\ sock[d].role = "observer"
                                       THEN Shut(sock[d], "ended") ELSE sock[d]
    OBVIOUS
  <1> HIDE DEF others
  <1>6. Gone(sock[c]) \in SockRec
    BY <1>2, OffIs DEF Gone
  <1>7. sock'[c] = Gone(sock[c]) /\ sock' \in [Sockets -> SockRec]
    BY <1>1, <1>3, <1>4, <1>6
  <1>8. \A d \in Sockets \ {c} : sock'[d] = others[d]
    BY <1>1, <1>3
  <1>. QED
    BY <1>1, <1>5, <1>7, <1>8

LEMMA SocketClosesDoes ==
    ASSUME Typed, NEW c \in Sockets, SocketCloses(c)
    PROVE  /\ Serving(c) /\ Asks(c).t \in {"fin", "lost"}
           /\ \/ /\ sock[c].role = "observer" /\ OnSock(c, Gone(sock[c]))
                 /\ UNCHANGED <<session, holders, pause>>
              \/ /\ sock[c].role = "editor" /\ OnSock(c, Off(sock[c], "leaving"))
                 /\ UNCHANGED <<session, holders>> /\ pause' = SocketGone(c)
              \/ /\ sock[c].role = "editor" /\ Leave(c, LastEditor(c)) /\ pause' = SocketGone(c)
  <1>1. Serving(c) /\ Asks(c).t \in {"fin", "lost"} /\ sock[c] \in SockRec
    BY DEF SocketCloses, Typed
  <1>2. Gone(sock[c]) \in SockRec /\ Off(sock[c], "leaving") \in SockRec
    BY <1>1, OffIs DEF Gone
  <1>3. CASE sock[c].role = "observer"
    <2>1. sock' = [sock EXCEPT ![c] = Gone(sock[c])] /\ UNCHANGED <<session, holders, pause>>
      BY <1>3 DEF SocketCloses
    <2>. QED
      BY <1>1, <1>2, <1>3, <2>1, OnSockIs
  <1>4. CASE sock[c].role # "observer"
    <2>1. sock[c].role = "editor"
      BY <1>1, <1>4, SockRecIs
    <2>2. CASE LastEditor(c) /\ session # 0 /\ dirty
      <3>1. sock' = [sock EXCEPT ![c] = Off(sock[c], "leaving")] /\ pause' = SocketGone(c)
            /\ UNCHANGED <<session, holders>>
        BY <1>4, <2>2 DEF SocketCloses
      <3>. QED
        BY <1>1, <1>2, <2>1, <3>1, OnSockIs
    <2>3. CASE ~(LastEditor(c) /\ session # 0 /\ dirty)
      BY <1>1, <1>4, <2>1, <2>3 DEF SocketCloses
    <2>. QED
      BY <2>2, <2>3
  <1>. QED
    BY <1>3, <1>4

LEMMA SocketGoneIs ==
    ASSUME Typed, NEW c
    PROVE  /\ SocketGone(c) \in PauseRec /\ SocketGone(c).on = pause.on
           /\ SocketGone(c).waiting = pause.waiting \ {c}
           /\ SocketGone(c).ready = pause.ready \ {c}
  BY DEF Typed, PauseRec, SocketGone

(* The pause begins and ends.                                              *)
LEMMA PauseStartDoes ==
    ASSUME Typed, PauseStart
    PROVE  /\ session # 0 /\ ~pause.on /\ nPauses < MaxPauses /\ nPauses' = nPauses + 1
           /\ pause' \in PauseRec /\ pause'.on /\ pause'.ready = {}
           /\ pause'.waiting = {c \in Sockets : LiveEditor(c)}
           /\ sock' \in [Sockets -> SockRec]
           /\ \A d \in Sockets : sock'[d] = Sent(sock[d], [t |-> "start"])
  <1>1. /\ session # 0 /\ ~pause.on /\ nPauses < MaxPauses /\ nPauses' = nPauses + 1
        /\ pause' = [on |-> TRUE, waiting |-> {c \in Sockets : LiveEditor(c)}, ready |-> {}]
        /\ sock' = [d \in Sockets |-> Sent(sock[d], [t |-> "start"])]
    BY DEF PauseStart
  <1>2. \A d \in Sockets : Sent(sock[d], [t |-> "start"]) \in SockRec
    BY SentIs, DownFramesAre DEF Typed
  <1>. QED
    BY <1>1, <1>2 DEF PauseRec

ThawOf == [t |-> "update", s |-> session, mirror |-> FALSE]
Ended(r) == Sent(r, [t |-> "end"])

LEMMA PauseEndDoes ==
    ASSUME Typed, PauseEnd
    PROVE  /\ pause.on /\ pause' = NoPause /\ ThawOf \in DownFrames
           /\ sock' \in [Sockets -> SockRec]
           /\ \A d \in Sockets :
                /\ Ended(sock[d]) \in SockRec
                /\ sock'[d] = IF Ended(sock[d]).recipient THEN Sent(Ended(sock[d]), ThawOf)
                              ELSE Ended(sock[d])
  <1> DEFINE s == [d \in Sockets |-> Ended(sock[d])]
  <1>1. pause.on /\ pause' = NoPause /\ sock' = ToRecipients(s, ThawOf, 0)
    BY DEF PauseEnd, ThawOf, Ended
  <1>2. ThawOf \in DownFrames
    BY DownFramesAre DEF ThawOf, Typed
  <1>3. \A d \in Sockets : s[d] = Ended(sock[d]) /\ Ended(sock[d]) \in SockRec
    BY SentIs, DownFramesAre DEF Typed, Ended
  <1> HIDE DEF s
  <1>4. ASSUME NEW d \in Sockets
        PROVE  sock'[d] = IF Ended(sock[d]).recipient THEN Sent(Ended(sock[d]), ThawOf)
                          ELSE Ended(sock[d])
    BY <1>1, <1>3, SocketsAre DEF ToRecipients
  <1>5. ASSUME NEW d \in Sockets PROVE sock'[d] \in SockRec
    <2>1. Sent(Ended(sock[d]), ThawOf) \in SockRec
      BY <1>2, <1>3, SentIs
    <2>. QED
      BY <1>3, <1>4, <2>1
  <1>6. sock' \in [Sockets -> SockRec]
    BY <1>1, <1>5 DEF ToRecipients
  <1>. QED
    BY <1>1, <1>2, <1>3, <1>4, <1>6

(* Every socket is closed.                                                 *)
LEMMA ShutAllDoes ==
    ASSUME Typed, NEW code \in Codes, sock' = ShutAll(code)
    PROVE  /\ sock' \in [Sockets -> SockRec]
           /\ \A d \in Sockets : sock'[d] = Shut(sock[d], code)
  <1>1. \A d \in Sockets : Shut(sock[d], code) \in SockRec
    BY ShutIs DEF Typed
  <1>. QED
    BY <1>1 DEF ShutAll

-----------------------------------------------------------------------------
(* Every state has its type.                                               *)

(* The kinds of steps.                                                     *)
PageStep(t) ==
  \/ OpenEditor(t) \/ StopEditing(t) \/ Unfocus(t) \/ Opened(t) \/ Type(t)
  \/ Frame(t) \/ Receive(t) \/ ToldClosed(t) \/ Reconnect(t)
  \/ RefreshFails(t) \/ HandoffDone(t) \/ Sleep(t) \/ Wake(t)
ServerStep(c) ==
  \/ AskObserver(c) \/ AskEditor(c) \/ SendBootstrap(c) \/ EditArrives(c) \/ ReadyArrives(c)
  \/ SocketCloses(c) \/ LastEditorLeaves(c)

LEMMA NextIs ==
    ASSUME Next
    PROVE  \/ \E t \in Tabs : PageStep(t)
           \/ \E c \in Sockets : ServerStep(c) \/ Drop(c) \/ TokenExpired(c)
           \/ PauseStart \/ PauseEnd \/ Lockdown
           \/ Invalidate("restore", "replaced") \/ Invalidate("delete", "deleted")
  BY Zenon DEF Next, PageStep, ServerStep

-----------------------------------------------------------------------------
(* Pages and sockets know each other.                                      *)
(*                                                                         *)
(* A page's socket is its own and is not closed, nothing is scheduled to   *)
(* reopen it, every socket that is not closed is its owner's, and a page   *)
(* that edits has an editor's provider.                                    *)
OwnerOK(r) ==
  /\ r.client \in {"free", "opening"} => r.server = "none"
  /\ r.client # "free" => r.owner \in Tabs
Owned ==
  \A t \in Tabs : tab[t].socket # 0 =>
     /\ sock[tab[t].socket].owner = t /\ sock[tab[t].socket].client \in Held
     /\ tab[t].prov.retry = "none"
Known == \A c \in Sockets : sock[c].client \in Held => tab[sock[c].owner].socket = c
EditorsOK == \A t \in Tabs : tab[t].kind = "editing" => tab[t].left \/ tab[t].prov.role = "editor"

Wired == (\A c \in Sockets : OwnerOK(sock[c])) /\ Owned /\ Known /\ EditorsOK

(* A step that leaves a socket to its owner, if it has one.                *)
KeptWire(r, r2) ==
  \/ r2.owner = r.owner /\ r2.client = r.client /\ (r.server = "none" => r2.server = "none")
  \/ r2 = Unused /\ r.client \notin Held
KeptTab(k, k2) ==
  /\ k2.socket = k.socket /\ k2.kind = k.kind /\ k2.left = k.left
  /\ k2.prov.retry = k.prov.retry /\ k2.prov.role = k.prov.role

LEMMA OwnedIs ==
    ASSUME Typed, Wired, NEW t \in Tabs, tab[t].socket # 0
    PROVE  /\ tab[t].socket \in Sockets /\ OwnSock(t) \in SockRec
           /\ OwnSock(t).owner = t /\ OwnSock(t).client \in Held
           /\ tab[t].prov.retry = "none"
           /\ \A u \in Tabs \ {t} : tab[u].socket # tab[t].socket
  <1>1. tab[t].socket \in Sockets
    BY PageIs DEF Typed
  <1>2. \A u \in Tabs \ {t} : tab[u].socket # tab[t].socket
    BY DEF Wired, Owned
  <1>. QED
    BY <1>1, <1>2 DEF Wired, Owned, OwnSock, Typed

LEMMA KeptWires ==
    ASSUME Typed, Wired,
           \A c \in Sockets : KeptWire(sock[c], sock'[c]),
           \A t \in Tabs : KeptTab(tab[t], tab'[t])
    PROVE  Wired'
  <1>0. Unused.client = "free" /\ Unused.server = "none" /\ "free" \notin Held
    BY UnusedIs DEF Held
  <1>1. \A c \in Sockets : OwnerOK(sock'[c])
    BY <1>0 DEF Wired, OwnerOK, KeptWire
  <1>2. Owned'
    <2> SUFFICES ASSUME NEW t \in Tabs, tab'[t].socket # 0
                 PROVE  /\ sock'[tab'[t].socket].owner = t /\ sock'[tab'[t].socket].client \in Held
                        /\ tab'[t].prov.retry = "none"
      BY DEF Owned
    <2>1. tab'[t].socket = tab[t].socket /\ tab'[t].prov.retry = tab[t].prov.retry
      BY DEF KeptTab
    <2>2. /\ tab[t].socket \in Sockets /\ OwnSock(t).owner = t /\ OwnSock(t).client \in Held
          /\ tab[t].prov.retry = "none"
      BY <2>1, OwnedIs
    <2>. QED
      BY <2>1, <2>2 DEF KeptWire, OwnSock
  <1>3. Known'
    <2> SUFFICES ASSUME NEW c \in Sockets, sock'[c].client \in Held
                 PROVE  tab'[sock'[c].owner].socket = c
      BY DEF Known
    <2>1. sock'[c].owner = sock[c].owner /\ sock[c].client \in Held
      BY <1>0 DEF KeptWire
    <2>2. sock[c].owner \in Tabs /\ tab[sock[c].owner].socket = c
      BY <1>0, <2>1 DEF Wired, OwnerOK, Known
    <2>. QED
      BY <2>1, <2>2 DEF KeptTab
  <1>4. EditorsOK'
    BY DEF Wired, EditorsOK, KeptTab
  <1>. QED
    BY <1>1, <1>2, <1>3, <1>4 DEF Wired

(* A step of a page that changes its own socket only.                      *)
KeptPage(k, k2) ==
  /\ k2.socket = k.socket /\ k2.prov.retry = k.prov.retry
  /\ k2.kind = "editing" => k2.left \/ k2.prov.role = "editor"

LEMMA InPlaceWires ==
    ASSUME Typed, Wired, NEW t \in Tabs, NEW k, OnPage(t, k), KeptPage(tab[t], k),
           \/ UNCHANGED sock
           \/ \E r \in SockRec : /\ tab[t].socket \in Sockets /\ OnSock(tab[t].socket, r)
                                 /\ r.owner = OwnSock(t).owner /\ r.client \in Held
                                 /\ r.client = "opening" => r.server = "none"
    PROVE  tab' \in [Tabs -> PageRec] /\ sock' \in [Sockets -> SockRec] /\ Wired'
  <1>0. /\ tab' \in [Tabs -> PageRec] /\ tab'[t] = k /\ \A u \in Tabs \ {t} : tab'[u] = tab[u]
    BY DEF OnPage
  <1>1. /\ sock' \in [Sockets -> SockRec]
        /\ \A d \in Sockets : \/ sock'[d] = sock[d]
                              \/ /\ d = tab[t].socket /\ sock'[d].client \in Held
                                 /\ sock'[d].owner = sock[d].owner
                                 /\ sock'[d].client = "opening" => sock'[d].server = "none"
    BY DEF OnSock, OwnSock, Typed
  <1>2. "free" \notin Held
    BY DEF Held
  <1>3. tab[t].socket # 0 => tab[t].socket \in Sockets /\ sock[tab[t].socket].owner = t
    BY OwnedIs DEF OwnSock
  <1>4. \A d \in Sockets : OwnerOK(sock'[d])
    BY <1>1, <1>2, <1>3, SocketsAre DEF Wired, OwnerOK
  <1>5. Owned'
    <2> SUFFICES ASSUME NEW u \in Tabs, tab'[u].socket # 0
                 PROVE  /\ sock'[tab'[u].socket].owner = u /\ sock'[tab'[u].socket].client \in Held
                        /\ tab'[u].prov.retry = "none"
      BY DEF Owned
    <2>1. tab'[u].socket = tab[u].socket /\ tab'[u].prov.retry = tab[u].prov.retry
      BY <1>0 DEF KeptPage
    <2>2. /\ tab[u].socket \in Sockets /\ OwnSock(u).owner = u /\ OwnSock(u).client \in Held
          /\ tab[u].prov.retry = "none"
      BY <2>1, OwnedIs
    <2>. QED
      BY <1>1, <2>1, <2>2 DEF OwnSock
  <1>6. Known'
    <2> SUFFICES ASSUME NEW c \in Sockets, sock'[c].client \in Held
                 PROVE  tab'[sock'[c].owner].socket = c
      BY DEF Known
    <2>1. CASE sock'[c] = sock[c]
      <3>1. tab[sock[c].owner].socket = c /\ sock[c].owner \in Tabs
        BY <1>2, <2>1 DEF Wired, Known, OwnerOK
      <3>. QED
        BY <1>0, <2>1, <3>1 DEF KeptPage
    <2>2. CASE c = tab[t].socket /\ sock'[c].owner = sock[c].owner
      BY <1>0, <1>3, <2>2, SocketsAre DEF KeptPage
    <2>. QED
      BY <1>1, <2>1, <2>2
  <1>7. EditorsOK'
    BY <1>0 DEF Wired, EditorsOK, KeptPage
  <1>. QED
    BY <1>0, <1>1, <1>4, <1>5, <1>6, <1>7 DEF Wired

(* A page that lets go of its socket, and may open another.                *)
Rewires(t) ==
  /\ tab' \in [Tabs -> PageRec] /\ sock' \in [Sockets -> SockRec]
  /\ \A u \in Tabs \ {t} : tab'[u] = tab[u]
  /\ LET c0 == tab[t].socket
         k == tab'[t] IN
     /\ k.kind = "editing" => k.left \/ k.prov.role = "editor"
                              \/ (tab[t].kind = "editing" /\ k.prov.role = tab[t].prov.role)
     /\ \A d \in Sockets :
          \/ sock'[d] = sock[d] /\ d # c0
          \/ sock'[d] = Closed(sock[c0]) /\ d = c0
          \/ sock'[d] = Dialed(Unused, t) /\ k.socket = d
     /\ k.socket # 0 => /\ k.socket \in Sockets /\ sock'[k.socket] = Dialed(Unused, t)
                        /\ k.prov.retry = "none"
                        /\ k.socket # c0 => sock[k.socket] = Unused
                        /\ k.socket = c0 => Closed(sock[c0]) = Unused
     /\ (SameDoc(tab[t], k) /\ (tab[t].broke => k.broke)) \/ FreshDoc(tab[t], k)
     /\ k.prov.role = "editor" =>
          \/ k.broke
          \/ k.socket # 0 /\ k.pipe # "live"
          \/ tab[t].socket = 0 /\ tab[t].prov.role = "editor" /\ ~tab[t].broke

LEMMA RedialRewires ==
    ASSUME Typed, NEW t \in Tabs, RedialStep(t) \/ LetsGoStep(t)
    PROVE  Rewires(t)
  <1> DEFINE c0 == tab[t].socket
             k == tab'[t]
             s == HungUp(t)
  <1>0. /\ s \in [Sockets -> SockRec]
        /\ \A d \in Sockets : d # c0 => s[d] = sock[d]
        /\ c0 # 0 => s[c0] = Closed(sock[c0])
    BY HungUpIs
  <1>1. /\ tab' \in [Tabs -> PageRec] /\ sock' \in [Sockets -> SockRec]
        /\ \A u \in Tabs \ {t} : tab'[u] = tab[u]
        /\ k.kind = "editing" => k.left \/ k.prov.role = "editor"
                                 \/ (tab[t].kind = "editing" /\ k.prov.role = tab[t].prov.role)
        /\ (SameDoc(tab[t], k) /\ (tab[t].broke => k.broke)) \/ FreshDoc(tab[t], k)
        /\ k.prov.role = "editor" =>
             \/ k.broke
             \/ k.socket # 0 /\ k.pipe # "live"
             \/ tab[t].socket = 0 /\ tab[t].prov.role = "editor" /\ ~tab[t].broke
        /\ \/ k.socket = 0 /\ sock' = s
           \/ \E c \in Sockets : /\ k.socket = c /\ s[c] = Unused /\ k.prov.retry = "none"
                                 /\ sock'[c] = Dialed(Unused, t)
                                 /\ \A d \in Sockets \ {c} : sock'[d] = s[d]
    <2>1. CASE LetsGoStep(t)
      <3>1. PICK k1 \in PageRec : LetsGo(tab[t], k1) /\ HangTo(t, k1)
        BY <2>1 DEF LetsGoStep
      <3>2. k = k1 /\ sock' = s /\ k.socket = 0 /\ tab' \in [Tabs -> PageRec]
            /\ \A u \in Tabs \ {t} : tab'[u] = tab[u]
        BY <3>1 DEF HangTo, OnPage
      <3>. QED
        BY <1>0, <3>1, <3>2 DEF LetsGo
    <2>2. CASE RedialStep(t)
      <3>1. PICK k1 \in PageRec, c \in Sockets :
                 Redials(tab[t], k1) /\ DialTo(t, [k1 EXCEPT !.socket = c], c)
        BY <2>2 DEF RedialStep
      <3>2. /\ k = [k1 EXCEPT !.socket = c] /\ k.socket = c /\ tab' \in [Tabs -> PageRec]
            /\ sock' \in [Sockets -> SockRec] /\ s[c] = Unused /\ sock'[c] = Dialed(Unused, t)
            /\ \A d \in Sockets \ {c} : sock'[d] = s[d]
            /\ \A u \in Tabs \ {t} : tab'[u] = tab[u]
        BY <3>1 DEF DialTo, OnPage
      <3>3. /\ k.prov = k1.prov /\ k.kind = k1.kind /\ k.left = k1.left /\ k.pipe = k1.pipe
            /\ k.broke = k1.broke
        BY <3>2 DEF PageRec
      <3>4. (SameDoc(tab[t], k) /\ (tab[t].broke => k.broke)) \/ FreshDoc(tab[t], k)
        <4>1. /\ k.gen = k1.gen /\ k.bound = k1.bound /\ k.own = k1.own /\ k.mirror = k1.mirror
              /\ k.paused = k1.paused /\ k.shown = k1.shown /\ k.broke = k1.broke
          BY <3>2 DEF PageRec
        <4> HIDE DEF k
        <4>. QED
          BY <3>1, <4>1 DEF Redials, SameDoc, FreshDoc
      <3>5. k.socket # 0
        BY <3>1, <3>2, SocketsAre
      <3>. QED
        BY <3>1, <3>2, <3>3, <3>4, <3>5 DEF Redials
    <2>. QED
      BY <2>1, <2>2
  <1>2. \A d \in Sockets : \/ sock'[d] = sock[d] /\ d # c0
                           \/ sock'[d] = Closed(sock[c0]) /\ d = c0
                           \/ sock'[d] = Dialed(Unused, t) /\ k.socket = d
    BY <1>0, <1>1, SocketsAre
  <1>3. k.socket # 0 => /\ k.socket \in Sockets /\ sock'[k.socket] = Dialed(Unused, t)
                        /\ k.prov.retry = "none"
                        /\ k.socket # c0 => sock[k.socket] = Unused
                        /\ k.socket = c0 => Closed(sock[c0]) = Unused
    BY <1>0, <1>1, SocketsAre
  <1> HIDE DEF s
  <1>. QED
    BY <1>1, <1>2, <1>3 DEF Rewires

LEMMA RewiresWires ==
    ASSUME Typed, Wired, NEW t \in Tabs, ~tab[t].left, Rewires(t)
    PROVE  Wired'
  <1> DEFINE c0 == tab[t].socket
             k == tab'[t]
  <1>1. /\ tab' \in [Tabs -> PageRec] /\ sock' \in [Sockets -> SockRec]
        /\ \A u \in Tabs \ {t} : tab'[u] = tab[u]
        /\ k.kind = "editing" => k.left \/ k.prov.role = "editor"
                                 \/ (tab[t].kind = "editing" /\ k.prov.role = tab[t].prov.role)
    BY DEF Rewires
  <1>2. ASSUME NEW d \in Sockets
        PROVE  \/ sock'[d] = sock[d] /\ d # c0
               \/ sock'[d] = Closed(sock[c0]) /\ d = c0
               \/ sock'[d] = Dialed(Unused, t) /\ k.socket = d
    BY DEF Rewires
  <1>3. k.socket # 0 => /\ k.socket \in Sockets /\ sock'[k.socket] = Dialed(Unused, t)
                        /\ k.prov.retry = "none"
                        /\ k.socket # c0 => sock[k.socket] = Unused
    BY DEF Rewires
  <1> HIDE DEF c0, k
  <1>4. c0 # 0 => /\ c0 \in Sockets /\ sock[c0].owner = t /\ sock[c0].client \in Held
                  /\ sock[c0] \in SockRec
    BY OwnedIs DEF OwnSock, c0
  <1>5. c0 # 0 => OwnerOK(Closed(sock[c0])) /\ Closed(sock[c0]).client \notin Held
    BY <1>4, ClosedIs, UnusedIs DEF Alike, Held, OwnerOK
  <1>6. /\ OwnerOK(Dialed(Unused, t)) /\ Dialed(Unused, t).owner = t
        /\ Dialed(Unused, t).client = "opening" /\ Unused.client \notin Held
    BY DialedIs, UnusedIs DEF OwnerOK, Held
  <1>7. \A d \in Sockets : OwnerOK(sock'[d])
    BY <1>2, <1>5, <1>6, SocketsAre DEF Wired
  <1>8. ASSUME NEW u \in Tabs, u # t, tab[u].socket # 0
        PROVE  /\ tab'[u] = tab[u] /\ tab[u].socket \in Sockets
               /\ sock'[tab[u].socket] = sock[tab[u].socket]
    <2>1. tab'[u] = tab[u] /\ tab[u].socket \in Sockets /\ tab[u].socket # c0
          /\ sock[tab[u].socket].client \in Held
      BY <1>1, <1>8, OwnedIs DEF c0, OwnSock
    <2>. QED
      BY <1>2, <1>3, <1>6, <2>1, SocketsAre
  <1>9. Owned'
    <2> SUFFICES ASSUME NEW u \in Tabs, tab'[u].socket # 0
                 PROVE  /\ sock'[tab'[u].socket].owner = u /\ sock'[tab'[u].socket].client \in Held
                        /\ tab'[u].prov.retry = "none"
      BY DEF Owned
    <2>1. CASE u = t
      BY <1>3, <1>6, <2>1 DEF k, Held
    <2>2. CASE u # t
      BY <1>1, <1>8, <2>2 DEF Wired, Owned
    <2>. QED
      BY <2>1, <2>2
  <1>10. Known'
    <2> SUFFICES ASSUME NEW d \in Sockets, sock'[d].client \in Held
                 PROVE  tab'[sock'[d].owner].socket = d
      BY DEF Known
    <2>1. CASE sock'[d] = sock[d] /\ d # c0
      <3>1. sock[d].owner \in Tabs /\ tab[sock[d].owner].socket = d
        BY <2>1 DEF Wired, Known, OwnerOK, Held
      <3>2. sock[d].owner # t
        BY <2>1, <3>1 DEF c0
      <3>. QED
        BY <1>1, <2>1, <3>1, <3>2
    <2>2. CASE sock'[d] = Closed(sock[c0]) /\ d = c0
      BY <1>5, <2>2, SocketsAre
    <2>3. CASE sock'[d] = Dialed(Unused, t) /\ k.socket = d
      BY <1>6, <2>3 DEF k
    <2>. QED
      BY <1>2, <2>1, <2>2, <2>3
  <1>11. EditorsOK'
    BY <1>1 DEF Wired, EditorsOK, k
  <1>. QED
    BY <1>7, <1>9, <1>10, <1>11 DEF Wired

(* No frame changes what a page is to its socket.                          *)
LEMMA AfterFrameKeeps ==
    ASSUME NEW k \in PageRec, NEW m \in DownFrames, m.t # "close"
    PROVE  KeptTab(k, AfterFrame(k, m))
  <1> DEFINE k2 == AfterFrame(k, m)
  <1>0. k.prov \in ProvRec
    BY PageIs
  <1>1. CASE m.t = "boot" /\ k2 = BootedPage(ReplicaFor(k, m), m)
    <2>1. /\ ReplicaFor(k, m) \in PageRec /\ ReplicaFor(k, m).kind = k.kind
          /\ ReplicaFor(k, m).prov = k.prov /\ ReplicaFor(k, m).socket = k.socket
          /\ ReplicaFor(k, m).left = k.left
      BY ReplicaForIs
    <2>2. /\ k2.kind = k.kind /\ k2.socket = k.socket /\ k2.left = k.left
          /\ k2.prov = [k.prov EXCEPT !.booted = TRUE]
      BY <1>1, <2>1, BootedPageIs
    <2>. QED
      BY <1>0, <2>2 DEF KeptTab, ProvRec
  <1>2. CASE m.t = "update" /\ k2 = Mirrored(k, m.mirror)
    <2>1. m.mirror \in BOOLEAN
      BY <1>2, DownFramesAre
    <2>. QED
      BY <1>2, <2>1, MirroredIs DEF KeptTab
  <1>3. CASE k2 = PauseStarted(k) /\ ~k.prov.pubPaused
    <2>1. /\ k2.kind = k.kind /\ k2.socket = k.socket /\ k2.left = k.left
          /\ k2.prov = [k.prov EXCEPT !.pubPaused = TRUE, !.readySent = FALSE,
                                      !.freezing = k.prov.freezing \cup {2}]
      BY <1>3, PauseStartedIs
    <2>. QED
      BY <1>0, <2>1 DEF KeptTab, ProvRec
  <1>4. CASE k2 = PauseEnded(k)
    <2>1. /\ k2.kind = k.kind /\ k2.socket = k.socket /\ k2.left = k.left
          /\ k2.prov = [k.prov EXCEPT !.pubPaused = FALSE, !.readySent = FALSE]
      BY <1>4, PauseEndedIs
    <2>. QED
      BY <1>0, <2>1 DEF KeptTab, ProvRec
  <1>5. CASE m.t = "ack" /\ k2 = AckedPage(k, m)
    <2>1. /\ k2.kind = k.kind /\ k2.socket = k.socket /\ k2.left = k.left
          /\ k2.prov = [k.prov EXCEPT !.acked = AckedNow(k, m)]
      BY <1>5, AckedPageIs
    <2>. QED
      BY <1>0, <2>1 DEF KeptTab, ProvRec
  <1>6. CASE k2 = k
    BY <1>6 DEF KeptTab
  <1>. QED
    BY <1>1, <1>2, <1>3, <1>4, <1>5, <1>6, AfterFrameIs

(* Every step of a page.                                                   *)
LEMMA PageWires ==
    ASSUME Typed, Wired, NEW t \in Tabs, PageStep(t)
    PROVE  tab' \in [Tabs -> PageRec] /\ sock' \in [Sockets -> SockRec] /\ Wired'
  <1>0. /\ tab[t].socket # 0 => /\ tab[t].prov.retry = "none" /\ OwnSock(t).client \in Held
                                /\ OwnSock(t) \in SockRec /\ tab[t].socket \in Sockets
        /\ tab[t].kind = "editing" => tab[t].left \/ tab[t].prov.role = "editor"
        /\ tab[t] \in PageRec
    BY OwnedIs DEF Wired, EditorsOK, Typed
  <1>1. ~tab[t].left
    BY DEF PageStep, OpenEditor, StopEditing, Unfocus, Opened, Type, Frame, Receive, ToldClosed,
           Reconnect, RefreshFails, HandoffDone, Sleep, Wake, Awake
  <1>2. CASE RedialStep(t) \/ LetsGoStep(t)
    BY <1>1, <1>2, RedialRewires, RewiresWires DEF Rewires
  <1>3. CASE OpenEditor(t) \/ StopEditing(t) \/ RefreshFails(t)
    BY <1>2, <1>3, OpenEditorDoes
  <1>4. CASE ToldClosed(t)
    <2>1. tab[t].socket # 0
      BY <1>4 DEF ToldClosed, Incoming
    <2>. QED
      BY <1>0, <1>1, <1>2, <1>4, <2>1, ToldClosedDoes
  <1>5. CASE Reconnect(t)
    BY <1>0, <1>2, <1>5, ReconnectDoes
  <1>6. CASE Wake(t)
    <2>1. CASE OnPage(t, Awoken(tab[t])) /\ UNCHANGED sock
      <3>1. KeptPage(tab[t], Awoken(tab[t]))
        BY <1>0, <1>1 DEF Awoken, KeptPage, PageRec
      <3>. QED
        BY <2>1, <3>1, InPlaceWires
    <2>. QED
      BY <1>0, <1>2, <1>6, <2>1, WakeDoes
  <1>7. CASE HandoffDone(t)
    <2>1. CASE OnPage(t, Handed(tab[t])) /\ UNCHANGED sock
      <3>1. KeptPage(tab[t], Handed(tab[t]))
        BY <1>0, <1>1 DEF Handed, KeptPage, PageRec
      <3>. QED
        BY <2>1, <3>1, InPlaceWires
    <2>. QED
      BY <1>2, <1>7, <2>1, HandoffDoneDoes
  <1>8. CASE Unfocus(t)
    <2>1. KeptPage(tab[t], Unfocused(tab[t]))
      BY <1>0, <1>1 DEF Unfocused, KeptPage, PageRec
    <2>. QED
      BY <1>8, <2>1, UnfocusDoes, InPlaceWires
  <1>9. CASE Opened(t)
    <2>1. KeptPage(tab[t], OpenedPage(tab[t]))
      BY <1>0, <1>1 DEF OpenedPage, KeptPage, PageRec, ProvRec
    <2>2. /\ Connected(OwnSock(t), tab[t].prov.role) \in SockRec
          /\ Connected(OwnSock(t), tab[t].prov.role).owner = OwnSock(t).owner
          /\ Connected(OwnSock(t), tab[t].prov.role).client = "open" /\ "open" \in Held
      BY <1>0, <1>9, OpenedDoes, ConnectedIs, PageIs, SocketsAre DEF Held
    <2>. QED
      BY <1>9, <2>1, <2>2, OpenedDoes, InPlaceWires
  <1>10. CASE Type(t)
    <2>1. KeptPage(tab[t], TypedPage(tab[t]))
      BY <1>0, <1>1 DEF TypedPage, KeptPage, PageRec, ProvRec
    <2>2. CASE Sends(t)
      <3>1. /\ Said(OwnSock(t), EditOf(t)) \in SockRec
            /\ Said(OwnSock(t), EditOf(t)).owner = OwnSock(t).owner
            /\ Said(OwnSock(t), EditOf(t)).client = "open" /\ "open" \in Held
        BY <1>0, <1>10, <2>2, TypeDoes, SaidIs DEF Alike, Sends, Held
      <3>. QED
        BY <1>10, <2>1, <2>2, <3>1, TypeDoes, InPlaceWires
    <2>. QED
      BY <1>10, <2>1, <2>2, TypeDoes, InPlaceWires
  <1>11. CASE Frame(t)
    <2>1. KeptPage(tab[t], FramedPage(tab[t]))
      BY <1>0, <1>1 DEF FramedPage, KeptPage, PageRec, ProvRec
    <2>2. CASE SaysReady(t)
      <3>1. [t |-> "ready"] \in UpFrames
        BY UpFramesAre
      <3>2. /\ Said(OwnSock(t), [t |-> "ready"]) \in SockRec
            /\ Said(OwnSock(t), [t |-> "ready"]).owner = OwnSock(t).owner
            /\ Said(OwnSock(t), [t |-> "ready"]).client = "open" /\ "open" \in Held
        BY <1>0, <2>2, <3>1, SaidIs DEF Alike, SaysReady, Held
      <3>. QED
        BY <1>11, <2>1, <2>2, <3>2, FrameDoes, InPlaceWires
    <2>. QED
      BY <1>11, <2>1, <2>2, FrameDoes, InPlaceWires
  <1>12. CASE Receive(t)
    <2>1. /\ tab[t].socket \in Sockets /\ OwnSock(t).down # <<>>
          /\ Arriving(t) \in DownFrames /\ Arriving(t).t # "close"
          /\ OnPage(t, AfterFrame(tab[t], Arriving(t)))
          /\ OnSock(tab[t].socket, Got(OwnSock(t)))
      BY <1>12, ReceiveDoes
    <2>2. /\ Got(OwnSock(t)) \in SockRec /\ Got(OwnSock(t)).owner = OwnSock(t).owner
          /\ Got(OwnSock(t)).client \in Held
          /\ Got(OwnSock(t)).client = "opening" => Got(OwnSock(t)).server = "none"
      BY <1>0, <2>1, GotIs, SocketsAre DEF Alike, Wired, OwnerOK, OwnSock
    <2>3. KeptTab(tab[t], AfterFrame(tab[t], Arriving(t)))
      BY <1>0, <2>1, AfterFrameKeeps
    <2>4. KeptPage(tab[t], AfterFrame(tab[t], Arriving(t)))
      BY <1>0, <2>3 DEF KeptTab, KeptPage
    <2>. QED
      BY <2>1, <2>2, <2>4, InPlaceWires
  <1>13. CASE Sleep(t)
    <2>1. KeptPage(tab[t], Slept(tab[t]))
      BY <1>0, <1>1 DEF Slept, KeptPage, PageRec
    <2>2. tab[t].socket \in Sockets => /\ Broken(OwnSock(t)) \in SockRec
                                       /\ Broken(OwnSock(t)).owner = OwnSock(t).owner
                                       /\ Broken(OwnSock(t)).client = "broken"
                                       /\ "broken" \in Held
      BY <1>0, BrokenIs, SocketsAre DEF Alike, Held
    <2>. QED
      BY <1>13, <2>1, <2>2, SleepDoes, InPlaceWires
  <1>. QED
    BY <1>3, <1>4, <1>5, <1>6, <1>7, <1>8, <1>9, <1>10, <1>11, <1>12, <1>13 DEF PageStep

(* The server leaves a socket to its owner.                                *)
LEMMA OnSockKept ==
    ASSUME Typed, NEW c \in Sockets, NEW r, OnSock(c, r), KeptWire(sock[c], r)
    PROVE  sock' \in [Sockets -> SockRec] /\ \A d \in Sockets : KeptWire(sock[d], sock'[d])
  BY DEF OnSock, KeptWire

LEMMA ServedKept ==
    ASSUME NEW r \in SockRec, r.server # "none"
    PROVE  /\ r.up # <<>> => KeptWire(r, Heard(r)) /\ KeptWire(r, Receipt(r))
           /\ r.up # <<>> => \A s \in Nat : /\ KeptWire(r, Join(Heard(r), s))
                                            /\ KeptWire(r, JoinEditor(Heard(r), s))
           /\ r.up # <<>> => KeptWire(r, Attach(Heard(r)))
           /\ r.up # <<>> => \A code \in Codes : KeptWire(r, Shut(Heard(r), code))
           /\ \A s \in Nat : KeptWire(r, Join(r, s))
           /\ \A state \in {"leaving", "gone"} : KeptWire(r, Off(r, state))
  <1>1. r.up # <<>> => Heard(r) \in SockRec /\ Heard(r).owner = r.owner /\ Heard(r).client = r.client
    BY HeardIs DEF Alike
  <1>2. r.up # <<>> => /\ Receipt(r).owner = r.owner /\ Receipt(r).client = r.client
                       /\ Attach(Heard(r)).owner = r.owner /\ Attach(Heard(r)).client = r.client
    BY <1>1, ReceiptIs, AttachIs
  <1>3. ASSUME NEW s \in Nat, r.up # <<>>
        PROVE  /\ Join(Heard(r), s).owner = r.owner /\ Join(Heard(r), s).client = r.client
               /\ JoinEditor(Heard(r), s).owner = r.owner
               /\ JoinEditor(Heard(r), s).client = r.client
    BY <1>1, <1>3, JoinIs, JoinEditorIs
  <1>4. ASSUME NEW code \in Codes, r.up # <<>>
        PROVE  Shut(Heard(r), code).owner = r.owner /\ Shut(Heard(r), code).client = r.client
    <2>1. PICK q \in SockRec : q = Heard(r) /\ q.owner = r.owner /\ q.client = r.client
      BY <1>1, <1>4
    <2>2. Shut(q, code).owner = q.owner /\ Shut(q, code).client = q.client
      BY ShutIs
    <2>. QED
      BY <2>1, <2>2
  <1>5. \A s \in Nat : Join(r, s).owner = r.owner /\ Join(r, s).client = r.client
    BY JoinIs
  <1>6. \A state \in {"leaving", "gone"} :
           \/ Off(r, state) = Unused /\ r.client = "closed"
           \/ Off(r, state).owner = r.owner /\ Off(r, state).client = r.client
    BY OffIs
  <1>. QED
    BY <1>1, <1>2, <1>3, <1>4, <1>5, <1>6 DEF KeptWire, Held

LEMMA SentKept ==
    ASSUME NEW r \in SockRec
    PROVE  /\ \A m \in DownFrames : KeptWire(r, Sent(r, m))
           /\ \A code \in Codes : KeptWire(r, Shut(r, code))
  <1>1. \A m \in DownFrames : /\ Sent(r, m).owner = r.owner /\ Sent(r, m).client = r.client
                              /\ Sent(r, m).server = r.server
    BY SentIs DEF Alike
  <1>2. \A code \in Codes : /\ Shut(r, code).owner = r.owner /\ Shut(r, code).client = r.client
                            /\ r.server = "none" => Shut(r, code) = r
    BY ShutIs
  <1>. QED
    BY <1>1, <1>2 DEF KeptWire

LEMMA BootKept ==
    ASSUME Typed, NEW r \in SockRec
    PROVE  KeptWire(r, Unbooted(r)) /\ KeptWire(r, Booting(r))
  BY BootingIs DEF KeptWire

LEMMA LeaveKept ==
    ASSUME Typed, NEW c \in Sockets, NEW last \in BOOLEAN, Leave(c, last),
           sock[c].server # "none", sock[c].role = "observer" => sock[c].server # "open"
    PROVE  /\ sock' \in [Sockets -> SockRec] /\ \A d \in Sockets : KeptWire(sock[d], sock'[d])
           /\ session' \in Nat /\ holders' \subseteq Sockets
  <1>1. /\ sock' \in [Sockets -> SockRec] /\ sock'[c] = Gone(sock[c])
        /\ \A d \in Sockets \ {c} :
             sock'[d] = IF last /\ sock[d].role = "observer" THEN Shut(sock[d], "ended") ELSE sock[d]
        /\ session' \in Nat /\ holders' \subseteq Sockets
    BY LeaveDoes DEF Typed
  <1>2. \A d \in Sockets : sock[d] \in SockRec
    BY DEF Typed
  <1>3. KeptWire(sock[c], sock'[c])
    BY <1>1, <1>2, ServedKept DEF Gone
  <1>4. ASSUME NEW d \in Sockets \ {c} PROVE KeptWire(sock[d], sock'[d])
    <2>1. KeptWire(sock[d], sock[d]) /\ KeptWire(sock[d], Shut(sock[d], "ended"))
      BY <1>2, SentKept DEF KeptWire, Codes
    <2>. QED
      BY <1>1, <2>1
  <1>. QED
    BY <1>1, <1>3, <1>4

(* Every step of the server on behalf of a socket.                         *)
LEMMA ServerWires ==
    ASSUME Typed, Wired, NEW c \in Sockets, ServerStep(c)
    PROVE  Typed' /\ Wired'
  <1>0. /\ sock \in [Sockets -> SockRec] /\ sock[c] \in SockRec /\ session \in Nat
        /\ holders \subseteq Sockets /\ pause \in PauseRec /\ dirty \in BOOLEAN
        /\ integrated \in [Tabs -> [gen : Nat, n : Nat]] /\ nSessions \in Nat
        /\ Serving(c) => sock[c].up # <<>> /\ sock[c].server # "none"
    BY DEF Typed, Serving
  <1>1. UNCHANGED <<tab, nClicks, nEdits, nPauses, nFaults>>
    BY DEF ServerStep, AskObserver, AskEditor, SendBootstrap, EditArrives, ReadyArrives,
           SocketCloses, LastEditorLeaves
  <1>2. Nothing \in [gen : Nat, n : Nat]
    BY DEF Nothing
  <1>. SUFFICES /\ sock' \in [Sockets -> SockRec] /\ \A d \in Sockets : KeptWire(sock[d], sock'[d])
                /\ session' \in Nat /\ holders' \subseteq Sockets /\ pause' \in PauseRec
                /\ dirty' \in BOOLEAN /\ integrated' \in [Tabs -> [gen : Nat, n : Nat]]
                /\ nSessions' \in Nat
    <2>1. \A t \in Tabs : KeptTab(tab[t], tab'[t])
      BY <1>1 DEF KeptTab
    <2>. QED
      BY <1>1, <2>1, KeptWires DEF Typed
  <1>3. CASE AskObserver(c)
    <2>1. UNCHANGED <<session, holders, pause, dirty, integrated, nSessions>>
      BY <1>3 DEF AskObserver, server
    <2>2. \E r : OnSock(c, r) /\ KeptWire(sock[c], r)
      BY <1>0, <1>3, AskObserverDoes, ServedKept
    <2>. QED
      BY <1>0, <2>1, <2>2, OnSockKept
  <1>4. CASE AskEditor(c)
    <2>1. UNCHANGED <<pause, dirty>>
      BY <1>4 DEF AskEditor
    <2>2. Serving(c) /\ JoinedBy \in Nat
      BY <1>4, AskEditorDoes
    <2>3. CASE /\ sock[c].attached /\ OnSock(c, Heard(sock[c]))
               /\ UNCHANGED <<session, holders, nSessions, integrated>>
      BY <1>0, <2>1, <2>2, <2>3, OnSockKept, ServedKept
    <2>4. CASE ~sock[c].attached
      <3>1. /\ session' = JoinedBy /\ holders' = holders \cup {c}
            /\ nSessions' = IF session = 0 THEN JoinedBy ELSE nSessions
            /\ integrated' = IF session' # session THEN [t \in Tabs |-> Nothing] ELSE integrated
            /\ sock' \in [Sockets -> SockRec]
            /\ sock'[c] = JoinEditor(Heard(sock[c]), JoinedBy)
            /\ \A d \in Sockets \ {c} :
                 \/ sock'[d] = Shut(sock[d], "superseded")
                 \/ /\ sock[d].server = "open" 
                    /\ sock'[d] = Join(sock[d], JoinedBy)
                 \/ sock'[d] = sock[d]
        BY <1>4, <2>4, AskEditorDoes
      <3>2. integrated' \in [Tabs -> [gen : Nat, n : Nat]]
        BY <1>0, <1>2, <3>1
      <3>3. KeptWire(sock[c], sock'[c])
        BY <1>0, <2>2, <3>1, ServedKept
      <3>4. ASSUME NEW d \in Sockets \ {c} PROVE KeptWire(sock[d], sock'[d])
        <4>1. sock[d] \in SockRec /\ KeptWire(sock[d], sock[d]) /\ "superseded" \in Codes
          BY <1>0 DEF KeptWire, Codes
        <4>. QED
          BY <2>2, <3>1, <4>1, SentKept, ServedKept
      <3>. QED
        BY <1>0, <2>1, <2>2, <3>1, <3>2, <3>3, <3>4
    <2>. QED
      BY <1>4, <2>3, <2>4, AskEditorDoes
  <1>5. CASE SendBootstrap(c)
    <2>1. UNCHANGED <<session, holders, pause, dirty, integrated, nSessions>>
      BY <1>5 DEF SendBootstrap, server
    <2>2. \E r : OnSock(c, r) /\ KeptWire(sock[c], r)
      BY <1>0, <1>5, SendBootstrapDoes, BootKept
    <2>. QED
      BY <1>0, <2>1, <2>2, OnSockKept
  <1>6. CASE EditArrives(c)
    <2>1. UNCHANGED <<session, holders, pause, nSessions>>
      BY <1>6 DEF EditArrives
    <2>2. dirty' \in BOOLEAN
      BY <1>0, <1>6 DEF EditArrives
    <2>3. Serving(c) /\ Asks(c).t = "edit" /\ Asks(c) \in UpFrames
      BY <1>6, EditArrivesDoes, HandledIs
    <2>4. Asks(c).tab \in Tabs /\ Asks(c).gen \in Nat /\ Asks(c).n \in Nat
      BY <2>3, UpFramesAre, EditFramesAre
    <2>5. integrated' \in [Tabs -> [gen : Nat, n : Nat]]
      <3>1. \/ integrated' = integrated
            \/ integrated' = [integrated EXCEPT ![Asks(c).tab] = [gen |-> Asks(c).gen, n |-> Asks(c).n]]
        BY <1>6, EditArrivesDoes
      <3>. QED
        BY <1>0, <2>4, <3>1
    <2>6. sock' \in [Sockets -> SockRec] /\ \A d \in Sockets : KeptWire(sock[d], sock'[d])
      <3>1. CASE OnSock(c, Heard(sock[c])) \/ OnSock(c, Shut(Heard(sock[c]), "stale"))
        <4>1. "stale" \in Codes
          BY DEF Codes
        <4>. QED
          BY <1>0, <2>3, <3>1, <4>1, OnSockKept, ServedKept
      <3>2. CASE /\ UpdateOf \in DownFrames
                 /\ sock' \in [Sockets -> SockRec]
                 /\ sock'[c] = Receipt(sock[c])
                 /\ \A d \in Sockets \ {c} :
                      sock'[d] = IF sock[d].recipient THEN Sent(sock[d], UpdateOf) ELSE sock[d]
        <4>1. KeptWire(sock[c], sock'[c])
          BY <1>0, <2>3, <3>2, ServedKept
        <4>2. ASSUME NEW d \in Sockets \ {c} PROVE KeptWire(sock[d], sock'[d])
          <5>1. sock[d] \in SockRec /\ KeptWire(sock[d], sock[d])
            BY <1>0 DEF KeptWire
          <5>. QED
            BY <3>2, <5>1, SentKept
        <4>. QED
          BY <3>2, <4>1, <4>2
      <3>. QED
        BY <1>6, <3>1, <3>2, EditArrivesDoes
    <2>. QED
      BY <1>0, <2>1, <2>2, <2>5, <2>6
  <1>7. CASE ReadyArrives(c)
    <2>1. UNCHANGED <<session, holders, dirty, integrated, nSessions>>
      BY <1>7 DEF ReadyArrives
    <2>2. Serving(c) /\ "stale" \in Codes
      BY <1>7, ReadyArrivesDoes DEF Codes
    <2>3. \E r : OnSock(c, r) /\ KeptWire(sock[c], r)
      BY <1>0, <1>7, <2>2, ReadyArrivesDoes, ServedKept
    <2>4. pause' \in PauseRec
      <3>1. \/ pause' = pause
            \/ pause' = [pause EXCEPT !.waiting = @ \ {c}, !.ready = @ \cup {c}]
        BY <1>7, ReadyArrivesDoes
      <3>2. CASE pause' = [pause EXCEPT !.waiting = @ \ {c}, !.ready = @ \cup {c}]
        BY <1>0, <3>2 DEF PauseRec
      <3>. QED
        BY <1>0, <3>1, <3>2
    <2>. QED
      BY <1>0, <2>1, <2>3, <2>4, OnSockKept
  <1>8. CASE SocketCloses(c)
    <2>1. UNCHANGED <<dirty, integrated, nSessions>>
      BY <1>8 DEF SocketCloses
    <2>2. Serving(c) /\ LastEditor(c) \in BOOLEAN
      BY <1>8 DEF SocketCloses, LastEditor
    <2>3. pause' \in PauseRec
      BY <1>0, <1>8, SocketClosesDoes, SocketGoneIs
    <2>4. CASE OnSock(c, Gone(sock[c])) \/ OnSock(c, Off(sock[c], "leaving"))
      <3>1. UNCHANGED <<session, holders>> =>
              session' \in Nat /\ holders' \subseteq Sockets
        BY <1>0
      <3>2. sock' \in [Sockets -> SockRec] /\ \A d \in Sockets : KeptWire(sock[d], sock'[d])
        BY <1>0, <2>2, <2>4, OnSockKept, ServedKept DEF Gone
      <3>3. session' \in Nat /\ holders' \subseteq Sockets
        BY <1>0, <1>8, LeaveKept, SocketClosesDoes, <2>2, <3>1
      <3>. QED
        BY <1>0, <2>1, <2>3, <3>2, <3>3
    <2>5. CASE sock[c].role = "editor" /\ Leave(c, LastEditor(c))
      BY <1>0, <2>1, <2>2, <2>3, <2>5, LeaveKept
    <2>. QED
      BY <1>8, <2>4, <2>5, SocketClosesDoes
  <1>9. CASE LastEditorLeaves(c)
    <2>1. UNCHANGED <<pause, integrated, nSessions>> /\ dirty' = FALSE
          /\ sock[c].server = "leaving" /\ Leave(c, TRUE)
      BY <1>9 DEF LastEditorLeaves
    <2>. QED
      BY <1>0, <2>1, LeaveKept
  <1>. QED
    BY <1>3, <1>4, <1>5, <1>6, <1>7, <1>8, <1>9 DEF ServerStep

(* ... of everybody, and of the network and the clock.                     *)
LEMMA CommonWires ==
    ASSUME Typed, Wired,
           \/ PauseStart \/ PauseEnd \/ Lockdown
           \/ Invalidate("restore", "replaced") \/ Invalidate("delete", "deleted")
    PROVE  Typed' /\ Wired'
  <1>0. /\ sock \in [Sockets -> SockRec] /\ session \in Nat /\ holders \subseteq Sockets
        /\ pause \in PauseRec /\ dirty \in BOOLEAN /\ nPauses \in Nat /\ nFaults \in Nat
        /\ integrated \in [Tabs -> [gen : Nat, n : Nat]] /\ nSessions \in Nat
    BY DEF Typed
  <1>1. UNCHANGED <<tab, integrated, nSessions, nClicks, nEdits>>
    BY DEF PauseStart, PauseEnd, Lockdown, Invalidate, server
  <1>. SUFFICES /\ sock' \in [Sockets -> SockRec] /\ \A d \in Sockets : KeptWire(sock[d], sock'[d])
                /\ session' \in Nat /\ holders' \subseteq Sockets /\ pause' \in PauseRec
                /\ dirty' \in BOOLEAN /\ nPauses' \in Nat /\ nFaults' \in Nat
    <2>1. \A t \in Tabs : KeptTab(tab[t], tab'[t])
      BY <1>1 DEF KeptTab
    <2>. QED
      BY <1>1, <2>1, KeptWires DEF Typed
  <1>2. CASE PauseStart
    <2>1. UNCHANGED <<session, holders, dirty, nFaults>>
      BY <1>2 DEF PauseStart
    <2>2. [t |-> "start"] \in DownFrames
      BY DownFramesAre
    <2>. QED
      BY <1>0, <1>2, <2>1, <2>2, PauseStartDoes, SentKept
  <1>3. CASE PauseEnd
    <2>1. UNCHANGED <<session, holders, nPauses, nFaults>> /\ dirty' \in BOOLEAN
      BY <1>3 DEF PauseEnd
    <2>2. pause' \in PauseRec
      <3>1. NoPause \in PauseRec
        BY DEF NoPause, PauseRec
      <3>. QED
        BY <1>3, <3>1, PauseEndDoes
    <2>3. ASSUME NEW d \in Sockets PROVE KeptWire(sock[d], sock'[d])
      <3>1. [t |-> "end"] \in DownFrames /\ ThawOf \in DownFrames
        BY <1>3, DownFramesAre, PauseEndDoes
      <3>2. Ended(sock[d]) \in SockRec /\ KeptWire(sock[d], Ended(sock[d]))
        BY <1>0, <3>1, SentIs, SentKept DEF Ended
      <3>3. /\ Ended(sock[d]).owner = sock[d].owner /\ Ended(sock[d]).client = sock[d].client
            /\ Ended(sock[d]).server = sock[d].server
        BY <1>0, <3>1, SentIs DEF Ended, Alike
      <3>4. KeptWire(Ended(sock[d]), Sent(Ended(sock[d]), ThawOf))
            /\ Sent(Ended(sock[d]), ThawOf).server = Ended(sock[d]).server
            /\ Sent(Ended(sock[d]), ThawOf).owner = Ended(sock[d]).owner
            /\ Sent(Ended(sock[d]), ThawOf).client = Ended(sock[d]).client
        BY <3>1, <3>2, SentIs, SentKept DEF Alike
      <3>5. KeptWire(sock[d], Sent(Ended(sock[d]), ThawOf))
        BY <3>3, <3>4 DEF KeptWire
      <3>. QED
        BY <1>3, <3>2, <3>5, PauseEndDoes
    <2>. QED
      BY <1>0, <1>3, <2>1, <2>2, <2>3, PauseEndDoes
  <1>4. CASE Lockdown
    <2>1. UNCHANGED <<session, holders, pause, dirty, nPauses>> /\ nFaults' = nFaults + 1
          /\ sock' = ShutAll("lockdown") /\ "lockdown" \in Codes
      BY <1>4 DEF Lockdown, server, Fault, Codes
    <2>. QED
      BY <1>0, <2>1, ShutAllDoes, SentKept
  <1>5. CASE \E f, code \in {"restore", "replaced", "delete", "deleted"} :
                code \in {"replaced", "deleted"} /\ Invalidate(f, code)
    <2>1. PICK f, code \in {"restore", "replaced", "delete", "deleted"} :
                code \in {"replaced", "deleted"} /\ Invalidate(f, code)
      BY <1>5
    <2>2. /\ UNCHANGED <<pause, nPauses>> /\ nFaults' = nFaults + 1
          /\ session' = 0 /\ holders' = {} /\ dirty' = FALSE
          /\ sock' = ShutAll(code) /\ code \in Codes
      BY <2>1 DEF Invalidate, Fault, Codes
    <2>3. sock' \in [Sockets -> SockRec] /\ \A d \in Sockets : sock'[d] = Shut(sock[d], code)
      BY <2>2, ShutAllDoes
    <2>4. \A d \in Sockets : KeptWire(sock[d], sock'[d])
      BY <1>0, <2>2, <2>3, SentKept
    <2>5. session' \in Nat /\ holders' \subseteq Sockets
      BY <2>2
    <2>6. dirty' \in BOOLEAN /\ pause' \in PauseRec
      BY <1>0, <2>2
    <2>7. nPauses' \in Nat /\ nFaults' \in Nat
      BY <1>0, <2>2
    <2>. QED
      BY <2>3, <2>4, <2>5, <2>6, <2>7
  <1>. QED
    BY <1>2, <1>3, <1>4, <1>5

LEMMA FaultWires ==
    ASSUME Typed, Wired, NEW c \in Sockets, Drop(c) \/ TokenExpired(c)
    PROVE  tab' \in [Tabs -> PageRec] /\ sock' \in [Sockets -> SockRec] /\ Wired'
  <1> DEFINE t == sock[c].owner
  <1>1. t \in Tabs /\ sock[c] \in SockRec /\ tab[t] \in PageRec
    BY DEF Drop, TokenExpired, Live, Serving, Wired, OwnerOK, Typed
  <1>2. KeptTab(tab[t], Faulted(tab[t]))
    BY <1>1 DEF KeptTab, Faulted, PageRec
  <1>3. CASE Drop(c)
    <2>1. tab[t].socket = c /\ sock[c].client \in Held
      BY <1>3 DEF Drop, Wired, Known, Held
    <2>2. OnPage(t, Faulted(tab[t])) /\ OnSock(c, Broken(sock[c]))
      BY <1>1, <1>3, DropDoes
    <2>3. /\ Broken(sock[c]) \in SockRec /\ Broken(sock[c]).owner = sock[c].owner
          /\ Broken(sock[c]).client = "broken" /\ "broken" \in Held
      BY <1>1, BrokenIs DEF Alike, Held
    <2>4. KeptPage(tab[t], Faulted(tab[t]))
      BY <1>1, <1>2 DEF KeptTab, KeptPage, Wired, EditorsOK
    <2>. QED
      BY <1>1, <2>1, <2>2, <2>3, <2>4, InPlaceWires DEF OwnSock
  <1>4. CASE TokenExpired(c)
    <2>1. /\ Serving(c) /\ OnSock(c, Shut(Heard(sock[c]), "expired"))
          /\ OnPage(t, Faulted(tab[t]))
      BY <1>1, <1>4, TokenExpiredDoes
    <2>2. "expired" \in Codes /\ sock[c].up # <<>> /\ sock[c].server # "none"
      BY <2>1 DEF Codes, Serving
    <2>3. KeptWire(sock[c], Shut(Heard(sock[c]), "expired"))
      BY <1>1, <2>2, ServedKept
    <2>4. sock' \in [Sockets -> SockRec] /\ \A d \in Sockets : KeptWire(sock[d], sock'[d])
      BY <2>1, <2>3, OnSockKept
    <2>5. tab' \in [Tabs -> PageRec] /\ \A u \in Tabs : KeptTab(tab[u], tab'[u])
      <3>1. \A u \in Tabs : KeptTab(tab[u], tab[u])
        BY DEF KeptTab
      <3>. QED
        BY <1>2, <2>1, <3>1 DEF OnPage
    <2>. QED
      BY <2>4, <2>5, KeptWires
  <1>. QED
    BY <1>3, <1>4

(* The type, and the wiring, are kept.                                     *)
LEMMA WiredStep ==
    ASSUME Typed, Wired, [Next]_vars
    PROVE  Typed' /\ Wired'
  <1>0. /\ session \in Nat /\ holders \subseteq Sockets /\ pause \in PauseRec /\ dirty \in BOOLEAN
        /\ integrated \in [Tabs -> [gen : Nat, n : Nat]]
        /\ {nSessions, nClicks, nEdits, nPauses, nFaults} \subseteq Nat
    BY DEF Typed
  <1>1. ASSUME NEW t \in Tabs, PageStep(t) PROVE Typed' /\ Wired'
    <2>1. UNCHANGED <<session, holders, pause, dirty, integrated, nSessions, nPauses>>
      BY <1>1 DEF PageStep, OpenEditor, StopEditing, Unfocus, Opened, Type, Frame, Receive,
                  ToldClosed, Reconnect, RefreshFails, HandoffDone, Sleep, Wake, server
    <2>2. /\ nClicks' \in {nClicks, nClicks + 1} /\ nEdits' \in {nEdits, nEdits + 1}
          /\ nFaults' \in {nFaults, nFaults + 1}
      BY <1>1 DEF PageStep, OpenEditor, StopEditing, Unfocus, Opened, Type, Frame, Receive,
                  ToldClosed, Reconnect, RefreshFails, HandoffDone, Sleep, Wake, Fault
    <2>. QED
      BY <1>0, <1>1, <2>1, <2>2, PageWires DEF Typed
  <1>2. ASSUME NEW c \in Sockets, Drop(c) \/ TokenExpired(c) PROVE Typed' /\ Wired'
    <2>1. UNCHANGED <<session, holders, pause, dirty, integrated, nSessions, nClicks, nEdits, nPauses>>
          /\ nFaults' \in Nat
      BY <1>0, <1>2 DEF Drop, TokenExpired, server, Fault
    <2>. QED
      BY <1>0, <1>2, <2>1, FaultWires DEF Typed
  <1>3. CASE UNCHANGED vars
    BY <1>3 DEF vars, Typed, Wired, OwnerOK, Owned, Known, EditorsOK
  <1>. QED
    BY <1>1, <1>2, <1>3, ServerWires, CommonWires, NextIs

(* How it begins: every page has a socket of its own, which waits.         *)
LEMMA InitIs ==
    ASSUME Init
    PROVE  /\ Typed /\ Wired
           /\ session = 0 /\ holders = {} /\ pause = NoPause
           /\ integrated = [t \in Tabs |-> Nothing]
           /\ nSessions = 0 /\ nPauses = 0
           /\ \A t \in Tabs : \E w \in Nat, c \in Sockets :
                 tab[t] = Page(c, w) /\ sock[c] = WaitingSocket(t)
           /\ \A c \in Sockets : \/ sock[c] = Unused
                                 \/ \E t \in Tabs : sock[c] = WaitingSocket(t) /\ tab[t].socket = c
  <1>1. PICK place \in Injection(Tabs, 1 .. Cardinality(Tabs)), oneWriter \in BOOLEAN :
          /\ tab = [t \in Tabs |-> Page(place[t], IF oneWriter THEN 1 ELSE place[t])]
          /\ sock = [c \in Sockets |->
                       IF \E t \in Tabs : place[t] = c
                       THEN WaitingSocket(CHOOSE t \in Tabs : place[t] = c)
                       ELSE Unused]
    BY DEF Init
  <1>2. /\ session = 0 /\ holders = {} /\ pause = NoPause /\ dirty = FALSE
        /\ integrated = [t \in Tabs |-> Nothing]
        /\ nSessions = 0 /\ nClicks = 0 /\ nEdits = 0 /\ nPauses = 0 /\ nFaults = 0
    BY DEF Init
  <1>3. Cardinality(Tabs) \in Nat /\ Cardinality(Tabs) <= MaxSockets /\ MaxSockets \in Nat
    BY TabAssumption, FS_CardinalityType
  <1>4. /\ \A t \in Tabs : place[t] \in Sockets
        /\ \A t, u \in Tabs : place[t] = place[u] => t = u
    <2>1. place \in [Tabs -> 1 .. Cardinality(Tabs)] /\ IsInjective(place)
      BY DEF Injection
    <2>2. \A t, u \in Tabs : place[t] = place[u] => t = u
      BY <2>1 DEF IsInjective
    <2>. QED
      BY <1>3, <2>1, <2>2 DEF Sockets
  <1>5. ASSUME NEW c \in Sockets, NEW w \in Nat
        PROVE  /\ Page(c, w) \in PageRec /\ Page(c, w).socket = c
               /\ Page(c, w).prov = Provider("observer") /\ Page(c, w).kind = "viewing"
    <2>1. Provider("observer") \in ProvRec
      BY ProviderIs
    <2> HIDE DEF Provider
    <2>. QED
      BY <2>1 DEF Page, PageRec, Kinds, Phases
  <1>6. ASSUME NEW t \in Tabs
        PROVE  /\ WaitingSocket(t) \in SockRec /\ WaitingSocket(t).owner = t
               /\ WaitingSocket(t).client = "open"
    BY EmptyIs DEF WaitingSocket, Unused, SockRec, Held
  <1>7. \A t \in Tabs : \E w \in Nat :
           tab[t] = Page(place[t], w) /\ place[t] \in Sockets /\ tab[t].socket = place[t]
    <2> SUFFICES ASSUME NEW t \in Tabs
                 PROVE  \E w \in Nat : tab[t] = Page(place[t], w) /\ place[t] \in Sockets
                                       /\ tab[t].socket = place[t]
      OBVIOUS
    <2>1. (IF oneWriter THEN 1 ELSE place[t]) \in Nat
      BY <1>4, SocketsAre
    <2> HIDE DEF Page
    <2>. QED
      BY <1>1, <1>4, <1>5, <2>1
  <1>8. \A t \in Tabs : sock[place[t]] = WaitingSocket(t)
    BY <1>1, <1>4
  <1>9. \A c \in Sockets : \/ sock[c] = Unused
                           \/ \E t \in Tabs : sock[c] = WaitingSocket(t) /\ tab[t].socket = c
    <2> SUFFICES ASSUME NEW c \in Sockets, sock[c] # Unused
                 PROVE  \E t \in Tabs : sock[c] = WaitingSocket(t) /\ tab[t].socket = c
      OBVIOUS
    <2>1. PICK t \in Tabs : place[t] = c
      BY <1>1
    <2>2. tab[t].socket = c
      BY <1>7, <2>1
    <2>. QED
      BY <1>8, <2>1, <2>2
  <1>10. Typed
    <2>1. NoPause \in PauseRec /\ Nothing \in [gen : Nat, n : Nat]
      BY DEF NoPause, PauseRec, Nothing
    <2>2. tab \in [Tabs -> PageRec]
      BY <1>1, <1>5, <1>7
    <2>3. sock \in [Sockets -> SockRec]
      BY <1>1, <1>6, <1>9, UnusedIs
    <2>4. integrated \in [Tabs -> [gen : Nat, n : Nat]]
      BY <1>2, <2>1
    <2>5. session \in Nat /\ holders \subseteq Sockets
      BY <1>2
    <2>6. pause \in PauseRec /\ dirty \in BOOLEAN
      BY <1>2, <2>1
    <2>7. {nSessions, nClicks, nEdits, nPauses, nFaults} \subseteq Nat
      BY <1>2
    <2>. QED
      BY <2>2, <2>3, <2>4, <2>5, <2>6, <2>7 DEF Typed
  <1>11. Wired
    <2>1. \A t \in Tabs : tab[t].prov.retry = "none" /\ tab[t].kind = "viewing"
      BY <1>5, <1>7, ProviderIs
    <2>. QED
      BY <1>6, <1>7, <1>8, <1>9, <2>1, UnusedIs, SocketsAre DEF Wired, OwnerOK, Owned, Known, EditorsOK, Held
  <1>. QED
    BY <1>2, <1>7, <1>8, <1>9, <1>10, <1>11

(* Every state has its type, and every socket a page has not closed is the *)
(* one its page knows.                                                     *)
THEOREM WiredAlways == Spec => [](Typed /\ Wired)
  <1>1. Init => Typed /\ Wired
    BY InitIs
  <1>2. Typed /\ Wired /\ [Next]_vars => (Typed /\ Wired)'
    BY WiredStep
  <1>. QED
    BY <1>1, <1>2, PTL DEF Spec

(* Reconnect timers, wakes, handoffs and clicks, in any order and however  *)
(* often: no socket stays open that its page does not know.                *)
THEOREM TabsHaveNoStraySocket == Spec => []NoStraySocket
  <1>1. Typed /\ Wired => NoStraySocket
    <2> SUFFICES ASSUME Typed, Wired, NEW c \in Sockets, sock[c].client \in Held
                 PROVE  \E t \in Tabs : tab[t].socket = c
      BY DEF NoStraySocket, Held
    <2>1. sock[c].owner \in Tabs /\ tab[sock[c].owner].socket = c
      BY DEF Wired, OwnerOK, Known, Held
    <2>. QED
      BY <2>1
  <1>. QED
    BY <1>1, WiredAlways, PTL

-----------------------------------------------------------------------------
(* Which session a socket and a page are in.                               *)
(*                                                                         *)
(* A socket by itself: what is on its channels belongs to the session it   *)
(* has joined, and there is nothing before it has joined one.              *)
SocketOK(r) ==
  /\ r.client = "opening" =>
       /\ r.server = "none" /\ r.role = "observer" /\ ~r.attached /\ ~r.joined /\ ~r.boot
       /\ ~r.recipient /\ r.received = 0 /\ r.up = <<>> /\ r.down = <<>>
  /\ r.client = "free" => r.server = "none"
  /\ r.client # "free" => r.owner \in Tabs
  /\ r.client = "broken" => r.down # <<>> /\ r.down[1].t = "close"
  /\ r.joined => r.attached
  /\ r.role = "editor" \/ r.boot \/ r.recipient => r.joined
  /\ \A i \in DOMAIN r.down : r.down[i].t \in {"boot", "update"} => r.joined /\ r.down[i].s = r.sess
  /\ \A i \in DOMAIN r.up : r.up[i].t = "edit" => r.joined /\ r.up[i].s = r.sess

(* A page and its socket: the replica is bound to the socket's session, or *)
(* will be by a bootstrap that comes before any update.                    *)
Told(k, r) == r.joined /\ k.bound = r.sess
BootComes(r) == \E j \in DOMAIN r.down : r.down[j].t = "boot"
Link(k, r) ==
  r.client = "open" =>
    /\ \A i \in DOMAIN r.down : r.down[i].t = "update" =>
         Told(k, r) \/ \E j \in DOMAIN r.down : j < i /\ r.down[j].t = "boot"
    /\ r.server = "open" /\ r.recipient => Told(k, r) \/ BootComes(r)
    /\ k.prov.booted => Told(k, r)

(* What keeps them so.                                                     *)
LEMMA UnusedOK == SocketOK(Unused)
  BY UnusedIs, EmptyIs DEF SocketOK

LEMMA ClosedOK ==
    ASSUME NEW r \in SockRec, SocketOK(r), r.client \in Held
    PROVE  SocketOK(Closed(r))
  <1>1. CASE Closed(r) = Unused
    BY <1>1, UnusedOK
  <1>2. CASE Closed(r) # Unused
    <2>1. /\ Alike(r, Closed(r)) /\ Closed(r).client = "closed" /\ Closed(r).down = <<>>
          /\ r.client = "open" => Closed(r).up = Append(r.up, [t |-> "fin"])
          /\ r.client # "open" => Closed(r).up = r.up
      BY <1>2, ClosedIs
    <2>2. \A i \in DOMAIN Closed(r).up : Closed(r).up[i].t = "edit" =>
             r.joined /\ Closed(r).up[i].s = r.sess
      <3>1. CASE r.client = "open"
        <4>1. [t |-> "fin"] \in UpFrames /\ r.up \in Seq(UpFrames)
          BY UpFramesAre, SockRecIs
        <4>2. PICK q : q = Append(r.up, [t |-> "fin"])
          OBVIOUS
        <4>3. /\ \A i \in DOMAIN q : i \in DOMAIN r.up \/ i = Len(r.up) + 1
              /\ \A i \in DOMAIN r.up : q[i] = r.up[i]
              /\ q[Len(r.up) + 1] = [t |-> "fin"]
          BY <4>1, <4>2, AppendIs
        <4>4. \A i \in DOMAIN q : q[i].t = "edit" => i \in DOMAIN r.up
          BY <4>3
        <4>5. \A i \in DOMAIN r.up : r.up[i].t = "edit" => r.joined /\ r.up[i].s = r.sess
          BY DEF SocketOK
        <4>6. \A i \in DOMAIN q : q[i].t = "edit" => r.joined /\ q[i].s = r.sess
          BY <4>3, <4>4, <4>5
        <4>. QED
          BY <2>1, <3>1, <4>2, <4>6
      <3>2. CASE r.client # "open"
        BY <2>1, <3>2 DEF SocketOK
      <3>. QED
        BY <3>1, <3>2
    <2>. QED
      BY <2>1, <2>2, EmptyIs DEF SocketOK, Alike, Held
  <1>. QED
    BY <1>1, <1>2

LEMMA BrokenOK ==
    ASSUME NEW r \in SockRec, SocketOK(r), r.client \in Held
    PROVE  SocketOK(Broken(r))
  <1>1. /\ Alike(r, Broken(r)) /\ Broken(r).client = "broken"
        /\ Broken(r).down = <<[t |-> "close", code |-> "dropped"]>>
        /\ Broken(r).up = IF r.server \in {"open", "closing"} THEN <<[t |-> "lost"]>> ELSE <<>>
    BY BrokenIs
  <1>2. /\ \A i \in DOMAIN Broken(r).up : Broken(r).up[i].t # "edit"
        /\ \A i \in DOMAIN Broken(r).down : Broken(r).down[i].t \notin {"boot", "update"}
        /\ Broken(r).down # <<>> /\ Broken(r).down[1].t = "close"
    <2>1. [t |-> "close", code |-> "dropped"].t = "close" /\ [t |-> "lost"].t = "lost"
      OBVIOUS
    <2>. QED
      BY <1>1, <2>1, EmptyIs, SingleIs
  <1>. QED
    BY <1>1, <1>2 DEF SocketOK, Alike, Held

LEMMA SentOK ==
    ASSUME NEW r \in SockRec, NEW m \in DownFrames, SocketOK(r),
           r.server = "open" /\ m.t \in {"boot", "update"} => r.joined /\ m.s = r.sess,
           r.server = "open" /\ m.t = "update" => r.recipient
    PROVE  /\ SocketOK(Sent(r, m))
           /\ \A k : Link(k, r) => Link(k, Sent(r, m))
           /\ m.t = "boot" /\ r.server = "open" => BootComes(Sent(r, m))
  <1>1. CASE r.server # "open"
    BY <1>1, SentIs
  <1>2. CASE r.server = "open"
    <2>1. /\ Alike(r, Sent(r, m)) /\ Sent(r, m).client = r.client /\ Sent(r, m).up = r.up
          /\ Sent(r, m).down = Append(r.down, m)
      BY <1>2, SentIs
    <2>2. r.down \in Seq(DownFrames)
      BY SockRecIs
    <2>3. SocketOK(Sent(r, m))
      BY <1>2, <2>1, <2>2, AppendIs DEF SocketOK, Alike
    <2>4. \A j \in DOMAIN r.down : j \in DOMAIN Append(r.down, m) /\ Append(r.down, m)[j] = r.down[j]
                                   /\ j < Len(r.down) + 1
      BY <2>2, AppendIs
    <2>5. \A i \in DOMAIN Append(r.down, m) :
             \/ i \in DOMAIN r.down /\ Append(r.down, m)[i] = r.down[i]
             \/ i = Len(r.down) + 1 /\ Append(r.down, m)[i] = m
      BY <2>2, AppendIs
    <2>6. ASSUME NEW k, Link(k, r) PROVE Link(k, Sent(r, m))
      <3>1. BootComes(r) => BootComes(Sent(r, m))
        BY <2>1, <2>4 DEF BootComes
      <3>2. Told(k, Sent(r, m)) <=> Told(k, r)
        BY <2>1 DEF Told, Alike
      <3>3. ASSUME r.client = "open", NEW i \in DOMAIN Sent(r, m).down, Sent(r, m).down[i].t = "update"
            PROVE  Told(k, r) \/ \E j \in DOMAIN Sent(r, m).down : j < i /\ Sent(r, m).down[j].t = "boot"
        <4>1. CASE i \in DOMAIN r.down /\ Append(r.down, m)[i] = r.down[i]
          BY <2>1, <2>4, <2>6, <3>3, <4>1 DEF Link
        <4>2. CASE i = Len(r.down) + 1 /\ Append(r.down, m)[i] = m
          <5>1. Told(k, r) \/ BootComes(r)
            BY <1>2, <2>1, <2>6, <3>3, <4>2 DEF Link
          <5>. QED
            BY <2>1, <2>4, <4>2, <5>1 DEF BootComes
        <4>. QED
          BY <2>1, <2>5, <3>3, <4>1, <4>2
      <3>. QED
        BY <2>1, <2>6, <3>1, <3>2, <3>3 DEF Link, Alike
    <2>7. m.t = "boot" => BootComes(Sent(r, m))
      BY <2>1, <2>2, AppendIs DEF BootComes
    <2>. QED
      BY <2>3, <2>6, <2>7
  <1>. QED
    BY <1>1, <1>2

(* Frames taken from the client's channel and flags that are dropped.      *)
LEMMA LikeOK ==
    ASSUME NEW r \in SockRec, NEW r2 \in SockRec, SocketOK(r), r.server # "none",
           r2.client = r.client, r2.owner = r.owner, r2.role = r.role,
           r2.attached = r.attached, r2.joined = r.joined, r2.sess = r.sess,
           r2.boot => r.boot, r2.recipient => r.recipient,
           r2.server = "open" => r.server = "open", r2.down = r.down,
           \A i \in DOMAIN r2.up : r2.up[i].t = "edit" => \E j \in DOMAIN r.up : r2.up[i] = r.up[j]
    PROVE  SocketOK(r2) /\ \A k : Link(k, r) => Link(k, r2)
  <1>1. r.client # "opening" /\ r.client # "free"
    BY DEF SocketOK
  <1>2. SocketOK(r2)
    BY <1>1 DEF SocketOK
  <1>3. ASSUME NEW k, Link(k, r) PROVE Link(k, r2)
    BY <1>3 DEF Link, Told, BootComes
  <1>. QED
    BY <1>2, <1>3

LEMMA HeardOK ==
    ASSUME NEW r \in SockRec, SocketOK(r), r.server # "none", r.up # <<>>
    PROVE  SocketOK(Heard(r)) /\ \A k : Link(k, r) => Link(k, Heard(r))
  <1>1. /\ Heard(r) \in SockRec /\ Alike(r, Heard(r)) /\ Heard(r).client = r.client
        /\ Heard(r).up = Tail(r.up) /\ Heard(r).down = r.down
    BY HeardIs
  <1>2. \A i \in DOMAIN Heard(r).up : \E j \in DOMAIN r.up : Heard(r).up[i] = r.up[j]
    <2>1. r.up \in Seq(UpFrames)
      BY SockRecIs
    <2>2. \A i \in DOMAIN Tail(r.up) : i + 1 \in DOMAIN r.up /\ Tail(r.up)[i] = r.up[i + 1]
      BY <2>1, TailIs
    <2>. QED
      BY <1>1, <2>2
  <1>. QED
    BY <1>1, <1>2, LikeOK DEF Alike

LEMMA ShutOK ==
    ASSUME NEW r \in SockRec, NEW code \in Codes, SocketOK(r)
    PROVE  SocketOK(Shut(r, code)) /\ \A k : Link(k, r) => Link(k, Shut(r, code))
  <1>1. CASE r.server # "open"
    BY <1>1, ShutIs
  <1>2. CASE r.server = "open"
    <2> DEFINE m == [t |-> "close", code |-> code]
               q == Sent(r, m)
    <2>1. m \in DownFrames /\ m.t = "close"
      BY DownFramesAre
    <2> HIDE DEF m
    <2>2. /\ q \in SockRec /\ Alike(r, q) /\ q.client = r.client /\ q.up = r.up
          /\ q.down = Append(r.down, m)
      BY <1>2, <2>1, SentIs
    <2>3. SocketOK(q) /\ \A k : Link(k, r) => Link(k, q)
      BY <2>1, SentOK
    <2>4. /\ Shut(r, code) \in SockRec
          /\ Shut(r, code).owner = r.owner /\ Shut(r, code).client = r.client
          /\ Shut(r, code).role = r.role /\ Shut(r, code).attached = r.attached
          /\ Shut(r, code).joined = r.joined /\ Shut(r, code).sess = r.sess
          /\ Shut(r, code).boot = r.boot /\ Shut(r, code).recipient = r.recipient
          /\ Shut(r, code).up = r.up /\ Shut(r, code).down = Append(r.down, m)
      BY <1>2, ShutIs DEF m
    <2> HIDE DEF q
    <2>. QED
      BY <1>2, <2>2, <2>3, <2>4, LikeOK DEF Alike
  <1>. QED
    BY <1>1, <1>2

LEMMA OffOK ==
    ASSUME NEW r \in SockRec, NEW state \in {"leaving", "gone"}, SocketOK(r), r.server # "none"
    PROVE  SocketOK(Off(r, state)) /\ \A k : Link(k, r) => Link(k, Off(r, state))
  <1>1. CASE Off(r, state) = Unused
    <2>1. \A k : Link(k, Unused)
      BY UnusedIs DEF Link
    <2>. QED
      BY <1>1, <2>1, UnusedOK
  <1>2. CASE Off(r, state) # Unused
    <2>1. /\ Off(r, state) \in SockRec
          /\ Off(r, state).owner = r.owner /\ Off(r, state).client = r.client
          /\ Off(r, state).server = state /\ Off(r, state).role = r.role
          /\ Off(r, state).attached = r.attached /\ Off(r, state).joined = r.joined
          /\ Off(r, state).sess = r.sess /\ ~Off(r, state).boot /\ ~Off(r, state).recipient
          /\ Off(r, state).up = <<>> /\ Off(r, state).down = r.down
      BY <1>2, OffIs
    <2>2. DOMAIN Off(r, state).up = {}
      BY <2>1, EmptyIs
    <2>. QED
      BY <2>1, <2>2, LikeOK
  <1>. QED
    BY <1>1, <1>2

(* A socket that has not joined joins: what it says of its page was said   *)
(* of no session.                                                          *)
LEMMA JoinOK ==
    ASSUME NEW r \in SockRec, NEW r2 \in SockRec, SocketOK(r), ~r.joined, r.server # "none",
           r2.client = r.client, r2.owner = r.owner, r2.server = r.server, r2.attached, r2.joined,
           r2.recipient = r.recipient, r2.up = r.up, r2.down = r.down
    PROVE  SocketOK(r2) /\ \A k : Link(k, r) => Link(k, r2)
  <1>1. /\ \A i \in DOMAIN r.down : r.down[i].t \notin {"boot", "update"}
        /\ \A i \in DOMAIN r.up : r.up[i].t # "edit"
        /\ r.client # "opening" /\ r.client # "free" /\ ~r.recipient
    BY DEF SocketOK
  <1>2. SocketOK(r2)
    BY <1>1 DEF SocketOK
  <1>3. ASSUME NEW k, Link(k, r) PROVE Link(k, r2)
    BY <1>1, <1>3 DEF Link, Told
  <1>. QED
    BY <1>2, <1>3

LEMMA AttachOK ==
    ASSUME NEW r \in SockRec, SocketOK(r), r.server # "none"
    PROVE  SocketOK(Attach(r)) /\ \A k : Link(k, r) => Link(k, Attach(r))
  <1> DEFINE r2 == Attach(r)
  <1>1. /\ r2 \in SockRec /\ r2.owner = r.owner /\ r2.client = r.client
        /\ r2.server = r.server /\ r2.role = r.role /\ r2.attached /\ r2.joined = r.joined
        /\ r2.sess = r.sess /\ r2.boot = r.boot /\ r2.recipient = r.recipient
        /\ r2.received = r.received /\ r2.up = r.up /\ r2.down = r.down
    BY AttachIs
  <1> HIDE DEF r2
  <1>2. r.client # "opening" /\ r.client # "free"
    BY DEF SocketOK
  <1>3. SocketOK(r2) /\ \A k : Link(k, r) => Link(k, r2)
    BY <1>1, <1>2 DEF SocketOK, Link, Told, BootComes
  <1>. QED
    BY <1>3 DEF r2

LEMMA BootingOK ==
    ASSUME Typed, NEW r \in SockRec, SocketOK(r), r.boot, Bootable(r)
    PROVE  SocketOK(Booting(r)) /\ \A k : Link(k, r) => Link(k, Booting(r))
  <1>1. BootOf \in DownFrames /\ BootOf.t = "boot" /\ BootOf.s = session
    BY BootingIs DEF BootOf
  <1>2. r.server = "open" /\ session = r.sess /\ r.joined
    BY DEF Bootable, SocketOK
  <1> DEFINE q == Sent(r, BootOf)
             r2 == Booting(r)
  <1>3. SocketOK(q) /\ (\A k : Link(k, r) => Link(k, q)) /\ BootComes(q)
    BY <1>1, <1>2, SentOK
  <1>4. /\ q \in SockRec /\ Alike(r, q) /\ q.client = r.client /\ q.up = r.up
        /\ q.down = Append(r.down, BootOf)
    BY <1>1, <1>2, SentIs
  <1>5. /\ r2 \in SockRec /\ r2.owner = r.owner /\ r2.client = r.client
        /\ r2.server = r.server /\ r2.role = r.role /\ r2.attached = r.attached
        /\ r2.joined = r.joined /\ r2.sess = r.sess /\ ~r2.boot /\ r2.recipient
        /\ r2.received = r.received /\ r2.up = r.up
        /\ r2.down = Append(r.down, BootOf)
    BY <1>2, BootingIs
  <1> HIDE DEF q, r2
  <1>6. SocketOK(r2)
    BY <1>2, <1>3, <1>4, <1>5 DEF SocketOK, Alike
  <1>7. ASSUME NEW k, Link(k, r) PROVE Link(k, r2)
    <2>1. Link(k, q)
      BY <1>3, <1>7
    <2>2. q.down = r2.down /\ q.client = r2.client /\ q.server = r2.server /\ q.joined = r2.joined
          /\ q.sess = r2.sess
      BY <1>4, <1>5 DEF Alike
    <2>. QED
      BY <1>3, <2>1, <2>2 DEF Link, BootComes, Told
  <1>. QED
    BY <1>6, <1>7 DEF r2

LEMMA UnbootedOK ==
    ASSUME Typed, NEW r \in SockRec, SocketOK(r), r.boot
    PROVE  SocketOK(Unbooted(r)) /\ \A k : Link(k, r) => Link(k, Unbooted(r))
  <1> DEFINE r2 == Unbooted(r)
  <1>1. /\ r2 \in SockRec /\ r2.owner = r.owner /\ r2.client = r.client
        /\ r2.server = r.server /\ r2.role = r.role /\ r2.attached = r.attached
        /\ r2.joined = r.joined /\ r2.sess = r.sess /\ ~r2.boot
        /\ r2.recipient = r.recipient /\ r2.up = r.up /\ r2.down = r.down
    BY BootingIs
  <1> HIDE DEF r2
  <1>2. SocketOK(r2) /\ \A k : Link(k, r) => Link(k, r2)
    BY <1>1 DEF SocketOK, Link, Told, BootComes
  <1>. QED
    BY <1>2 DEF r2

LEMMA ReceiptOK ==
    ASSUME NEW r \in SockRec, SocketOK(r), r.up # <<>>, r.server # "none"
    PROVE  SocketOK(Receipt(r)) /\ \A k : Link(k, r) => Link(k, Receipt(r))
  <1> DEFINE q == Sent(Heard(r), AckOf(r))
             r2 == Receipt(r)
  <1>1. /\ Heard(r) \in SockRec /\ Alike(r, Heard(r)) /\ Heard(r).client = r.client
        /\ Heard(r).up = Tail(r.up) /\ Heard(r).down = r.down
    BY HeardIs
  <1>2. SocketOK(Heard(r)) /\ \A k : Link(k, r) => Link(k, Heard(r))
    BY HeardOK
  <1>3. AckOf(r) \in DownFrames /\ AckOf(r).t = "ack"
    BY ReceiptIs DEF AckOf
  <1>4. SocketOK(q) /\ \A k : Link(k, Heard(r)) => Link(k, q)
    BY <1>1, <1>2, <1>3, SentOK
  <1>5. /\ q \in SockRec /\ Alike(Heard(r), q) /\ q.client = r.client /\ q.up = Tail(r.up)
        /\ r.server = "open" => q.down = Append(r.down, AckOf(r))
        /\ r.server # "open" => q.down = r.down
    BY <1>1, <1>3, SentIs DEF Alike
  <1>6. /\ r2 \in SockRec /\ r2.owner = r.owner /\ r2.client = r.client
        /\ r2.server = r.server /\ r2.role = r.role /\ r2.attached = r.attached
        /\ r2.joined = r.joined /\ r2.sess = r.sess /\ r2.boot = r.boot
        /\ r2.recipient = r.recipient /\ r2.up = Tail(r.up)
        /\ r.server = "open" => r2.down = Append(r.down, AckOf(r))
        /\ r.server # "open" => r2.down = r.down
    BY ReceiptIs
  <1> HIDE DEF q, r2
  <1>7. q.server # "none" /\ r2.down = q.down
    BY <1>1, <1>5, <1>6 DEF Alike
  <1>8. SocketOK(r2) /\ \A k : Link(k, q) => Link(k, r2)
    BY <1>1, <1>4, <1>5, <1>6, <1>7, LikeOK DEF Alike
  <1>. QED
    BY <1>2, <1>4, <1>8 DEF r2

LEMMA SaidOK ==
    ASSUME NEW r \in SockRec, NEW m \in UpFrames, SocketOK(r), r.client = "open",
           m.t = "edit" => r.joined /\ m.s = r.sess
    PROVE  SocketOK(Said(r, m)) /\ \A k : Link(k, r) => Link(k, Said(r, m))
  <1>1. /\ Said(r, m) \in SockRec /\ Alike(r, Said(r, m)) /\ Said(r, m).client = r.client
        /\ Said(r, m).up = Append(r.up, m) /\ Said(r, m).down = r.down
    BY SaidIs
  <1>2. \A i \in DOMAIN Said(r, m).up : Said(r, m).up[i].t = "edit" =>
           r.joined /\ Said(r, m).up[i].s = r.sess
    BY <1>1, SockRecIs, AppendIs DEF SocketOK
  <1>3. SocketOK(Said(r, m))
    BY <1>1, <1>2 DEF SocketOK, Alike
  <1>4. ASSUME NEW k, Link(k, r) PROVE Link(k, Said(r, m))
    BY <1>1, <1>4 DEF Link, Told, BootComes, Alike
  <1>. QED
    BY <1>3, <1>4

LEMMA ConnectedOK ==
    ASSUME NEW r \in SockRec, SocketOK(r), r.client = "opening",
           NEW role \in {"editor", "observer", "none"}
    PROVE  /\ SocketOK(Connected(r, role))
           /\ \A k : ~k.prov.booted => Link(k, Connected(r, role))
  <1> DEFINE r2 == Connected(r, role)
  <1>1. /\ r2 \in SockRec /\ r2.owner = r.owner /\ r2.client = "open" /\ r2.server = "open"
        /\ r2.role = r.role /\ r2.attached = r.attached /\ r2.joined = r.joined
        /\ r2.sess = r.sess /\ r2.boot = r.boot /\ r2.recipient = r.recipient
        /\ r2.received = r.received /\ r2.up = <<[t |-> "req", role |-> role]>>
        /\ r2.down = r.down
    BY ConnectedIs
  <1> HIDE DEF r2
  <1>2. /\ \A i \in DOMAIN r2.up : r2.up[i].t # "edit"
        /\ DOMAIN r2.down = {}
    <2>1. [t |-> "req", role |-> role] \in UpFrames /\ [t |-> "req", role |-> role].t = "req"
      BY UpFramesAre
    <2>. QED
      BY <1>1, <2>1, SingleIs, EmptyIs DEF SocketOK
  <1>3. SocketOK(r2) /\ \A k : ~k.prov.booted => Link(k, r2)
    BY <1>1, <1>2 DEF SocketOK, Link
  <1>. QED
    BY <1>3 DEF r2

LEMMA DialedOK ==
    ASSUME NEW t \in Tabs
    PROVE  SocketOK(Dialed(Unused, t)) /\ \A k : Link(k, Dialed(Unused, t))
  <1> DEFINE r == Dialed(Unused, t)
  <1>1. /\ r \in SockRec /\ r.owner = t /\ r.client = "opening" /\ r.server = "none"
        /\ r.role = "observer" /\ ~r.attached /\ ~r.joined /\ r.sess = 0
        /\ ~r.boot /\ ~r.recipient /\ r.received = 0 /\ r.up = <<>> /\ r.down = <<>>
    BY DialedIs
  <1> HIDE DEF r
  <1>2. SocketOK(r) /\ \A k : Link(k, r)
    BY <1>1, EmptyIs DEF SocketOK, Link
  <1>. QED
    BY <1>2 DEF r

(* A page and its socket know each other; an open socket that has joined   *)
(* is in the session there is, and an editor's holds it.                   *)
SocketsOK == \A c \in Sockets : SocketOK(sock[c])
JoinedOK ==
  /\ \A c \in Sockets : sock[c].server = "open" =>
       /\ sock[c].joined => session # 0 /\ sock[c].sess = session
       /\ sock[c].role = "editor" => c \in holders
  /\ (session = 0) = (holders = {})
Linked == \A t \in Tabs : tab[t].socket # 0 => Link(tab[t], OwnSock(t))

Base == Wired /\ SocketsOK /\ JoinedOK /\ Linked

LEMMA OwnSocketIs ==
    ASSUME Typed, Base, NEW t \in Tabs, tab[t].socket # 0
    PROVE  /\ tab[t].socket \in Sockets /\ OwnSock(t) \in SockRec /\ SocketOK(OwnSock(t))
           /\ OwnSock(t).owner = t /\ OwnSock(t).client \in Held /\ Link(tab[t], OwnSock(t))
           /\ tab[t].prov.retry = "none"
           /\ \A u \in Tabs \ {t} : tab[u].socket # tab[t].socket
  BY OwnedIs DEF Base, SocketsOK, Linked, OwnSock

LEMMA RewiresKeeps ==
    ASSUME Typed, Base, NEW t \in Tabs, ~tab[t].left, Rewires(t), UNCHANGED <<session, holders>>
    PROVE  Base'
  <1> DEFINE c0 == tab[t].socket
             k == tab'[t]
  <1>1. \A u \in Tabs \ {t} : tab'[u] = tab[u]
    BY DEF Rewires
  <1>2. ASSUME NEW d \in Sockets
        PROVE  \/ sock'[d] = sock[d] /\ d # c0
               \/ sock'[d] = Closed(sock[c0]) /\ d = c0
               \/ sock'[d] = Dialed(Unused, t) /\ k.socket = d
    BY DEF Rewires
  <1>3. k.socket # 0 => /\ k.socket \in Sockets /\ sock'[k.socket] = Dialed(Unused, t)
                        /\ k.socket # c0 => sock[k.socket] = Unused
    BY DEF Rewires
  <1> HIDE DEF c0, k
  <1>4. c0 # 0 => /\ SocketOK(sock[c0]) /\ sock[c0] \in SockRec /\ c0 \in Sockets
                  /\ sock[c0].client \in Held
    BY OwnSocketIs DEF OwnSock, c0
  <1>5. c0 # 0 => /\ SocketOK(Closed(sock[c0]))
                  /\ Closed(sock[c0]).server = "open" =>
                       /\ sock[c0].server = "open" /\ Closed(sock[c0]).joined = sock[c0].joined
                       /\ Closed(sock[c0]).sess = sock[c0].sess
                       /\ Closed(sock[c0]).role = sock[c0].role
    BY <1>4, ClosedOK, ClosedIs, UnusedIs DEF Alike
  <1>6. /\ SocketOK(Dialed(Unused, t)) /\ (\A q : Link(q, Dialed(Unused, t)))
        /\ Dialed(Unused, t).server = "none" /\ Unused.client = "free"
    BY DialedOK, DialedIs, UnusedIs
  <1>7. SocketsOK'
    BY <1>2, <1>5, <1>6, SocketsAre DEF Base, SocketsOK
  <1>8. JoinedOK'
    BY <1>2, <1>5, <1>6, SocketsAre DEF Base, JoinedOK
  <1>9. Linked'
    <2> SUFFICES ASSUME NEW u \in Tabs, tab'[u].socket # 0
                 PROVE  Link(tab'[u], sock'[tab'[u].socket])
      BY DEF Linked, OwnSock
    <2>1. CASE u = t
      BY <1>3, <1>6, <2>1 DEF k
    <2>2. CASE u # t
      <3>1. /\ tab'[u] = tab[u] /\ tab[u].socket \in Sockets /\ tab[u].socket # c0
            /\ sock[tab[u].socket].client \in Held /\ Link(tab[u], sock[tab[u].socket])
        BY <1>1, <2>2, OwnSocketIs DEF c0, OwnSock
      <3>2. sock'[tab[u].socket] = sock[tab[u].socket]
        BY <1>2, <1>3, <1>6, <3>1, SocketsAre DEF Held
      <3>. QED
        BY <3>1, <3>2
    <2>. QED
      BY <2>1, <2>2
  <1>10. Wired'
    BY RewiresWires DEF Base
  <1>. QED
    BY <1>7, <1>8, <1>9, <1>10 DEF Base

LEMMA GotOK ==
    ASSUME NEW r \in SockRec, SocketOK(r), r.client = "open", r.down # <<>>
    PROVE  /\ SocketOK(Got(r))
           /\ r.down[1].t # "boot" => \A k : Link(k, r) => Link(k, Got(r))
  <1>1. /\ Got(r) \in SockRec /\ Alike(r, Got(r)) /\ Got(r).client = r.client
        /\ Got(r).down = Tail(r.down) /\ Got(r).up = r.up
    BY GotIs
  <1>2. r.down \in Seq(DownFrames)
    BY SockRecIs
  <1>3. /\ \A i \in DOMAIN Tail(r.down) : /\ i + 1 \in DOMAIN r.down
                                          /\ Tail(r.down)[i] = r.down[i + 1] /\ i \in Nat
        /\ \A i \in DOMAIN r.down : i # 1 => /\ i - 1 \in DOMAIN Tail(r.down)
                                             /\ Tail(r.down)[i - 1] = r.down[i] /\ i \in Nat
    BY <1>2, TailIs
  <1>4. SocketOK(Got(r))
    BY <1>1, <1>3 DEF SocketOK, Alike
  <1>5. ASSUME r.down[1].t # "boot", NEW k, Link(k, r) PROVE Link(k, Got(r))
    <2>1. BootComes(r) => BootComes(Got(r))
      <3>1. ASSUME NEW j \in DOMAIN r.down, r.down[j].t = "boot" PROVE BootComes(Got(r))
        <4>1. j # 1
          BY <1>5, <3>1
        <4>2. j - 1 \in DOMAIN Got(r).down /\ Got(r).down[j - 1] = r.down[j]
          BY <1>1, <1>3, <3>1, <4>1
        <4>. QED
          BY <3>1, <4>2 DEF BootComes
      <3>. QED
        BY <3>1 DEF BootComes
    <2>2. Told(k, Got(r)) <=> Told(k, r)
      BY <1>1 DEF Told, Alike
    <2>3. ASSUME NEW i \in DOMAIN Got(r).down, Got(r).down[i].t = "update"
          PROVE  Told(k, r) \/ \E j \in DOMAIN Got(r).down : j < i /\ Got(r).down[j].t = "boot"
      <3>1. i + 1 \in DOMAIN r.down /\ r.down[i + 1].t = "update" /\ i \in Nat
        BY <1>1, <1>3, <2>3
      <3>2. Told(k, r) \/ \E j \in DOMAIN r.down : j < i + 1 /\ r.down[j].t = "boot"
        BY <1>5, <3>1 DEF Link
      <3>3. ASSUME NEW j \in DOMAIN r.down, j < i + 1, r.down[j].t = "boot"
            PROVE  \E j2 \in DOMAIN Got(r).down : j2 < i /\ Got(r).down[j2].t = "boot"
        <4>1. j # 1
          BY <1>5, <3>3
        <4>2. /\ j - 1 \in DOMAIN Got(r).down /\ Got(r).down[j - 1].t = "boot" /\ j - 1 < i
          BY <1>1, <1>3, <3>1, <3>3, <4>1
        <4>. QED
          BY <4>2
      <3>. QED
        BY <3>2, <3>3
    <2>. QED
      BY <1>1, <1>5, <2>1, <2>2, <2>3 DEF Link, Alike
  <1>. QED
    BY <1>4, <1>5

(* A step on a page and its own socket.                                    *)
JoinSame(r, r2) ==
  r2.server = "open" => \/ /\ r.server = "open" /\ r2.joined = r.joined /\ r2.sess = r.sess
                           /\ r2.role = r.role
                        \/ ~r2.joined /\ r2.role = "observer"

LEMMA InPlaceKeeps ==
    ASSUME Typed, Base, Wired', UNCHANGED <<session, holders>>,
           NEW t \in Tabs, NEW k, OnPage(t, k), k.socket = tab[t].socket,
           \/ UNCHANGED sock /\ (tab[t].socket # 0 => Link(k, OwnSock(t)))
           \/ \E r \in SockRec : /\ tab[t].socket \in Sockets /\ OnSock(tab[t].socket, r)
                                 /\ SocketOK(r) /\ Link(k, r) /\ JoinSame(OwnSock(t), r)
    PROVE  Base'
  <1>1. /\ tab'[t] = k /\ \A u \in Tabs \ {t} : tab'[u] = tab[u]
    BY DEF OnPage
  <1>2. CASE UNCHANGED sock /\ (tab[t].socket # 0 => Link(k, OwnSock(t)))
    <2>1. Linked'
      BY <1>1, <1>2 DEF Base, Linked, OwnSock
    <2>. QED
      BY <1>2, <2>1 DEF Base, SocketsOK, JoinedOK
  <1>3. CASE \E r \in SockRec : /\ tab[t].socket \in Sockets /\ OnSock(tab[t].socket, r)
                                /\ SocketOK(r) /\ Link(k, r) /\ JoinSame(OwnSock(t), r)
    <2> DEFINE c == tab[t].socket
    <2>1. PICK r \in SockRec : /\ c \in Sockets /\ OnSock(c, r)
                               /\ SocketOK(r) /\ Link(k, r) /\ JoinSame(sock[c], r)
      BY <1>3 DEF OwnSock
    <2>2. sock'[c] = r /\ \A d \in Sockets \ {c} : sock'[d] = sock[d]
      BY <2>1 DEF OnSock
    <2>3. SocketsOK'
      BY <2>1, <2>2 DEF Base, SocketsOK
    <2>4. JoinedOK'
      BY <2>1, <2>2 DEF Base, JoinedOK, JoinSame
    <2>5. ASSUME NEW u \in Tabs, u # t, tab[u].socket # 0
          PROVE  tab[u].socket \in Sockets \ {c}
      BY <2>5, OwnSocketIs
    <2>6. Linked'
      <3> SUFFICES ASSUME NEW u \in Tabs, tab'[u].socket # 0
                   PROVE  Link(tab'[u], sock'[tab'[u].socket])
        BY DEF Linked, OwnSock
      <3>1. CASE u = t
        BY <1>1, <2>1, <2>2, <3>1
      <3>2. CASE u # t
        BY <1>1, <2>2, <2>5, <3>2 DEF Base, Linked, OwnSock
      <3>. QED
        BY <3>1, <3>2
    <2>. QED
      BY <2>3, <2>4, <2>6 DEF Base
  <1>. QED
    BY <1>2, <1>3

(* A step of the server: socket by socket, what is said of a page and its  *)
(* socket stays true.                                                      *)
KeptSock(r, r2) == SocketOK(r2) /\ \A k : Link(k, r) => Link(k, r2)
KeptDoc(k, k2) == k2.socket = k.socket /\ k2.bound = k.bound /\ k2.prov.booted = k.prov.booted

LEMMA ServerKeeps ==
    ASSUME Typed, Base, Wired', JoinedOK',
           \A d \in Sockets : KeptSock(sock[d], sock'[d]),
           \A t \in Tabs : KeptDoc(tab[t], tab'[t])
    PROVE  Base'
  <1>1. SocketsOK'
    BY DEF SocketsOK, KeptSock
  <1>2. Linked'
    <2> SUFFICES ASSUME NEW t \in Tabs, tab'[t].socket # 0
                 PROVE  Link(tab'[t], sock'[tab'[t].socket])
      BY DEF Linked, OwnSock
    <2>1. KeptDoc(tab[t], tab'[t]) /\ tab[t].socket # 0
      BY DEF KeptDoc
    <2>2. tab[t].socket \in Sockets /\ Link(tab[t], sock[tab[t].socket])
      BY <2>1, OwnSocketIs DEF OwnSock
    <2>3. Link(tab[t], sock'[tab[t].socket])
      BY <2>2 DEF KeptSock
    <2>. QED
      BY <2>1, <2>3 DEF KeptDoc, Link, Told
  <1>. QED
    BY <1>1, <1>2 DEF Base

LEMMA SameSockets ==
    ASSUME Base, UNCHANGED <<session, holders>>, \A d \in Sockets : JoinSame(sock[d], sock'[d])
    PROVE  JoinedOK'
  BY DEF Base, JoinedOK, JoinSame

(* Every step of a page, when no key is typed before the bootstrap.        *)
LEMMA SameLink ==
    ASSUME NEW k, NEW k2, NEW r, Link(k, r), k2.bound = k.bound, k2.prov.booted => k.prov.booted
    PROVE  Link(k2, r)
  BY DEF Link, Told

LEMMA AlikeJoin ==
    ASSUME NEW r, NEW r2, Alike(r, r2)
    PROVE  JoinSame(r, r2)
  BY DEF Alike, JoinSame

LEMMA ReceiveKeeps ==
    ASSUME Typed, Base, Wired', UNCHANGED <<session, holders>>, NEW t \in Tabs, Receive(t)
    PROVE  Base'
  <1> DEFINE r == OwnSock(t)
             m == Arriving(t)
             k == AfterFrame(tab[t], m)
  <1>1. /\ tab[t].socket \in Sockets /\ r.down # <<>> /\ m \in DownFrames /\ m.t # "close"
        /\ m = r.down[1] /\ OnPage(t, k) /\ OnSock(tab[t].socket, Got(r))
    BY ReceiveDoes
  <1>2. /\ r \in SockRec /\ SocketOK(r) /\ Link(tab[t], r) /\ r.client \in Held
        /\ tab[t] \in PageRec
    BY <1>1, OwnSocketIs, SocketsAre DEF Typed
  <1>3. r.client = "open"
    BY <1>1, <1>2 DEF SocketOK, Held
  <1>4. 1 \in DOMAIN r.down
    BY <1>1, <1>2, SockRecIs, TailIs
  <1>5. /\ Got(r) \in SockRec /\ Alike(r, Got(r)) /\ Got(r).client = r.client
        /\ Got(r).down = Tail(r.down) /\ Got(r).up = r.up
    BY <1>1, <1>2, GotIs
  <1>6. SocketOK(Got(r)) /\ (m.t # "boot" => Link(tab[t], Got(r)))
    BY <1>1, <1>2, <1>3, GotOK
  <1>7. KeptTab(tab[t], k)
    BY <1>1, <1>2, AfterFrameKeeps
  <1>8. JoinSame(r, Got(r))
    BY <1>5, AlikeJoin
  <1>9. Link(k, Got(r))
    <2>1. CASE m.t = "boot"
      <3>1. k = BootedPage(ReplicaFor(tab[t], m), m) /\ ReplicaFor(tab[t], m) \in PageRec
        BY <1>1, <1>2, <2>1, BootFrameIs
      <3>2. k.bound = m.s
        BY <1>1, <2>1, <3>1, BootedPageIs
      <3>3. r.joined /\ m.s = r.sess
        BY <1>1, <1>2, <1>4, <2>1 DEF SocketOK
      <3> HIDE DEF r, m, k
      <3>. QED
        BY <1>5, <3>2, <3>3 DEF Link, Told, Alike
    <2>2. CASE m.t # "boot"
      <3>1. k.bound = tab[t].bound /\ (k.prov.booted => tab[t].prov.booted)
        <4>1. m.mirror \in BOOLEAN \/ m.t # "update"
          BY <1>1, DownFramesAre
        <4>2. tab[t].prov \in ProvRec
          BY <1>2, PageIs
        <4>3. CASE m.t = "update" /\ k = Mirrored(tab[t], m.mirror)
          BY <1>2, <4>1, <4>3, MirroredIs
        <4>4. CASE k = PauseStarted(tab[t]) /\ ~tab[t].prov.pubPaused
          <5>1. /\ k.bound = tab[t].bound
                /\ k.prov = [tab[t].prov EXCEPT !.pubPaused = TRUE, !.readySent = FALSE,
                                            !.freezing = tab[t].prov.freezing \cup {2}]
            BY <1>2, <4>4, PauseStartedIs
          <5> HIDE DEF k, m
          <5>. QED
            BY <4>2, <5>1 DEF ProvRec
        <4>5. CASE k = PauseEnded(tab[t])
          <5>1. /\ k.bound = tab[t].bound
                /\ k.prov = [tab[t].prov EXCEPT !.pubPaused = FALSE, !.readySent = FALSE]
            BY <1>2, <4>5, PauseEndedIs
          <5> HIDE DEF k, m
          <5>. QED
            BY <4>2, <5>1 DEF ProvRec
        <4>6. CASE m.t = "ack" /\ k = AckedPage(tab[t], m)
          <5>1. /\ k.bound = tab[t].bound
                /\ k.prov = [tab[t].prov EXCEPT !.acked = AckedNow(tab[t], m)]
            BY <1>1, <1>2, <4>6, AckedPageIs
          <5> HIDE DEF k, m
          <5>. QED
            BY <4>2, <5>1 DEF ProvRec
        <4>7. CASE k = tab[t]
          BY <4>7
        <4>. QED
          BY <1>1, <1>2, <2>2, <4>3, <4>4, <4>5, <4>6, <4>7, AfterFrameIs
      <3>. QED
        BY <1>6, <2>2, <3>1, SameLink
    <2>. QED
      BY <2>1, <2>2
  <1>10. k.socket = tab[t].socket
    BY <1>7 DEF KeptTab
  <1> HIDE DEF m, k
  <1>. QED
    BY <1>1, <1>5, <1>6, <1>8, <1>9, <1>10, InPlaceKeeps

LEMMA PageKeeps ==
    ASSUME "early" \notin Env, Typed, Base, NEW t \in Tabs, PageStep(t)
    PROVE  Base'
  <1>0. Wired' /\ UNCHANGED <<session, holders>>
    <2>1. Wired'
      BY PageWires DEF Base
    <2>2. UNCHANGED <<session, holders>>
      BY DEF PageStep, OpenEditor, StopEditing, Unfocus, Opened, Type, Frame, Receive,
             ToldClosed, Reconnect, RefreshFails, HandoffDone, Sleep, Wake, server
    <2>. QED
      BY <2>1, <2>2
  <1>1. ~tab[t].left
    BY DEF PageStep, OpenEditor, StopEditing, Unfocus, Opened, Type, Frame, Receive, ToldClosed,
           Reconnect, RefreshFails, HandoffDone, Sleep, Wake, Awake
  <1>2. /\ tab[t] \in PageRec /\ tab[t].prov \in ProvRec
        /\ tab[t].kind = "editing" => tab[t].prov.role = "editor"
        /\ tab[t].socket # 0 => tab[t].prov.retry = "none"
    BY <1>1, PageIs DEF Typed, Base, Wired, EditorsOK, Owned
  <1>3. tab[t].socket # 0 => /\ tab[t].socket \in Sockets /\ OwnSock(t) \in SockRec
                             /\ SocketOK(OwnSock(t)) /\ OwnSock(t).client \in Held
                             /\ Link(tab[t], OwnSock(t))
    BY OwnSocketIs
  <1>4. CASE RedialStep(t) \/ LetsGoStep(t)
    BY <1>0, <1>1, <1>4, RedialRewires, RewiresKeeps
  <1>5. ASSUME NEW k, OnPage(t, k), k.socket = tab[t].socket, UNCHANGED sock,
               k.bound = tab[t].bound, k.prov.booted => tab[t].prov.booted
        PROVE  Base'
    <2>1. tab[t].socket # 0 => Link(k, OwnSock(t))
      BY <1>3, <1>5, SameLink
    <2>. QED
      BY <1>0, <1>5, <2>1, InPlaceKeeps
  <1>6. CASE OpenEditor(t) \/ StopEditing(t) \/ RefreshFails(t)
    BY <1>4, <1>6, OpenEditorDoes
  <1>7. CASE ToldClosed(t)
    <2>1. tab[t].socket # 0
      BY <1>7 DEF ToldClosed, Incoming
    <2>. QED
      BY <1>2, <1>4, <1>7, <2>1, ToldClosedDoes
  <1>8. CASE Reconnect(t)
    BY <1>2, <1>4, <1>8, ReconnectDoes
  <1>9. CASE Wake(t)
    <2>1. /\ Awoken(tab[t]).socket = tab[t].socket /\ Awoken(tab[t]).bound = tab[t].bound
          /\ Awoken(tab[t]).prov = tab[t].prov
      BY <1>2 DEF Awoken, PageRec
    <2>. QED
      BY <1>2, <1>4, <1>5, <1>9, <2>1, WakeDoes
  <1>10. CASE HandoffDone(t)
    <2>1. /\ Handed(tab[t]).socket = tab[t].socket /\ Handed(tab[t]).bound = tab[t].bound
          /\ Handed(tab[t]).prov = tab[t].prov
      BY <1>2 DEF Handed, PageRec
    <2>. QED
      BY <1>4, <1>5, <1>10, <2>1, HandoffDoneDoes
  <1>11. CASE Unfocus(t)
    <2>1. /\ Unfocused(tab[t]).socket = tab[t].socket /\ Unfocused(tab[t]).bound = tab[t].bound
          /\ Unfocused(tab[t]).prov = tab[t].prov
      BY <1>2 DEF Unfocused, PageRec
    <2>. QED
      BY <1>5, <1>11, <2>1, UnfocusDoes
  <1>12. CASE Opened(t)
    <2> DEFINE r == OwnSock(t)
               k == OpenedPage(tab[t])
               r2 == Connected(r, tab[t].prov.role)
    <2>1. /\ OnPage(t, k) /\ tab[t].socket \in Sockets /\ OnSock(tab[t].socket, r2)
      BY <1>12, OpenedDoes
    <2>2. r.client = "opening" /\ tab[t].socket # 0 /\ tab[t].prov.role \in {"editor", "observer", "none"}
      BY <1>2, <1>12, PageIs DEF Opened, OwnSock
    <2>3. ~k.prov.booted /\ k.socket = tab[t].socket
      BY <1>2 DEF OpenedPage, PageRec, ProvRec
    <2>4. SocketOK(r2) /\ Link(k, r2)
      BY <1>3, <2>2, <2>3, ConnectedOK
    <2>5. r2 \in SockRec /\ JoinSame(r, r2)
      BY <1>3, <2>2, ConnectedIs DEF JoinSame, SocketOK
    <2> HIDE DEF k, r2
    <2>. QED
      BY <1>0, <2>1, <2>3, <2>4, <2>5, InPlaceKeeps
  <1>13. CASE Type(t)
    <2> DEFINE r == OwnSock(t)
               k == TypedPage(tab[t])
               m == EditOf(t)
    <2>1. /\ k.socket = tab[t].socket /\ k.bound = tab[t].bound
          /\ k.prov.booted = tab[t].prov.booted
      BY <1>2 DEF TypedPage, PageRec, ProvRec
    <2>2. CASE Sends(t)
      <3>1. /\ OnPage(t, k) /\ tab[t].socket \in Sockets /\ m \in UpFrames
            /\ OnSock(tab[t].socket, Said(r, m)) /\ r.client = "open" /\ tab[t].socket # 0
        BY <1>13, <2>2, TypeDoes DEF Sends
      <3>2. tab[t].prov.booted /\ m.s = tab[t].bound
        BY <1>13 DEF Type, EditOf
      <3>3. r.joined /\ m.s = r.sess
        BY <1>3, <3>1, <3>2 DEF Link, Told
      <3> HIDE DEF m
      <3>4. SocketOK(Said(r, m)) /\ Link(tab[t], Said(r, m))
        BY <1>3, <3>1, <3>3, SaidOK
      <3>5. Said(r, m) \in SockRec /\ JoinSame(r, Said(r, m))
        BY <1>3, <3>1, SaidIs, AlikeJoin
      <3>6. Link(k, Said(r, m))
        BY <2>1, <3>4, SameLink
      <3> HIDE DEF k
      <3>. QED
        BY <1>0, <2>1, <3>1, <3>4, <3>5, <3>6, InPlaceKeeps
    <2>. QED
      BY <1>5, <1>13, <2>1, <2>2, TypeDoes
  <1>14. CASE Frame(t)
    <2> DEFINE r == OwnSock(t)
               k == FramedPage(tab[t])
               m == [t |-> "ready"]
    <2>1. /\ k.socket = tab[t].socket /\ k.bound = tab[t].bound
          /\ k.prov.booted = tab[t].prov.booted
      BY <1>2 DEF FramedPage, PageRec, ProvRec
    <2>2. CASE SaysReady(t)
      <3>1. /\ OnPage(t, k) /\ tab[t].socket \in Sockets /\ m \in UpFrames /\ m.t # "edit"
            /\ OnSock(tab[t].socket, Said(r, m)) /\ r.client = "open" /\ tab[t].socket # 0
        BY <1>14, <2>2, FrameDoes, UpFramesAre DEF SaysReady
      <3> HIDE DEF m
      <3>4. SocketOK(Said(r, m)) /\ Link(tab[t], Said(r, m))
        BY <1>3, <3>1, SaidOK
      <3>5. Said(r, m) \in SockRec /\ JoinSame(r, Said(r, m))
        BY <1>3, <3>1, SaidIs, AlikeJoin
      <3>6. Link(k, Said(r, m))
        BY <2>1, <3>4, SameLink
      <3> HIDE DEF k
      <3>. QED
        BY <1>0, <2>1, <3>1, <3>4, <3>5, <3>6, InPlaceKeeps
    <2>. QED
      BY <1>5, <1>14, <2>1, <2>2, FrameDoes
  <1>15. CASE Receive(t)
    BY <1>0, <1>15, ReceiveKeeps
  <1>16. CASE Sleep(t)
    <2> DEFINE r == OwnSock(t)
               k == Slept(tab[t])
    <2>1. k.socket = tab[t].socket /\ k.bound = tab[t].bound /\ k.prov = tab[t].prov
      BY <1>2 DEF Slept, PageRec
    <2>2. CASE OnPage(t, k) /\ tab[t].socket \in Sockets /\ OnSock(tab[t].socket, Broken(r))
      <3>1. r \in SockRec /\ SocketOK(r) /\ r.client \in Held
        BY <1>3, <2>2, SocketsAre
      <3>2. SocketOK(Broken(r)) /\ Broken(r) \in SockRec /\ JoinSame(r, Broken(r))
        BY <3>1, BrokenOK, BrokenIs, AlikeJoin
      <3>3. Link(k, Broken(r))
        BY <3>1, BrokenIs DEF Link
      <3> HIDE DEF k
      <3>. QED
        BY <1>0, <2>1, <2>2, <3>2, <3>3, InPlaceKeeps
    <2>. QED
      BY <1>5, <1>16, <2>1, <2>2, SleepDoes
  <1>. QED
    BY <1>6, <1>7, <1>8, <1>9, <1>10, <1>11, <1>12, <1>13, <1>14, <1>15, <1>16 DEF PageStep

(* Every step of the server.                                               *)
LEMMA ServedOK ==
    ASSUME NEW r \in SockRec, SocketOK(r), r.server # "none", r.up # <<>>
    PROVE  /\ KeptSock(r, Heard(r)) /\ JoinSame(r, Heard(r))
           /\ KeptSock(r, Receipt(r)) /\ JoinSame(r, Receipt(r))
           /\ KeptSock(r, Attach(Heard(r))) /\ JoinSame(r, Attach(Heard(r)))
           /\ \A code \in Codes : /\ KeptSock(r, Shut(Heard(r), code))
                                  /\ JoinSame(r, Shut(Heard(r), code))
           /\ ~r.joined => \A s \in Nat : /\ KeptSock(r, Join(Heard(r), s))
                                          /\ KeptSock(r, JoinEditor(Heard(r), s))
  <1> DEFINE h == Heard(r)
  <1>1. /\ h \in SockRec /\ Alike(r, h) /\ h.client = r.client /\ h.up = Tail(r.up) /\ h.down = r.down
    BY HeardIs
  <1>2. SocketOK(h) /\ \A k : Link(k, r) => Link(k, h)
    BY HeardOK
  <1>3. h.server # "none"
    BY <1>1 DEF Alike
  <1> HIDE DEF h
  <1>4. KeptSock(r, h) /\ JoinSame(r, h)
    BY <1>1, <1>2, AlikeJoin DEF KeptSock
  <1>5. KeptSock(r, Receipt(r)) /\ JoinSame(r, Receipt(r))
    BY ReceiptOK, ReceiptIs DEF KeptSock, JoinSame
  <1>6. KeptSock(r, Attach(h)) /\ JoinSame(r, Attach(h))
    <2>1. JoinSame(r, Attach(h))
      BY <1>1, AttachIs DEF JoinSame, Alike
    <2>. QED
      BY <1>1, <1>2, <1>3, <2>1, AttachOK DEF KeptSock
  <1>7. ASSUME NEW code \in Codes PROVE KeptSock(r, Shut(h, code)) /\ JoinSame(r, Shut(h, code))
    <2>1. JoinSame(r, Shut(h, code))
      BY <1>1, ShutIs DEF JoinSame, Alike
    <2>. QED
      BY <1>1, <1>2, <2>1, ShutOK DEF KeptSock
  <1>8. ASSUME ~r.joined, NEW s \in Nat
        PROVE  KeptSock(r, Join(h, s)) /\ KeptSock(r, JoinEditor(h, s))
    <2>1. ~h.joined
      BY <1>1, <1>8 DEF Alike
    <2>2. KeptSock(r, Join(h, s))
      BY <1>1, <1>2, <1>3, <2>1, JoinIs, JoinOK DEF KeptSock
    <2>3. KeptSock(r, JoinEditor(h, s))
      BY <1>1, <1>2, <1>3, <2>1, JoinEditorIs, JoinOK DEF KeptSock
    <2>. QED
      BY <2>2, <2>3
  <1>. QED
    BY <1>4, <1>5, <1>6, <1>7, <1>8 DEF h

LEMMA NotServedOK ==
    ASSUME NEW r \in SockRec, SocketOK(r)
    PROVE  /\ KeptSock(r, r) /\ JoinSame(r, r)
           /\ \A code \in Codes : KeptSock(r, Shut(r, code)) /\ Shut(r, code).server # "open"
           /\ \A code \in Codes : JoinSame(r, Shut(r, code))
           /\ ~r.joined /\ r.server # "none" => \A s \in Nat : KeptSock(r, Join(r, s))
           /\ \A m \in DownFrames :
                /\ r.server = "open" /\ m.t \in {"boot", "update"} => r.joined /\ m.s = r.sess
                /\ r.server = "open" /\ m.t = "update" => r.recipient
                => KeptSock(r, Sent(r, m)) /\ JoinSame(r, Sent(r, m))
           /\ r.server # "none" => \A state \in {"leaving", "gone"} :
                KeptSock(r, Off(r, state)) /\ Off(r, state).server # "open"
  <1>1. KeptSock(r, r) /\ JoinSame(r, r)
    BY DEF KeptSock, JoinSame
  <1>2. ASSUME NEW code \in Codes
        PROVE  KeptSock(r, Shut(r, code)) /\ Shut(r, code).server # "open"
    <2>1. KeptSock(r, Shut(r, code))
      BY ShutOK DEF KeptSock
    <2>2. /\ r.server # "open" => Shut(r, code) = r
          /\ r.server = "open" => Shut(r, code).server = "closing"
      BY ShutIs
    <2>. QED
      BY <2>1, <2>2
  <1>3. ASSUME NEW s \in Nat, ~r.joined, r.server # "none" PROVE KeptSock(r, Join(r, s))
    BY <1>3, JoinIs, JoinOK DEF KeptSock
  <1>4. ASSUME NEW m \in DownFrames,
               r.server = "open" /\ m.t \in {"boot", "update"} => r.joined /\ m.s = r.sess,
               r.server = "open" /\ m.t = "update" => r.recipient
        PROVE  KeptSock(r, Sent(r, m)) /\ JoinSame(r, Sent(r, m))
    BY <1>4, SentOK, SentIs, AlikeJoin DEF KeptSock
  <1>5. ASSUME NEW state \in {"leaving", "gone"}, r.server # "none"
        PROVE  KeptSock(r, Off(r, state)) /\ Off(r, state).server # "open"
    BY <1>5, OffOK, OffIs, UnusedIs DEF KeptSock
  <1>. QED
    BY <1>1, <1>2, <1>3, <1>4, <1>5 DEF JoinSame

(* One socket changes.                                                     *)
LEMMA OneKept ==
    ASSUME Typed, Base, NEW c \in Sockets, NEW r, OnSock(c, r), KeptSock(sock[c], r)
    PROVE  \A d \in Sockets : KeptSock(sock[d], sock'[d])
  BY DEF OnSock, Base, SocketsOK, KeptSock

LEMMA OneSame ==
    ASSUME Typed, Base, UNCHANGED <<session, holders>>, NEW c \in Sockets, NEW r, OnSock(c, r),
           JoinSame(sock[c], r)
    PROVE  JoinedOK'
  <1>1. \A d \in Sockets : JoinSame(sock[d], sock'[d])
    BY DEF OnSock, JoinSame
  <1>. QED
    BY <1>1, SameSockets

(* The last that holds a session takes it along.                           *)
LEMMA LeaveKeeps ==
    ASSUME Typed, Base, NEW c \in Sockets, NEW last \in BOOLEAN, Leave(c, last),
           sock[c].server # "none", sock[c].role = "observer" => sock[c].server # "open",
           ~last => ~LastEditor(c)
    PROVE  JoinedOK' /\ \A d \in Sockets : KeptSock(sock[d], sock'[d])
  <1>1. /\ sock' \in [Sockets -> SockRec] /\ sock'[c] = Gone(sock[c])
        /\ \A d \in Sockets \ {c} :
             sock'[d] = IF last /\ sock[d].role = "observer" THEN Shut(sock[d], "ended") ELSE sock[d]
        /\ holders' = holders \ {c} /\ session' = IF holders' = {} THEN 0 ELSE session
    BY LeaveDoes
  <1>2. \A d \in Sockets : sock[d] \in SockRec /\ SocketOK(sock[d])
    BY DEF Typed, Base, SocketsOK
  <1>3. KeptSock(sock[c], sock'[c]) /\ sock'[c].server # "open"
    BY <1>1, <1>2, NotServedOK DEF Gone
  <1>4. ASSUME NEW d \in Sockets \ {c}
        PROVE  /\ KeptSock(sock[d], sock'[d]) /\ JoinSame(sock[d], sock'[d])
               /\ last /\ sock[d].role = "observer" => sock'[d].server # "open"
    <2>1. "ended" \in Codes
      BY DEF Codes
    <2>. QED
      BY <1>1, <1>2, <2>1, NotServedOK
  <1>5. \A d \in Sockets : sock[d].server = "open" =>
          /\ sock[d].joined => session # 0 /\ sock[d].sess = session
          /\ sock[d].role = "editor" => d \in holders
    BY DEF Base, JoinedOK
  <1>6. (session' = 0) = (holders' = {})
    BY <1>1 DEF Base, JoinedOK
  <1>7. ASSUME NEW d \in Sockets, sock'[d].server = "open"
        PROVE  /\ sock'[d].joined => session' # 0 /\ sock'[d].sess = session'
               /\ sock'[d].role = "editor" => d \in holders'
    <2>1. d # c
      BY <1>3, <1>7
    <2>2. \/ /\ sock[d].server = "open" /\ sock'[d].joined = sock[d].joined
             /\ sock'[d].sess = sock[d].sess /\ sock'[d].role = sock[d].role
          \/ ~sock'[d].joined /\ sock'[d].role = "observer"
      BY <1>4, <1>7, <2>1 DEF JoinSame
    <2>3. sock'[d].role = "editor" => d \in holders'
      BY <1>1, <1>5, <2>1, <2>2
    <2>4. sock'[d].joined => holders' # {}
      <3>1. CASE sock'[d].role = "editor"
        BY <2>3, <3>1
      <3>2. CASE ~last
        <4>1. PICK e \in Sockets \ {c} : sock[e].server = "open" /\ sock[e].role = "editor"
          BY <3>2 DEF LastEditor, LiveEditor, Live
        <4>. QED
          BY <1>1, <1>5, <4>1
      <3>3. CASE sock'[d].joined /\ sock'[d].role # "editor" /\ last
        <4>1. sock[d].role = "observer"
          BY <1>2, <2>2, <3>3, SockRecIs
        <4>. QED
          BY <1>4, <1>7, <2>1, <3>3, <4>1
      <3>. QED
        BY <3>1, <3>2, <3>3
    <2>. QED
      BY <1>1, <1>5, <2>2, <2>3, <2>4
  <1>. QED
    BY <1>3, <1>4, <1>6, <1>7 DEF JoinedOK

LEMMA AskEditorKeeps ==
    ASSUME Typed, Base, NEW c \in Sockets, AskEditor(c)
    PROVE  JoinedOK' /\ \A d \in Sockets : KeptSock(sock[d], sock'[d])
  <1>1. Serving(c) /\ sock[c].up # <<>> /\ sock[c].server # "none" /\ JoinedBy \in Nat \ {0}
    BY AskEditorDoes DEF Serving
  <1>2. \A d \in Sockets : sock[d] \in SockRec /\ SocketOK(sock[d])
    BY DEF Typed, Base, SocketsOK
  <1>3. CASE OnSock(c, Heard(sock[c])) /\ UNCHANGED <<session, holders>>
    BY <1>1, <1>2, <1>3, ServedOK, OneKept, OneSame
  <1>4. CASE ~sock[c].attached
    <2>1. /\ session' = JoinedBy /\ holders' = holders \cup {c}
          /\ sock'[c] = JoinEditor(Heard(sock[c]), JoinedBy)
      BY <1>4, AskEditorDoes
    <2>2. ~sock[c].joined
      BY <1>2, <1>4 DEF SocketOK
    <2>3. KeptSock(sock[c], sock'[c])
      BY <1>1, <1>2, <2>1, <2>2, ServedOK
    <2>4. sock'[c].joined /\ sock'[c].sess = session'
      BY <1>1, <1>2, <2>1, HeardIs, JoinEditorIs
    <2>5. ASSUME NEW d \in Sockets \ {c}
          PROVE  /\ KeptSock(sock[d], sock'[d])
                 /\ \/ JoinSame(sock[d], sock'[d])
                    \/ /\ sock'[d].joined /\ sock'[d].sess = session'
                       /\ sock'[d].role = "observer"
      <3>1. "superseded" \in Codes
        BY DEF Codes
      <3>2. CASE sock'[d] = Shut(sock[d], "superseded")
        BY <1>2, <3>1, <3>2, NotServedOK
      <3>3. CASE /\ sock[d].server = "open" /\ ~sock[d].joined /\ sock[d].role = "observer"
                 /\ sock'[d] = Join(sock[d], JoinedBy)
        BY <1>1, <1>2, <2>1, <3>3, NotServedOK, JoinIs
      <3>4. CASE sock'[d] = sock[d]
        BY <1>2, <3>4, NotServedOK
      <3>. QED
        BY <1>4, <3>2, <3>3, <3>4, AskEditorDoes
    <2>6. ASSUME NEW d \in Sockets, sock'[d].server = "open"
          PROVE  /\ sock'[d].joined => session' # 0 /\ sock'[d].sess = session'
                 /\ sock'[d].role = "editor" => d \in holders'
      <3>1. CASE d = c
        BY <1>1, <2>1, <2>4, <3>1
      <3>2. CASE d # c /\ JoinSame(sock[d], sock'[d])
        <4>1. \/ /\ sock[d].server = "open" /\ sock'[d].joined = sock[d].joined
                 /\ sock'[d].sess = sock[d].sess /\ sock'[d].role = sock[d].role
              \/ ~sock'[d].joined /\ sock'[d].role = "observer"
          BY <2>6, <3>2 DEF JoinSame
        <4>2. sock[d].server = "open" /\ sock[d].joined => session # 0 /\ sock[d].sess = session
          BY DEF Base, JoinedOK
        <4>3. sock[d].server = "open" /\ sock[d].role = "editor" => d \in holders
          BY DEF Base, JoinedOK
        <4>. QED
          BY <2>1, <4>1, <4>2, <4>3 DEF JoinedBy
      <3>3. CASE d # c /\ sock'[d].joined /\ sock'[d].sess = session' /\ sock'[d].role = "observer"
        BY <1>1, <2>1, <3>3
      <3>. QED
        BY <2>5, <3>1, <3>2, <3>3
    <2>7. session' # 0 /\ holders' # {}
      BY <1>1, <2>1
    <2>. QED
      BY <2>3, <2>5, <2>6, <2>7 DEF JoinedOK
  <1>. QED
    BY <1>3, <1>4, AskEditorDoes

LEMMA ServerStepKeeps ==
    ASSUME Typed, Base, NEW c \in Sockets, ServerStep(c)
    PROVE  Base'
  <1>0. Wired'
    BY ServerWires DEF Base
  <1>1. UNCHANGED tab
    BY DEF ServerStep, AskObserver, AskEditor, SendBootstrap, EditArrives, ReadyArrives,
           SocketCloses, LastEditorLeaves
  <1>2. /\ sock[c] \in SockRec /\ SocketOK(sock[c])
        /\ Serving(c) => sock[c].up # <<>> /\ sock[c].server # "none"
        /\ session \in Nat
    BY DEF Typed, Base, SocketsOK, Serving
  <1>. SUFFICES JoinedOK' /\ \A d \in Sockets : KeptSock(sock[d], sock'[d])
    <2>1. \A t \in Tabs : KeptDoc(tab[t], tab'[t])
      BY <1>1 DEF KeptDoc
    <2>. QED
      BY <1>0, <2>1, ServerKeeps
  <1>3. ASSUME UNCHANGED <<session, holders>>, NEW r, OnSock(c, r), KeptSock(sock[c], r),
               JoinSame(sock[c], r)
        PROVE  JoinedOK' /\ \A d \in Sockets : KeptSock(sock[d], sock'[d])
    BY <1>3, OneKept, OneSame
  <1>4. CASE AskObserver(c)
    <2>1. UNCHANGED <<session, holders>> /\ Serving(c)
      BY <1>4 DEF AskObserver, server
    <2>2. CASE ~sock[c].attached /\ session # 0 /\ OnSock(c, Join(Heard(sock[c]), session))
      <3>1. ~sock[c].joined
        BY <1>2, <2>2 DEF SocketOK
      <3>2. \A d \in Sockets : KeptSock(sock[d], sock'[d])
        BY <1>2, <2>1, <2>2, <3>1, OneKept, ServedOK
      <3>3. /\ sock'[c].joined /\ sock'[c].sess = session /\ sock'[c].role = sock[c].role
            /\ sock'[c].server = sock[c].server
        BY <1>2, <2>1, <2>2, HeardIs, JoinIs DEF OnSock, Alike
      <3>4. JoinedOK'
        BY <1>2, <2>1, <2>2, <3>1, <3>3 DEF Base, JoinedOK, OnSock, SocketOK
      <3>. QED
        BY <3>2, <3>4
    <2>. QED
      BY <1>2, <1>3, <1>4, <2>1, <2>2, AskObserverDoes, ServedOK
  <1>5. CASE AskEditor(c)
    BY <1>5, AskEditorKeeps
  <1>6. CASE SendBootstrap(c)
    <2>1. UNCHANGED <<session, holders>>
      BY <1>6 DEF SendBootstrap, server
    <2>2. KeptSock(sock[c], Unbooted(sock[c])) \/ ~sock[c].boot
      BY <1>2, UnbootedOK DEF KeptSock
    <2>3. KeptSock(sock[c], Booting(sock[c])) \/ ~sock[c].boot \/ ~Bootable(sock[c])
      BY <1>2, BootingOK DEF KeptSock
    <2>4. JoinSame(sock[c], Unbooted(sock[c])) /\ JoinSame(sock[c], Booting(sock[c]))
      BY <1>2, BootingIs DEF JoinSame
    <2>. QED
      BY <1>3, <1>6, <2>1, <2>2, <2>3, <2>4, SendBootstrapDoes
  <1>7. CASE EditArrives(c)
    <2>1. UNCHANGED <<session, holders>> /\ Serving(c)
      BY <1>7 DEF EditArrives
    <2>2. "stale" \in Codes
      BY DEF Codes
    <2>3. CASE /\ ~Dropped(c) /\ UpdateOf \in DownFrames /\ sock'[c] = Receipt(sock[c])
               /\ \A d \in Sockets \ {c} :
                    sock'[d] = IF sock[d].recipient THEN Sent(sock[d], UpdateOf) ELSE sock[d]
      <3>1. KeptSock(sock[c], sock'[c]) /\ JoinSame(sock[c], sock'[c])
        BY <1>2, <2>1, <2>3, ServedOK
      <3>2. ASSUME NEW d \in Sockets \ {c}
            PROVE  KeptSock(sock[d], sock'[d]) /\ JoinSame(sock[d], sock'[d])
        <4>1. sock[d] \in SockRec /\ SocketOK(sock[d])
          BY DEF Typed, Base, SocketsOK
        <4>2. CASE sock[d].recipient
          <5>1. sock[d].joined
            BY <4>1, <4>2 DEF SocketOK
          <5>2. sock[d].server = "open" => sock[d].sess = session
            BY <5>1 DEF Base, JoinedOK
          <5>3. UpdateOf.t = "update" /\ UpdateOf.s = session
            BY DEF UpdateOf
          <5> HIDE DEF UpdateOf
          <5>. QED
            BY <2>3, <4>1, <4>2, <5>1, <5>2, <5>3, NotServedOK
        <4>. QED
          BY <2>3, <4>1, <4>2, NotServedOK
      <3>3. \A d \in Sockets : KeptSock(sock[d], sock'[d]) /\ JoinSame(sock[d], sock'[d])
        BY <3>1, <3>2
      <3>. QED
        BY <2>1, <3>3, SameSockets
    <2>. QED
      BY <1>2, <1>3, <1>7, <2>1, <2>2, <2>3, EditArrivesDoes, ServedOK
  <1>8. CASE ReadyArrives(c)
    <2>1. UNCHANGED <<session, holders>> /\ Serving(c) /\ "stale" \in Codes
      BY <1>8 DEF ReadyArrives, Codes
    <2>. QED
      BY <1>2, <1>3, <1>8, <2>1, ReadyArrivesDoes, ServedOK
  <1>9. CASE SocketCloses(c)
    <2>1. Serving(c) /\ LastEditor(c) \in BOOLEAN
      BY <1>9 DEF SocketCloses, LastEditor
    <2>2. /\ KeptSock(sock[c], Gone(sock[c])) /\ KeptSock(sock[c], Off(sock[c], "leaving"))
          /\ JoinSame(sock[c], Gone(sock[c])) /\ JoinSame(sock[c], Off(sock[c], "leaving"))
      BY <1>2, <2>1, NotServedOK DEF Gone, JoinSame
    <2>3. CASE sock[c].role = "editor" /\ Leave(c, LastEditor(c))
      BY <1>2, <2>1, <2>3, LeaveKeeps
    <2>. QED
      BY <1>3, <1>9, <2>2, <2>3, SocketClosesDoes
  <1>10. CASE LastEditorLeaves(c)
    <2>1. sock[c].server = "leaving" /\ Leave(c, TRUE)
      BY <1>10 DEF LastEditorLeaves
    <2>. QED
      BY <1>2, <2>1, LeaveKeeps
  <1>. QED
    BY <1>4, <1>5, <1>6, <1>7, <1>8, <1>9, <1>10 DEF ServerStep

LEMMA CommonKeeps ==
    ASSUME Typed, Base,
           \/ PauseStart \/ PauseEnd \/ Lockdown
           \/ Invalidate("restore", "replaced") \/ Invalidate("delete", "deleted")
    PROVE  Base'
  <1>0. Wired'
    BY CommonWires DEF Base
  <1>1. UNCHANGED tab
    BY DEF PauseStart, PauseEnd, Lockdown, Invalidate
  <1>2. \A d \in Sockets : sock[d] \in SockRec /\ SocketOK(sock[d])
    BY DEF Typed, Base, SocketsOK
  <1>. SUFFICES JoinedOK' /\ \A d \in Sockets : KeptSock(sock[d], sock'[d])
    <2>1. \A t \in Tabs : KeptDoc(tab[t], tab'[t])
      BY <1>1 DEF KeptDoc
    <2>. QED
      BY <1>0, <2>1, ServerKeeps
  <1>3. CASE PauseStart
    <2>1. UNCHANGED <<session, holders>>
      BY <1>3 DEF PauseStart
    <2>2. [t |-> "start"] \in DownFrames /\ [t |-> "start"].t = "start"
      BY DownFramesAre
    <2>3. \A d \in Sockets : KeptSock(sock[d], sock'[d]) /\ JoinSame(sock[d], sock'[d])
      BY <1>2, <1>3, <2>2, PauseStartDoes, NotServedOK
    <2>. QED
      BY <2>1, <2>3, SameSockets
  <1>4. CASE PauseEnd
    <2>1. UNCHANGED <<session, holders>>
      BY <1>4 DEF PauseEnd
    <2>2. ASSUME NEW d \in Sockets
          PROVE  KeptSock(sock[d], sock'[d]) /\ JoinSame(sock[d], sock'[d])
      <3> DEFINE r == sock[d]
                 q == Ended(r)
      <3>1. [t |-> "end"] \in DownFrames /\ [t |-> "end"].t = "end"
        BY DownFramesAre
      <3>2. KeptSock(r, q) /\ JoinSame(r, q) /\ q \in SockRec /\ Alike(r, q)
        BY <1>2, <3>1, NotServedOK, SentIs DEF Ended
      <3>3. /\ ThawOf \in DownFrames /\ ThawOf.t = "update" /\ ThawOf.s = session
            /\ sock'[d] = IF q.recipient THEN Sent(q, ThawOf) ELSE q
        BY <1>4, PauseEndDoes DEF ThawOf
      <3>4. r.recipient => r.joined
        BY <1>2 DEF SocketOK
      <3>5. r.joined /\ r.server = "open" => r.sess = session
        BY DEF Base, JoinedOK
      <3> HIDE DEF r, q, ThawOf
      <3>6. q.recipient => KeptSock(q, Sent(q, ThawOf)) /\ Alike(q, Sent(q, ThawOf))
        <4>1. SUFFICES ASSUME q.recipient
                       PROVE  KeptSock(q, Sent(q, ThawOf)) /\ Alike(q, Sent(q, ThawOf))
          OBVIOUS
        <4>2. q \in SockRec /\ SocketOK(q)
          BY <3>2 DEF KeptSock
        <4>3. q.server = "open" => q.joined /\ q.sess = session
          BY <3>2, <3>4, <3>5, <4>1 DEF Alike
        <4>4. Alike(q, Sent(q, ThawOf))
          BY <3>3, <4>2, SentIs
        <4>5. KeptSock(q, Sent(q, ThawOf))
          BY <3>3, <4>1, <4>2, <4>3, NotServedOK
        <4>. QED
          BY <4>4, <4>5
      <3>7. KeptSock(r, sock'[d])
        BY <3>2, <3>3, <3>6 DEF KeptSock
      <3>8. Alike(r, sock'[d])
        BY <3>2, <3>3, <3>6 DEF Alike
      <3>. QED
        BY <3>7, <3>8, AlikeJoin DEF r
    <2>. QED
      BY <2>1, <2>2, SameSockets
  <1>5. ASSUME NEW code \in Codes, sock' = ShutAll(code)
        PROVE  \A d \in Sockets : KeptSock(sock[d], sock'[d]) /\ sock'[d].server # "open"
                                  /\ JoinSame(sock[d], sock'[d])
    BY <1>2, <1>5, ShutAllDoes, NotServedOK
  <1>6. CASE Lockdown
    <2>1. UNCHANGED <<session, holders>> /\ sock' = ShutAll("lockdown") /\ "lockdown" \in Codes
      BY <1>6 DEF Lockdown, server, Codes
    <2>. QED
      BY <1>5, <2>1, SameSockets
  <1>7. CASE session' = 0 /\ holders' = {}
             /\ \E code \in {"replaced", "deleted"} : sock' = ShutAll(code)
    <2>1. {"replaced", "deleted"} \subseteq Codes
      BY DEF Codes
    <2>. QED
      BY <1>5, <1>7, <2>1 DEF JoinedOK
  <1>. QED
    BY <1>3, <1>4, <1>6, <1>7 DEF Invalidate

LEMMA FaultKeeps ==
    ASSUME Typed, Base, NEW c \in Sockets, Drop(c) \/ TokenExpired(c)
    PROVE  Base'
  <1> DEFINE t == sock[c].owner
             r == sock[c]
             k == Faulted(tab[t])
  <1>0. Wired' /\ UNCHANGED <<session, holders>>
    <2>1. Wired'
      BY FaultWires DEF Base
    <2>. QED
      BY <2>1 DEF Drop, TokenExpired, server
  <1>1. t \in Tabs /\ r \in SockRec /\ SocketOK(r) /\ tab[t] \in PageRec
    BY DEF Drop, TokenExpired, Live, Serving, Base, SocketsOK, SocketOK, Wired, OwnerOK, Typed
  <1>2. k.socket = tab[t].socket /\ k.bound = tab[t].bound /\ k.prov = tab[t].prov
    BY <1>1 DEF Faulted, PageRec
  <1> HIDE DEF k
  <1>3. CASE Drop(c)
    <2>1. tab[t].socket = c /\ r.client \in Held
      BY <1>3 DEF Drop, Base, Wired, Known, Held
    <2>2. OnPage(t, k) /\ OnSock(c, Broken(r))
      BY <1>1, <1>3, DropDoes DEF k
    <2>3. SocketOK(Broken(r)) /\ Broken(r) \in SockRec /\ JoinSame(r, Broken(r))
      BY <1>1, <2>1, BrokenOK, BrokenIs, AlikeJoin
    <2>4. Link(k, Broken(r))
      BY <1>1, BrokenIs DEF Link
    <2>. QED
      BY <1>0, <1>1, <1>2, <2>1, <2>2, <2>3, <2>4, InPlaceKeeps DEF OwnSock
  <1>4. CASE TokenExpired(c)
    <2>1. Serving(c) /\ OnSock(c, Shut(Heard(r), "expired")) /\ OnPage(t, k)
      BY <1>1, <1>4, TokenExpiredDoes DEF k
    <2>2. "expired" \in Codes /\ r.up # <<>> /\ r.server # "none"
      BY <2>1 DEF Codes, Serving
    <2>3. KeptSock(r, Shut(Heard(r), "expired")) /\ JoinSame(r, Shut(Heard(r), "expired"))
      BY <1>1, <2>2, ServedOK
    <2>4. JoinedOK' /\ \A d \in Sockets : KeptSock(sock[d], sock'[d])
      BY <1>0, <2>1, <2>3, OneKept, OneSame
    <2>5. \A u \in Tabs : KeptDoc(tab[u], tab'[u])
      <3>1. \A u \in Tabs : KeptDoc(tab[u], tab[u])
        BY DEF KeptDoc
      <3>2. KeptDoc(tab[t], k)
        BY <1>2 DEF KeptDoc
      <3>. QED
        BY <2>1, <3>1, <3>2 DEF OnPage
    <2>. QED
      BY <1>0, <2>4, <2>5, ServerKeeps
  <1>. QED
    BY <1>3, <1>4

LEMMA BaseStep ==
    ASSUME "early" \notin Env, Typed, Base, [Next]_vars
    PROVE  Base'
  <1>1. CASE UNCHANGED vars
    BY <1>1 DEF vars, Base, Wired, OwnerOK, Owned, Known, EditorsOK, SocketsOK, JoinedOK, Linked,
                OwnSock
  <1>. QED
    BY <1>1, PageKeeps, ServerStepKeeps, CommonKeeps, FaultKeeps, NextIs

LEMMA WaitingSocketIs ==
    ASSUME NEW t \in Tabs
    PROVE  LET r == WaitingSocket(t) IN
           /\ r.owner = t /\ r.client = "open" /\ r.server = "open" /\ r.role = "observer"
           /\ r.attached /\ ~r.joined /\ ~r.boot /\ ~r.recipient /\ r.received = 0
           /\ r.up = <<>> /\ r.down = <<>> /\ r \in SockRec
  BY EmptyIs DEF WaitingSocket, Unused, SockRec, Held

LEMMA BaseInit ==
    ASSUME Init
    PROVE  Base
  <1>1. /\ Wired /\ session = 0 /\ holders = {}
        /\ \A t \in Tabs : \E w \in Nat, c \in Sockets :
              tab[t] = Page(c, w) /\ sock[c] = WaitingSocket(t)
        /\ \A c \in Sockets : sock[c] = Unused \/ \E t \in Tabs : sock[c] = WaitingSocket(t)
    BY InitIs
  <1>2. \A t \in Tabs : SocketOK(WaitingSocket(t)) /\ ~WaitingSocket(t).joined
                        /\ WaitingSocket(t).role = "observer"
    BY WaitingSocketIs, EmptyIs DEF SocketOK
  <1>3. SocketsOK
    BY <1>1, <1>2, UnusedOK DEF SocketsOK
  <1>4. JoinedOK
    BY <1>1, <1>2, UnusedIs DEF JoinedOK
  <1>5. Linked
    <2> SUFFICES ASSUME NEW t \in Tabs
                 PROVE  Link(tab[t], OwnSock(t))
      BY DEF Linked
    <2>1. PICK w \in Nat, c \in Sockets : tab[t] = Page(c, w) /\ sock[c] = WaitingSocket(t)
      BY <1>1
    <2>2. tab[t].socket = c /\ ~tab[t].prov.booted
      BY <2>1 DEF Page, Provider
    <2>3. DOMAIN OwnSock(t).down = {} /\ ~OwnSock(t).recipient
      BY <2>1, <2>2, WaitingSocketIs, EmptyIs DEF OwnSock
    <2>. QED
      BY <2>2, <2>3 DEF Link
  <1>. QED
    BY <1>1, <1>3, <1>4, <1>5 DEF Base

LEMMA BaseAlways ==
    ASSUME "early" \notin Env
    PROVE  Spec => [](Typed /\ Base)
  <1>1. Init => Typed /\ Base
    BY InitIs, BaseInit
  <1>2. Typed /\ Base /\ [Next]_vars => (Typed /\ Base)'
    BY WiredStep, BaseStep DEF Base
  <1>. QED
    BY <1>1, <1>2, PTL DEF Spec

(* adoptDisjointSessionBootstrap: no update ever meets a Y.Doc of another  *)
(* history, neither in a replica nor in the session of the server, as long *)
(* as no key is typed on a new connection before its bootstrap.            *)
THEOREM UpdatesMeetTheirHistory ==
    ASSUME "early" \notin Env
    PROVE  Spec => []OneHistory
  <1>1. Typed /\ Base => OneHistory
    <2> SUFFICES ASSUME Typed, Base
                 PROVE  OneHistory
      OBVIOUS
    <2>1. ASSUME NEW t \in Tabs, Incoming(t), Arriving(t).t = "update"
          PROVE  Arriving(t).s = tab[t].bound
      <3> DEFINE r == OwnSock(t)
      <3>1. /\ tab[t].socket # 0 /\ r \in SockRec /\ SocketOK(r) /\ r.client \in Held
            /\ Link(tab[t], r)
        BY <2>1, OwnSocketIs DEF Incoming
      <3>2. /\ r.down # <<>> /\ r.down[1] = Arriving(t) /\ 1 \in DOMAIN r.down
            /\ \A j \in DOMAIN r.down : ~(j < 1)
        BY <2>1, <3>1, SockRecIs, TailIs DEF Incoming, Arriving, OwnSock
      <3> HIDE DEF r
      <3>3. r.client = "open"
        BY <2>1, <3>1, <3>2 DEF SocketOK, Held
      <3>4. Told(tab[t], r)
        BY <2>1, <3>1, <3>2, <3>3 DEF Link
      <3>. QED
        BY <2>1, <3>1, <3>2, <3>4 DEF SocketOK, Told
    <2>2. ASSUME NEW c \in Sockets, Serving(c), Asks(c).t = "edit", IsCurrentSessionEditor(c)
          PROVE  Asks(c).s = session
      <3>1. sock[c] \in SockRec /\ SocketOK(sock[c]) /\ sock[c].up # <<>>
        BY <2>2 DEF Typed, Base, SocketsOK, Serving
      <3>2. 1 \in DOMAIN sock[c].up /\ Asks(c) = sock[c].up[1]
        BY <3>1, SockRecIs, TailIs DEF Asks
      <3>. QED
        BY <2>2, <3>1, <3>2 DEF SocketOK, IsCurrentSessionEditor
    <2>. QED
      BY <2>1, <2>2 DEF OneHistory
  <1>. QED
    BY <1>1, BaseAlways, PTL

-----------------------------------------------------------------------------
(* A promise to be quiet.                                                   *)
(*                                                                          *)
(* The sockets the pause has asked are editors' sockets.  While such a      *)
(* socket is open at both ends, the page has not heard that the pause is    *)
(* over; once it has heard that it began, its rows stay frozen, whatever    *)
(* state frames come; and nothing that was typed before ready was said is   *)
(* behind it on the channel.                                                *)
Asked == pause.waiting \cup pause.ready

Silent(q) == \A i, j \in DOMAIN q : q[i].t = "ready" /\ i < j => q[j].t # "edit"
SaidReady(q) == \E i \in DOMAIN q : q[i].t = "ready"
Frozen(m) == m.t \in {"boot", "update"} => m.mirror
Thawless(q) ==
  /\ \A j \in DOMAIN q : q[j].t # "end"
  /\ \A i, j \in DOMAIN q : q[i].t = "start" /\ i < j => q[j].t # "start" /\ Frozen(q[j])

(* The page behind an open socket.                                          *)
PageFrozen(r, k, ready) ==
  /\ Thawless(r.down)
  /\ ready \/ SaidReady(r.up) => k.prov.readySent /\ k.prov.pubPaused
  /\ k.prov.pubPaused => /\ k.paused
                         /\ \A j \in DOMAIN r.down : r.down[j].t # "start" /\ Frozen(r.down[j])
                         /\ k.prov.readySent => k.shown = 0

FreezeOK(r, k, ready) ==
  /\ Silent(r.up)
  /\ ready => \A i \in DOMAIN r.up : r.up[i].t # "edit"
  /\ r.client = "open" => PageFrozen(r, k, ready)

FreezeKept(c) == FreezeOK(sock[c], tab[sock[c].owner], c \in pause.ready)
AskedOK(r) == r.server \in {"open", "closing"} /\ r.role = "editor"

PauseInv ==
  /\ ~pause.on => Asked = {}
  /\ \A c \in Asked : AskedOK(sock[c])
  /\ \A c \in Asked : sock[c].server = "open" => FreezeKept(c)
  /\ \A t \in Tabs : tab[t].gen # 0

(* A frame of the server that freezes nothing and thaws nothing.            *)
Calm(m) == m.t \notin {"start", "end"} /\ Frozen(m)

SameFrozen(k, k2) ==
  /\ k2.prov.pubPaused = k.prov.pubPaused /\ k2.prov.readySent = k.prov.readySent
  /\ k2.paused = k.paused /\ k2.shown = k.shown /\ k2.gen = k.gen

(* What the server does to a socket.                                        *)
Serves(r, r2) ==
  /\ r2 \in SockRec /\ r2.owner = r.owner /\ r2.client = r.client
  /\ r2.up = r.up \/ (r.up # <<>> /\ r2.up = Tail(r.up))
  /\ r2.down = r.down \/ \E m \in DownFrames : Calm(m) /\ r2.down = Append(r.down, m)
  /\ r2.server = r.server \/ (r.server = "open" /\ r2.server = "closing")
  /\ r.role = "editor" => r2.role = "editor"

(* Taking the first frame off a channel leaves nothing behind a ready.      *)
LEMMA TailSilent ==
    ASSUME NEW r \in SockRec, r.up # <<>>, Silent(r.up)
    PROVE  /\ Silent(Tail(r.up))
           /\ SaidReady(Tail(r.up)) => SaidReady(r.up)
           /\ (\A i \in DOMAIN r.up : r.up[i].t # "edit")
                => \A i \in DOMAIN Tail(r.up) : Tail(r.up)[i].t # "edit"
           /\ r.up[1].t = "ready" => /\ \A i \in DOMAIN Tail(r.up) : Tail(r.up)[i].t # "edit"
                                     /\ SaidReady(r.up)
  <1>1. r.up \in Seq(UpFrames)
    BY SockRecIs
  <1>2. /\ Len(r.up) \in Nat /\ Len(r.up) > 0 /\ DOMAIN r.up = 1 .. Len(r.up)
        /\ DOMAIN Tail(r.up) = 1 .. Len(r.up) - 1
        /\ \A i \in 1 .. Len(r.up) - 1 : Tail(r.up)[i] = r.up[i + 1]
    BY <1>1, TailIs
  <1>3. ASSUME NEW i \in DOMAIN Tail(r.up)
        PROVE  i + 1 \in DOMAIN r.up /\ Tail(r.up)[i] = r.up[i + 1] /\ 1 < i + 1 /\ 1 \in DOMAIN r.up
    BY <1>2
  <1>4. Silent(Tail(r.up))
    <2> SUFFICES ASSUME NEW i \in DOMAIN Tail(r.up), NEW j \in DOMAIN Tail(r.up),
                        Tail(r.up)[i].t = "ready", i < j
                 PROVE  Tail(r.up)[j].t # "edit"
      BY DEF Silent
    <2>1. i + 1 < j + 1
      BY <1>2
    <2>. QED
      BY <1>3, <2>1 DEF Silent
  <1>5. SaidReady(Tail(r.up)) => SaidReady(r.up)
    BY <1>3 DEF SaidReady
  <1>6. ASSUME r.up[1].t = "ready"
        PROVE  (\A i \in DOMAIN Tail(r.up) : Tail(r.up)[i].t # "edit") /\ SaidReady(r.up)
    <2>1. 1 \in DOMAIN r.up
      BY <1>2
    <2>. QED
      BY <1>3, <1>6, <2>1 DEF Silent, SaidReady
  <1>. QED
    BY <1>3, <1>4, <1>5, <1>6

(* A calm frame changes nothing for a frozen page.                          *)
LEMMA CalmKeeps ==
    ASSUME NEW q \in Seq(DownFrames), NEW m \in DownFrames, Calm(m), Thawless(q)
    PROVE  /\ Thawless(Append(q, m))
           /\ (\A j \in DOMAIN q : q[j].t # "start" /\ Frozen(q[j]))
                => \A j \in DOMAIN Append(q, m) : /\ Append(q, m)[j].t # "start"
                                                  /\ Frozen(Append(q, m)[j])
  <1>1. /\ DOMAIN q = 1 .. Len(q) /\ Len(q) \in Nat /\ DOMAIN Append(q, m) = 1 .. Len(q) + 1
        /\ \A i \in 1 .. Len(q) : Append(q, m)[i] = q[i]
        /\ Append(q, m)[Len(q) + 1] = m
    BY AppendIs
  <1>2. \A j \in DOMAIN Append(q, m) : \/ j \in DOMAIN q /\ Append(q, m)[j] = q[j]
                                       \/ j = Len(q) + 1 /\ Append(q, m)[j] = m
    BY <1>1
  <1>3. \A i \in DOMAIN Append(q, m) : \A j \in DOMAIN Append(q, m) :
           Append(q, m)[i].t = "start" /\ i < j => /\ Append(q, m)[j].t # "start"
                                                   /\ Frozen(Append(q, m)[j])
    <2> SUFFICES ASSUME NEW i \in DOMAIN Append(q, m), NEW j \in DOMAIN Append(q, m),
                        Append(q, m)[i].t = "start", i < j
                 PROVE  Append(q, m)[j].t # "start" /\ Frozen(Append(q, m)[j])
      OBVIOUS
    <2>1. i \in DOMAIN q /\ Append(q, m)[i] = q[i]
      BY <1>1, <1>2
    <2>. QED
      BY <1>2, <2>1 DEF Thawless, Calm
  <1>4. \A j \in DOMAIN Append(q, m) : Append(q, m)[j].t # "end"
    BY <1>2 DEF Thawless, Calm
  <1>. QED
    BY <1>2, <1>3, <1>4 DEF Thawless, Calm

(* The server keeps a freeze.                                               *)
LEMMA ServesFreeze ==
    ASSUME NEW r \in SockRec, NEW r2, Serves(r, r2), NEW k, NEW k2, SameFrozen(k, k2),
           NEW ready \in BOOLEAN, NEW ready2 \in BOOLEAN, ready2 => ready,
           FreezeOK(r, k, ready)
    PROVE  FreezeOK(r2, k2, ready2)
  <1>1. /\ Silent(r2.up)
        /\ SaidReady(r2.up) => SaidReady(r.up)
        /\ ready2 => \A i \in DOMAIN r2.up : r2.up[i].t # "edit"
    BY TailSilent DEF Serves, FreezeOK
  <1>2. ASSUME r2.client = "open"
        PROVE  PageFrozen(r2, k2, ready2)
    <2>1. PageFrozen(r, k, ready)
      BY <1>2 DEF Serves, FreezeOK
    <2>2. r.down \in Seq(DownFrames)
      BY SockRecIs
    <2>3. Thawless(r2.down)
      BY <2>1, <2>2, CalmKeeps DEF PageFrozen, Serves
    <2>4. ready2 \/ SaidReady(r2.up) => k2.prov.readySent /\ k2.prov.pubPaused
      BY <1>1, <2>1 DEF PageFrozen, SameFrozen
    <2>5. k2.prov.pubPaused =>
            /\ k2.paused /\ (k2.prov.readySent => k2.shown = 0)
            /\ \A j \in DOMAIN r.down : r.down[j].t # "start" /\ Frozen(r.down[j])
      BY <2>1 DEF PageFrozen, SameFrozen
    <2>6. k2.prov.pubPaused =>
            \A j \in DOMAIN r2.down : r2.down[j].t # "start" /\ Frozen(r2.down[j])
      BY <2>1, <2>2, <2>5, CalmKeeps DEF PageFrozen, Serves
    <2>. QED
      BY <2>3, <2>4, <2>5, <2>6 DEF PageFrozen
  <1>. QED
    BY <1>1, <1>2 DEF FreezeOK

(* A step of the server keeps the freeze of those it still waits for, and
   of those that are ready.                                                 *)
LEMMA ServesAll ==
    ASSUME Typed, Wired, PauseInv, pause'.on = pause.on,
           Asked' \subseteq Asked, pause'.ready \subseteq pause.ready,
           \A t \in Tabs : SameFrozen(tab[t], tab'[t]),
           \A c \in Asked' : Serves(sock[c], sock'[c])
    PROVE  PauseInv'
  <1>1. Asked \subseteq Sockets
    BY DEF Typed, PauseRec, Asked
  <1>2. ~pause'.on => Asked' = {}
    BY DEF PauseInv
  <1>3. \A c \in Asked' : AskedOK(sock'[c])
    BY DEF PauseInv, AskedOK, Serves
  <1>4. ASSUME NEW c \in Asked', sock'[c].server = "open"
        PROVE  FreezeOK(sock'[c], tab'[sock'[c].owner], c \in pause'.ready)
    <2>1. c \in Sockets /\ c \in Asked /\ sock[c] \in SockRec /\ Serves(sock[c], sock'[c])
      BY <1>1 DEF Typed
    <2>2. sock[c].server = "open" /\ sock'[c].owner = sock[c].owner
      BY <1>4, <2>1 DEF Serves
    <2>3. sock[c].owner \in Tabs
      BY <2>1, <2>2 DEF Wired, OwnerOK
    <2>4. FreezeOK(sock[c], tab[sock[c].owner], c \in pause.ready)
      BY <2>1, <2>2 DEF PauseInv, FreezeKept
    <2>5. SameFrozen(tab[sock[c].owner], tab'[sock[c].owner])
      BY <2>3
    <2> DEFINE r == sock[c]
               r2 == sock'[c]
               k == tab[sock[c].owner]
               k2 == tab'[sock[c].owner]
               ready == c \in pause.ready
               ready2 == c \in pause'.ready
    <2>6. ready \in BOOLEAN /\ ready2 \in BOOLEAN /\ (ready2 => ready)
      OBVIOUS
    <2>7. r \in SockRec /\ Serves(r, r2) /\ FreezeOK(r, k, ready) /\ SameFrozen(k, k2)
      BY <2>1, <2>4, <2>5
    <2>8. r2.owner = r.owner
      BY <2>2
    <2> HIDE DEF r, r2, k, k2, ready, ready2
    <2>9. FreezeOK(r2, k2, ready2)
      BY <2>6, <2>7, ServesFreeze
    <2>. QED
      BY <2>8, <2>9 DEF r, r2, k2, ready2
  <1>5. \A t \in Tabs : tab'[t].gen # 0
    BY DEF PauseInv, SameFrozen
  <1>6. \A c \in Asked' : sock'[c].server = "open" => FreezeKept(c)'
    BY <1>4 DEF FreezeKept
  <1>. QED
    BY <1>2, <1>3, <1>5, <1>6 DEF PauseInv

(* What the server's helpers do.                                            *)
LEMMA HelpersServe ==
    ASSUME NEW r \in SockRec
    PROVE  /\ Serves(r, r)
           /\ \A m \in DownFrames : Calm(m) => Serves(r, Sent(r, m))
           /\ \A code \in Codes : Serves(r, Shut(r, code))
           /\ \A s \in Nat : Serves(r, Join(r, s))
           /\ r.up # <<>> =>
                /\ Serves(r, Heard(r)) /\ Serves(r, Attach(Heard(r))) /\ Serves(r, Receipt(r))
                /\ \A s \in Nat : Serves(r, Join(Heard(r), s)) /\ Serves(r, JoinEditor(Heard(r), s))
                /\ \A code \in Codes : Serves(r, Shut(Heard(r), code))
  <1>1. Serves(r, r)
    BY DEF Serves
  <1>2. \A m \in DownFrames : Calm(m) => Serves(r, Sent(r, m))
    BY SentIs DEF Serves, Alike
  <1>3. ASSUME NEW code \in Codes
        PROVE  /\ [t |-> "close", code |-> code] \in DownFrames
               /\ Calm([t |-> "close", code |-> code])
    BY DownFramesAre DEF Calm, Frozen
  <1>4. ASSUME NEW q \in SockRec, NEW code \in Codes,
               q.owner = r.owner, q.client = r.client, q.down = r.down, q.server = r.server,
               q.role = r.role, q.up = r.up \/ (r.up # <<>> /\ q.up = Tail(r.up))
        PROVE  Serves(r, Shut(q, code))
    <2>1. /\ Shut(q, code) \in SockRec /\ Shut(q, code).owner = r.owner
          /\ Shut(q, code).client = r.client /\ Shut(q, code).role = r.role
          /\ Shut(q, code).up = q.up
      <3>1. Shut(q, code) \in SockRec /\ Shut(q, code).owner = q.owner
        BY ShutIs
      <3>2. Shut(q, code).client = q.client /\ Shut(q, code).role = q.role
        BY ShutIs
      <3>3. Shut(q, code).up = q.up
        BY ShutIs
      <3>. QED
        BY <1>4, <3>1, <3>2, <3>3
    <2>2. CASE q.server = "open"
      <3>1. /\ Shut(q, code).server = "closing"
            /\ Shut(q, code).down = Append(r.down, [t |-> "close", code |-> code])
        BY <1>4, <2>2, ShutIs
      <3>. QED
        BY <1>3, <1>4, <2>1, <2>2, <3>1 DEF Serves
    <2>3. CASE q.server # "open"
      <3>1. Shut(q, code).server = r.server /\ Shut(q, code).down = r.down
        BY <1>4, <2>3, ShutIs
      <3>. QED
        BY <1>4, <2>1, <3>1 DEF Serves
    <2>. QED
      BY <2>2, <2>3
  <1>5. \A s \in Nat : Serves(r, Join(r, s))
    BY JoinIs DEF Serves
  <1>6. ASSUME r.up # <<>>
        PROVE  /\ Serves(r, Heard(r)) /\ Serves(r, Attach(Heard(r))) /\ Serves(r, Receipt(r))
               /\ \A s \in Nat : Serves(r, Join(Heard(r), s)) /\ Serves(r, JoinEditor(Heard(r), s))
               /\ \A code \in Codes : Serves(r, Shut(Heard(r), code))
    <2>1. /\ Heard(r) \in SockRec /\ Alike(r, Heard(r)) /\ Heard(r).client = r.client
          /\ Heard(r).up = Tail(r.up) /\ Heard(r).down = r.down
      BY <1>6, HeardIs
    <2>2. Serves(r, Heard(r))
      BY <1>6, <2>1 DEF Serves, Alike
    <2> HIDE DEF Heard
    <2>3. Serves(r, Attach(Heard(r)))
      BY <1>6, <2>1, AttachIs DEF Serves, Alike
    <2>4. Serves(r, Receipt(r))
      <3>1. Calm(AckOf(r)) /\ AckOf(r) \in DownFrames
        BY <1>6, ReceiptIs DEF AckOf, Calm, Frozen
      <3>. QED
        BY <1>6, <3>1, ReceiptIs DEF Serves
    <2>5. ASSUME NEW s \in Nat
          PROVE  Serves(r, Join(Heard(r), s)) /\ Serves(r, JoinEditor(Heard(r), s))
      <3>1. PICK q \in SockRec : /\ q = Heard(r) /\ Alike(r, q) /\ q.client = r.client
                                 /\ q.up = Tail(r.up) /\ q.down = r.down
        BY <2>1
      <3>2. Serves(r, Join(q, s))
        BY <1>6, <3>1, JoinIs DEF Serves, Alike
      <3>3. Serves(r, JoinEditor(q, s))
        BY <1>6, <3>1, JoinEditorIs DEF Serves, Alike
      <3>. QED
        BY <3>1, <3>2, <3>3
    <2>6. \A code \in Codes : Serves(r, Shut(Heard(r), code))
      BY <1>4, <1>6, <2>1 DEF Alike
    <2>. QED
      BY <2>2, <2>3, <2>4, <2>5, <2>6
  <1>7. \A code \in Codes : Serves(r, Shut(r, code))
    BY <1>4
  <1>. QED
    BY <1>1, <1>2, <1>5, <1>6, <1>7

LEMMA BootServes ==
    ASSUME Typed, NEW r \in SockRec
    PROVE  /\ Serves(r, Unbooted(r))
           /\ Bootable(r) /\ pause.on => Serves(r, Booting(r))
  <1>1. Serves(r, Unbooted(r))
    BY BootingIs DEF Serves
  <1>2. pause.on => Calm(BootOf) /\ BootOf \in DownFrames
    BY BootingIs DEF BootOf, Calm, Frozen
  <1>. QED
    BY <1>1, <1>2, BootingIs DEF Serves, Bootable

(* One socket is served, no other socket moves.                             *)
LEMMA OneServes ==
    ASSUME Typed, NEW c \in Sockets, NEW r, OnSock(c, r), Serves(sock[c], r)
    PROVE  \A d \in Sockets : Serves(sock[d], sock'[d])
  <1>1. \A d \in Sockets : Serves(sock[d], sock[d])
    BY HelpersServe DEF Typed
  <1>. QED
    BY <1>1 DEF OnSock

(* A page whose socket is taken off the server.                             *)
LEMMA LeaveServes ==
    ASSUME Typed, Wired, PauseInv, NEW c \in Sockets, NEW last \in BOOLEAN, Leave(c, last),
           sock[c].role = "observer" => sock[c].server # "open",
           pause'.on = pause.on, Asked' \subseteq Asked \ {c}, pause'.ready \subseteq pause.ready,
           UNCHANGED tab
    PROVE  PauseInv'
  <1>1. \A d \in Asked' : Serves(sock[d], sock'[d])
    <2> SUFFICES ASSUME NEW d \in Asked'
                 PROVE  Serves(sock[d], sock'[d])
      OBVIOUS
    <2>1. d \in Sockets \ {c} /\ sock[d] \in SockRec /\ "ended" \in Codes
      BY DEF Typed, PauseRec, Asked, Codes
    <2>. QED
      BY <2>1, LeaveDoes, HelpersServe
  <1>2. \A t \in Tabs : SameFrozen(tab[t], tab'[t])
    BY DEF SameFrozen
  <1>. QED
    BY <1>1, <1>2, ServesAll

(* The ready frame arrives: nothing was typed behind it.                    *)
LEMMA ReadyArrivesKept ==
    ASSUME Typed, Wired, PauseInv, NEW c \in Sockets, ReadyArrives(c)
    PROVE  PauseInv'
  <1>1. UNCHANGED tab
    BY DEF ReadyArrives
  <1>2. \A t \in Tabs : SameFrozen(tab[t], tab'[t])
    BY <1>1 DEF SameFrozen
  <1>3. /\ Serving(c) /\ Asks(c).t = "ready"
        /\ sock[c] \in SockRec /\ sock[c].up # <<>> /\ Asks(c) = sock[c].up[1]
    BY ReadyArrivesDoes, HandledIs DEF Typed
  <1>4. \A d \in Sockets : Serves(sock[d], sock'[d])
    <2>1. "stale" \in Codes
      BY DEF Codes
    <2>2. \A r : OnSock(c, r) /\ Serves(sock[c], r) => \A d \in Sockets : Serves(sock[d], sock'[d])
      BY OneServes
    <2>. QED
      BY <1>3, <2>1, <2>2, ReadyArrivesDoes, HelpersServe
  <1>5. Asked \subseteq Sockets
    BY DEF Typed, PauseRec, Asked
  <1>6. CASE UNCHANGED pause
    BY <1>2, <1>4, <1>5, <1>6, ServesAll DEF Asked
  <1>7. CASE /\ c \in pause.waiting /\ pause.on /\ OnSock(c, Heard(sock[c]))
             /\ pause' = [pause EXCEPT !.waiting = @ \ {c}, !.ready = @ \cup {c}]
    <2>1. /\ pause'.on = pause.on /\ pause'.ready = pause.ready \cup {c}
          /\ pause'.waiting = pause.waiting \ {c} /\ Asked' = Asked
      BY <1>7 DEF Typed, PauseRec, Asked
    <2>2. ASSUME NEW d \in Asked, sock'[d].server = "open"
          PROVE  FreezeOK(sock'[d], tab'[sock'[d].owner], d \in pause'.ready)
      <3> DEFINE r == sock[d]
                 r2 == sock'[d]
                 k == tab[sock[d].owner]
                 k2 == tab'[sock[d].owner]
                 ready == d \in pause.ready
                 ready2 == d \in pause'.ready
      <3>1. r \in SockRec /\ Serves(r, r2)
        BY <1>4, <1>5 DEF Typed
      <3>2. r.server = "open" /\ r2.owner = r.owner
        BY <2>2, <3>1 DEF Serves
      <3>3. FreezeOK(r, k, ready)
        BY <3>2 DEF PauseInv, FreezeKept
      <3>4. k2 = k /\ SameFrozen(k, k2)
        BY <1>1 DEF SameFrozen
      <3>5. ready \in BOOLEAN /\ ready2 \in BOOLEAN
        OBVIOUS
      <3>6. d # c => (ready2 => ready)
        BY <2>1
      <3>7. d = c => ready2 = TRUE /\ r2 = Heard(r) /\ r.up[1].t = "ready" /\ r.up # <<>>
        BY <1>3, <1>7, <2>1 DEF OnSock
      <3> HIDE DEF r, r2, k, k2, ready, ready2
      <3>8. ASSUME d # c PROVE FreezeOK(r2, k2, ready2)
        BY <3>1, <3>3, <3>4, <3>5, <3>6, <3>8, ServesFreeze
      <3>9. ASSUME d = c PROVE FreezeOK(r2, k2, ready2)
        <4>1. Heard(r).up = Tail(r.up) /\ Heard(r).down = r.down /\ Heard(r).client = r.client
          BY <3>1, <3>7, <3>9, HeardIs
        <4>2. /\ Silent(r.up) /\ Silent(Tail(r.up)) /\ SaidReady(r.up)
              /\ \A i \in DOMAIN Tail(r.up) : Tail(r.up)[i].t # "edit"
          BY <3>1, <3>3, <3>7, <3>9, TailSilent DEF FreezeOK
        <4>3. r.client = "open" => PageFrozen(r, k, ready)
          BY <3>3 DEF FreezeOK
        <4>4. r.client = "open" => PageFrozen(Heard(r), k, TRUE)
          BY <4>1, <4>2, <4>3 DEF PageFrozen
        <4>5. FreezeOK(Heard(r), k, TRUE)
          BY <4>1, <4>2, <4>4 DEF FreezeOK
        <4>6. FreezeOK(r2, k2, TRUE)
          BY <3>4, <3>7, <3>9, <4>5
        <4>. QED
          BY <3>7, <3>9, <4>6 DEF FreezeOK
      <3>10. FreezeOK(r2, k2, ready2)
        BY <3>8, <3>9
      <3>. QED
        BY <3>2, <3>10 DEF r, r2, k2, ready2
    <2>3. \A d \in Asked' : AskedOK(sock'[d])
      BY <1>4, <1>5, <2>1 DEF PauseInv, AskedOK, Serves
    <2>4. \A d \in Asked' : sock'[d].server = "open" => FreezeKept(d)'
      BY <2>1, <2>2 DEF FreezeKept
    <2>. QED
      BY <1>1, <2>1, <2>3, <2>4 DEF PauseInv
  <1>. QED
    BY <1>6, <1>7, ReadyArrivesDoes

LEMMA ServerQuiet ==
    ASSUME Typed, Wired, PauseInv, NEW c \in Sockets, ServerStep(c)
    PROVE  PauseInv'
  <1>0. /\ \A d \in Sockets : sock[d] \in SockRec
        /\ Asked \subseteq Sockets /\ pause.on \in BOOLEAN /\ pause \in PauseRec
        /\ Asked # {} => pause.on
    BY DEF Typed, PauseRec, Asked, PauseInv
  <1>1. UNCHANGED tab
    BY DEF ServerStep, AskObserver, AskEditor, SendBootstrap, EditArrives, ReadyArrives,
           SocketCloses, LastEditorLeaves
  <1>2. \A t \in Tabs : SameFrozen(tab[t], tab'[t])
    BY <1>1 DEF SameFrozen
  <1>3. ASSUME UNCHANGED pause, \A d \in Asked : Serves(sock[d], sock'[d])
        PROVE  PauseInv'
    <2>1. pause'.on = pause.on /\ Asked' = Asked /\ pause'.ready = pause.ready
      BY <1>3 DEF Asked
    <2>. QED
      BY <1>2, <1>3, <2>1, ServesAll
  <1>4. CASE ReadyArrives(c)
    BY <1>4, ReadyArrivesKept
  <1>5. CASE AskObserver(c)
    <2>1. sock[c] \in SockRec /\ sock[c].up # <<>> /\ UNCHANGED pause /\ session \in Nat
      BY <1>0, <1>5, AskObserverDoes, HandledIs DEF AskObserver, server, Typed
    <2>2. \E r : OnSock(c, r) /\ Serves(sock[c], r)
      BY <1>5, <2>1, AskObserverDoes, HelpersServe
    <2>. QED
      BY <1>0, <1>3, <2>1, <2>2, OneServes
  <1>6. CASE AskEditor(c)
    <2>1. sock[c].up # <<>> /\ UNCHANGED pause /\ JoinedBy \in Nat /\ "superseded" \in Codes
      BY <1>6, AskEditorDoes, HandledIs DEF AskEditor, Codes
    <2>2. CASE OnSock(c, Heard(sock[c]))
      BY <1>0, <1>3, <2>1, <2>2, HelpersServe, OneServes
    <2>3. CASE /\ sock'[c] = JoinEditor(Heard(sock[c]), JoinedBy)
               /\ \A d \in Sockets \ {c} :
                    \/ sock'[d] = Shut(sock[d], "superseded")
                    \/ sock'[d] = Join(sock[d], JoinedBy)
                    \/ sock'[d] = sock[d]
      <3>1. \A d \in Sockets : Serves(sock[d], sock'[d])
        BY <1>0, <2>1, <2>3, HelpersServe
      <3>. QED
        BY <1>0, <1>3, <2>1, <3>1
    <2>. QED
      BY <1>6, <2>2, <2>3, AskEditorDoes
  <1>7. CASE SendBootstrap(c)
    <2>1. UNCHANGED pause
      BY <1>7 DEF SendBootstrap, server
    <2>2. CASE OnSock(c, Unbooted(sock[c]))
      BY <1>0, <1>3, <2>1, <2>2, BootServes, OneServes
    <2>3. CASE Bootable(sock[c]) /\ OnSock(c, Booting(sock[c]))
      <3>1. pause.on => Serves(sock[c], Booting(sock[c]))
        BY <1>0, <2>3, BootServes
      <3>2. pause.on => \A d \in Sockets : Serves(sock[d], sock'[d])
        BY <2>3, <3>1, OneServes
      <3>. QED
        BY <1>0, <1>3, <2>1, <3>2
    <2>. QED
      BY <1>7, <2>2, <2>3, SendBootstrapDoes
  <1>8. CASE EditArrives(c)
    <2>1. sock[c].up # <<>> /\ UNCHANGED pause /\ "stale" \in Codes
      BY <1>8, EditArrivesDoes, HandledIs DEF EditArrives, Codes
    <2>2. CASE OnSock(c, Heard(sock[c])) \/ OnSock(c, Shut(Heard(sock[c]), "stale"))
      BY <1>0, <1>3, <2>1, <2>2, HelpersServe, OneServes
    <2>3. CASE /\ UpdateOf \in DownFrames /\ sock'[c] = Receipt(sock[c])
               /\ \A d \in Sockets \ {c} :
                    sock'[d] = IF sock[d].recipient THEN Sent(sock[d], UpdateOf) ELSE sock[d]
      <3>1. pause.on => Calm(UpdateOf)
        BY DEF UpdateOf, Calm, Frozen
      <3>2. pause.on => \A d \in Sockets : Serves(sock[d], sock'[d])
        BY <1>0, <2>1, <2>3, <3>1, HelpersServe
      <3>. QED
        BY <1>0, <1>3, <2>1, <3>2
    <2>. QED
      BY <1>8, <2>2, <2>3, EditArrivesDoes
  <1>9. CASE SocketCloses(c)
    <2>1. CASE sock[c].role = "observer" /\ OnSock(c, Gone(sock[c])) /\ UNCHANGED pause
      <3>1. \A d \in Asked : d # c
        BY <2>1 DEF PauseInv, AskedOK
      <3>2. \A d \in Asked : Serves(sock[d], sock'[d])
        BY <1>0, <2>1, <3>1, HelpersServe DEF OnSock
      <3>. QED
        BY <1>3, <2>1, <3>2
    <2>2. CASE sock[c].role = "editor" /\ pause' = SocketGone(c)
      <3>1. /\ pause'.on = pause.on /\ Asked' = Asked \ {c} /\ pause'.ready \subseteq pause.ready
            /\ Asked' \subseteq Asked /\ Asked' \subseteq Sockets \ {c}
        BY <1>0, <2>2, SocketGoneIs DEF Asked
      <3>2. CASE OnSock(c, Off(sock[c], "leaving"))
        <4>1. \A d \in Asked' : Serves(sock[d], sock'[d])
          BY <1>0, <3>1, <3>2, HelpersServe DEF OnSock
        <4>. QED
          BY <1>2, <3>1, <4>1, ServesAll
      <3>3. CASE Leave(c, LastEditor(c))
        <4>1. LastEditor(c) \in BOOLEAN /\ sock[c].role # "observer"
          BY <2>2 DEF LastEditor
        <4>. QED
          BY <1>1, <3>1, <3>3, <4>1, LeaveServes
      <3>. QED
        BY <1>9, <2>2, <3>2, <3>3, SocketClosesDoes
    <2>. QED
      BY <1>9, <2>1, <2>2, SocketClosesDoes
  <1>10. CASE LastEditorLeaves(c)
    <2>1. ~pause.on /\ UNCHANGED pause
      BY <1>10 DEF LastEditorLeaves
    <2>. QED
      BY <1>0, <1>3, <2>1
  <1>. QED
    BY <1>4, <1>5, <1>6, <1>7, <1>8, <1>9, <1>10 DEF ServerStep

(* The frames of the last pause have been handled when the next one begins. *)
Drained ==
  \A c \in Sockets : LiveEditor(c) =>
     /\ \A i \in DOMAIN sock[c].up : sock[c].up[i].t # "ready"
     /\ sock[c].client = "open" =>
          /\ \A i \in DOMAIN sock[c].down : sock[c].down[i].t \notin {"start", "end"}
          /\ ~tab[sock[c].owner].prov.pubPaused

(* A pause begins, and asks the editors.                                    *)
LEMMA StartQuiet ==
    ASSUME Typed, Wired, PauseInv, PauseStart, Drained
    PROVE  PauseInv'
  <1>1. /\ pause'.on /\ pause'.ready = {} /\ Asked' = {c \in Sockets : LiveEditor(c)}
        /\ \A d \in Sockets : sock'[d] = Sent(sock[d], [t |-> "start"])
        /\ UNCHANGED tab
    BY PauseStartDoes DEF Asked, PauseStart
  <1>2. [t |-> "start"] \in DownFrames /\ [t |-> "start"].t = "start"
    BY DownFramesAre
  <1>3. ASSUME NEW c \in Asked'
        PROVE  AskedOK(sock'[c]) /\ FreezeOK(sock'[c], tab'[sock'[c].owner], FALSE)
    <2> DEFINE r == sock[c]
               k == tab[r.owner]
               m == [t |-> "start"]
    <2>1. c \in Sockets /\ r \in SockRec /\ r.server = "open" /\ r.role = "editor" /\ LiveEditor(c)
      BY <1>1, <1>3 DEF LiveEditor, Live, Typed
    <2>2. /\ Alike(r, sock'[c]) /\ sock'[c].client = r.client /\ sock'[c].up = r.up
          /\ sock'[c].down = Append(r.down, m)
      BY <1>1, <1>2, <2>1, SentIs
    <2>3. /\ \A i \in DOMAIN r.up : r.up[i].t # "ready"
          /\ r.client = "open" => /\ \A i \in DOMAIN r.down : r.down[i].t \notin {"start", "end"}
                                  /\ ~k.prov.pubPaused
      BY <2>1 DEF Drained
    <2>4. r.down \in Seq(DownFrames)
      BY <2>1, SockRecIs
    <2> HIDE DEF r, k, m
    <2>5. r.client = "open" => Thawless(Append(r.down, m))
      <3> SUFFICES ASSUME r.client = "open" PROVE Thawless(Append(r.down, m))
        OBVIOUS
      <3> DEFINE q == r.down
                 q2 == Append(q, m)
      <3>1. /\ DOMAIN q = 1 .. Len(q) /\ Len(q) \in Nat /\ DOMAIN q2 = 1 .. Len(q) + 1
            /\ \A i \in 1 .. Len(q) : q2[i] = q[i]
            /\ q2[Len(q) + 1] = m /\ m.t = "start"
        BY <1>2, <2>4, AppendIs DEF m
      <3> HIDE DEF q, q2
      <3>2. \A i \in DOMAIN q2 : \/ i \in DOMAIN q /\ q2[i] = q[i]
                                 \/ i = Len(q) + 1 /\ q2[i] = m
        BY <3>1
      <3>3. \A i \in DOMAIN q2 : q2[i].t # "end" /\ (q2[i].t = "start" => i = Len(q) + 1)
        BY <2>3, <3>1, <3>2 DEF q
      <3>4. \A i, j \in DOMAIN q2 : q2[i].t = "start" => ~(i < j)
        BY <3>1, <3>3
      <3>. QED
        BY <3>3, <3>4 DEF Thawless, q2, q
    <2>6. Silent(r.up) /\ ~SaidReady(r.up)
      BY <2>3 DEF Silent, SaidReady
    <2>7. FreezeOK(sock'[c], k, FALSE)
      BY <2>2, <2>3, <2>5, <2>6 DEF FreezeOK, PageFrozen
    <2>8. tab'[sock'[c].owner] = k
      BY <1>1, <2>2 DEF k, r, Alike
    <2>9. AskedOK(sock'[c])
      BY <2>1, <2>2 DEF AskedOK, Alike
    <2>. QED
      BY <2>7, <2>8, <2>9
  <1>4. \A c \in Asked' : FreezeKept(c)'
    <2> SUFFICES ASSUME NEW c \in Asked' PROVE FreezeKept(c)'
      OBVIOUS
    <2>1. (c \in pause'.ready) = FALSE
      BY <1>1
    <2>2. FreezeOK(sock'[c], tab'[sock'[c].owner], FALSE)
      BY <1>3
    <2>. QED
      BY <2>1, <2>2 DEF FreezeKept, FreezeOK, PageFrozen
  <1>. QED
    BY <1>1, <1>3, <1>4 DEF PauseInv

LEMMA CommonQuiet ==
    ASSUME Typed, Wired, PauseInv, PauseStart => Drained,
           \/ PauseStart \/ PauseEnd \/ Lockdown
           \/ Invalidate("restore", "replaced") \/ Invalidate("delete", "deleted")
    PROVE  PauseInv'
  <1>1. CASE PauseStart
    BY <1>1, StartQuiet
  <1>2. UNCHANGED tab /\ \A t \in Tabs : SameFrozen(tab[t], tab'[t])
    BY DEF SameFrozen, PauseStart, PauseEnd, Lockdown, Invalidate
  <1>3. CASE PauseEnd
    <2>1. ~pause'.on /\ Asked' = {}
      BY <1>3 DEF PauseEnd, NoPause, Asked
    <2>. QED
      BY <1>2, <2>1 DEF PauseInv
  <1>4. CASE Lockdown
    <2>1. UNCHANGED pause /\ "lockdown" \in Codes /\ sock' = ShutAll("lockdown")
      BY <1>4 DEF Lockdown, server, Codes
    <2>2. pause'.on = pause.on /\ Asked' = Asked /\ pause'.ready = pause.ready
          /\ Asked \subseteq Sockets
      BY <2>1 DEF Asked, Typed, PauseRec
    <2>3. \A d \in Sockets : Serves(sock[d], sock'[d])
      BY <2>1, ShutAllDoes, HelpersServe DEF Typed
    <2>. QED
      BY <1>2, <2>2, <2>3, ServesAll
  <1>5. CASE Invalidate("restore", "replaced") \/ Invalidate("delete", "deleted")
    <2>1. ~pause.on /\ UNCHANGED pause
      BY <1>5 DEF Invalidate
    <2>2. Asked' = {} /\ ~pause'.on
      BY <2>1 DEF PauseInv, Asked
    <2>. QED
      BY <1>2, <2>2 DEF PauseInv
  <1>. QED
    BY <1>1, <1>3, <1>4, <1>5

(* A step of a page that moves no socket but its own: only the freeze of    *)
(* that one is to be shown.                                                 *)
LEMMA InPlaceQuiet ==
    ASSUME Typed, Wired, PauseInv, UNCHANGED pause, NEW t \in Tabs, NEW k, OnPage(t, k), k.gen # 0,
           \A d \in Sockets : d # tab[t].socket => sock'[d] = sock[d],
           tab[t].socket \in Asked =>
             /\ Alike(OwnSock(t), sock'[tab[t].socket])
             /\ FreezeOK(OwnSock(t), tab[t], tab[t].socket \in pause.ready) =>
                  FreezeOK(sock'[tab[t].socket], k, tab[t].socket \in pause.ready)
    PROVE  PauseInv'
  <1> DEFINE c0 == tab[t].socket
  <1>1. /\ Asked' = Asked /\ Asked \subseteq Sockets /\ pause'.on = pause.on
        /\ pause'.ready = pause.ready
    BY DEF Asked, Typed, PauseRec
  <1>2. \A d \in Asked : Alike(sock[d], sock'[d])
    BY <1>1 DEF Alike, OwnSock
  <1>3. \A d \in Asked : AskedOK(sock'[d])
    BY <1>2 DEF PauseInv, AskedOK, Alike
  <1>4. ASSUME NEW d \in Asked, sock'[d].server = "open"
        PROVE  FreezeOK(sock'[d], tab'[sock'[d].owner], d \in pause.ready)
    <2>1. d \in Sockets /\ sock[d].server = "open" /\ sock'[d].owner = sock[d].owner
      BY <1>1, <1>2, <1>4 DEF Alike
    <2>2. sock[d].owner \in Tabs
      BY <2>1 DEF Wired, OwnerOK
    <2>3. FreezeOK(sock[d], tab[sock[d].owner], d \in pause.ready)
      BY <2>1 DEF PauseInv, FreezeKept
    <2>4. CASE d = c0
      <3>1. c0 # 0 /\ sock[d].owner = t
        BY <2>1, <2>4, OwnedIs, SocketsAre DEF OwnSock
      <3>2. sock'[d].owner = t /\ tab'[t] = k
        BY <2>1, <3>1 DEF OnPage
      <3>. QED
        BY <2>3, <2>4, <3>1, <3>2 DEF OwnSock
    <2>5. CASE d # c0
      <3>1. sock'[d] = sock[d]
        BY <2>1, <2>5
      <3>2. sock[d].client = "open" => tab[sock[d].owner].socket = d
        BY <2>1 DEF Wired, Known, Held
      <3>3. sock[d].owner = t => sock[d].client # "open"
        BY <2>5, <3>2
      <3>4. sock[d].owner # t => tab'[sock[d].owner] = tab[sock[d].owner]
        BY <2>2 DEF OnPage
      <3>. QED
        BY <2>1, <2>3, <3>1, <3>3, <3>4 DEF FreezeOK
    <2>. QED
      BY <2>4, <2>5
  <1>5. \A d \in Asked' : sock'[d].server = "open" => FreezeKept(d)'
    BY <1>1, <1>4 DEF FreezeKept
  <1>6. \A u \in Tabs : tab'[u].gen # 0
    BY DEF PauseInv, OnPage
  <1>. QED
    BY <1>1, <1>3, <1>5, <1>6 DEF PauseInv

(* A socket that breaks promises nothing more.                              *)
LEMMA BrokenFreeze ==
    ASSUME NEW r \in SockRec, NEW k, NEW ready
    PROVE  FreezeOK(Broken(r), k, ready)
  <1>1. /\ Broken(r).client = "broken"
        /\ Broken(r).up = <<[t |-> "lost"]>> \/ Broken(r).up = <<>>
    BY BrokenIs
  <1>2. \A i \in DOMAIN Broken(r).up : Broken(r).up[i].t = "lost"
    BY <1>1, SingleIs, EmptyIs
  <1>. QED
    BY <1>1, <1>2 DEF FreezeOK, Silent

(* What is said behind all that was said.                                   *)
LEMMA SaidSilent ==
    ASSUME NEW r \in SockRec, NEW m \in UpFrames, Silent(r.up)
    PROVE  LET q == Said(r, m).up IN
           /\ m.t # "edit" \/ ~SaidReady(r.up) => Silent(q)
           /\ SaidReady(q) => SaidReady(r.up) \/ m.t = "ready"
           /\ \A i \in DOMAIN q : q[i] = m \/ \E j \in DOMAIN r.up : q[i] = r.up[j]
  <1> DEFINE q == Said(r, m).up
             up == r.up
  <1>1. q = Append(up, m) /\ up \in Seq(UpFrames)
    BY SaidIs, SockRecIs
  <1>2. /\ DOMAIN up = 1 .. Len(up) /\ Len(up) \in Nat /\ DOMAIN q = 1 .. Len(up) + 1
        /\ \A i \in 1 .. Len(up) : q[i] = up[i]
        /\ q[Len(up) + 1] = m
    BY <1>1, AppendIs
  <1>3. Silent(up)
    OBVIOUS
  <1> HIDE DEF q, up
  <1>4. \A i \in DOMAIN q : \/ i \in DOMAIN up /\ q[i] = up[i]
                            \/ i = Len(up) + 1 /\ q[i] = m
    BY <1>2
  <1>5. ASSUME m.t # "edit" \/ ~SaidReady(up), NEW i \in DOMAIN q, NEW j \in DOMAIN q,
               q[i].t = "ready", i < j
        PROVE  q[j].t # "edit"
    <2>1. i \in DOMAIN up /\ q[i] = up[i]
      BY <1>2, <1>4, <1>5
    <2>2. SaidReady(up)
      BY <1>5, <2>1 DEF SaidReady
    <2>. QED
      BY <1>3, <1>4, <1>5, <2>1, <2>2 DEF Silent
  <1>6. m.t # "edit" \/ ~SaidReady(up) => Silent(q)
    BY <1>5 DEF Silent
  <1>7. SaidReady(q) => SaidReady(up) \/ m.t = "ready"
    BY <1>4 DEF SaidReady
  <1>8. \A i \in DOMAIN q : q[i] = m \/ \E j \in DOMAIN up : q[i] = up[j]
    BY <1>4
  <1>. QED
    BY <1>6, <1>7, <1>8 DEF q, up

(* A key is typed only in rows that are on the screen as editable: there    *)
(* is no promise to break.                                                  *)
LEMMA TypeFreeze ==
    ASSUME NEW r \in SockRec, r.client = "open", NEW k \in PageRec, NEW m \in UpFrames,
           m.t = "edit", k.shown = k.gen, k.gen # 0, NEW ready \in BOOLEAN, FreezeOK(r, k, ready)
    PROVE  FreezeOK(Said(r, m), TypedPage(k), ready)
  <1>1. /\ PageFrozen(r, k, ready) /\ Silent(r.up)
        /\ Said(r, m).down = r.down /\ Said(r, m).client = "open"
    BY SaidIs DEF FreezeOK
  <1>2. ~ready /\ ~SaidReady(r.up)
    BY <1>1 DEF PageFrozen
  <1>3. SameFrozen(k, TypedPage(k))
    BY DEF SameFrozen, TypedPage, PageRec, ProvRec
  <1>4. Silent(Said(r, m).up) /\ ~SaidReady(Said(r, m).up)
    BY <1>1, <1>2, SaidSilent
  <1>5. PageFrozen(Said(r, m), TypedPage(k), ready)
    BY <1>1, <1>2, <1>3, <1>4 DEF PageFrozen, SameFrozen
  <1>. QED
    BY <1>1, <1>2, <1>4, <1>5 DEF FreezeOK

(* A key that is not sent.                                                  *)
LEMMA SameFreezes ==
    ASSUME NEW r \in SockRec, NEW k, NEW k2, SameFrozen(k, k2), NEW ready \in BOOLEAN,
           FreezeOK(r, k, ready)
    PROVE  FreezeOK(r, k2, ready)
  BY HelpersServe, ServesFreeze

(* A frame on the screen: the rows of a paused page go, and then ready may  *)
(* be said.                                                                 *)
LEMMA FrameFreeze ==
    ASSUME NEW r \in SockRec, NEW k \in PageRec, NEW ready \in BOOLEAN, FreezeOK(r, k, ready),
           r.client = "open", NEW r2 \in SockRec,
           \/ r2 = r
           \/ ReadyDue(k.prov) /\ r2 = Said(r, [t |-> "ready"])
    PROVE  FreezeOK(r2, FramedPage(k), ready)
  <1> DEFINE m == [t |-> "ready"]
             k2 == FramedPage(k)
  <1>1. m \in UpFrames /\ m.t = "ready"
    BY UpFramesAre
  <1>2. k2.prov.pubPaused = k.prov.pubPaused /\ k2.prov.readySent = ReadyNow(k.prov)
        /\ k2.paused = k.paused /\ k2.shown = ShownNow(k)
    BY DEF FramedPage, PageRec, ProvRec
  <1>3. k.paused => k2.shown = 0
    BY <1>2 DEF ShownNow, Editable
  <1>4. k.prov.readySent => k2.prov.readySent
    BY <1>2 DEF ReadyNow
  <1>5. ReadyDue(k.prov) => k2.prov.readySent /\ k2.prov.pubPaused
    BY <1>2 DEF ReadyNow, ReadyDue
  <1>6. PageFrozen(r, k, ready) /\ Silent(r.up)
    BY DEF FreezeOK
  <1> HIDE DEF m, k2
  <1>7. /\ Silent(r2.up) /\ r2.down = r.down /\ r2.client = "open"
        /\ SaidReady(r2.up) => SaidReady(r.up) \/ ReadyDue(k.prov)
        /\ (\A i \in DOMAIN r.up : r.up[i].t # "edit") => \A i \in DOMAIN r2.up : r2.up[i].t # "edit"
    <2>1. CASE r2 = r
      BY <1>6, <2>1
    <2>2. CASE ReadyDue(k.prov) /\ r2 = Said(r, m)
      BY <1>1, <1>6, <2>2, SaidIs, SaidSilent
    <2>. QED
      BY <2>1, <2>2 DEF m
  <1>8. PageFrozen(r2, k2, ready)
    BY <1>2, <1>3, <1>4, <1>5, <1>6, <1>7 DEF PageFrozen
  <1>. QED
    BY <1>7, <1>8 DEF FreezeOK, k2

(* What the frames of the server do to a frozen page.                       *)
LEMMA ReceiveFreeze ==
    ASSUME NEW r \in SockRec, r.down # <<>>, NEW k \in PageRec, NEW m, m = r.down[1], m.t # "close",
           NEW ready \in BOOLEAN, FreezeOK(r, k, ready)
    PROVE  FreezeOK(Got(r), AfterFrame(k, m), ready)
  <1> DEFINE q == r.down
             q2 == Tail(q)
             k2 == AfterFrame(k, m)
  <1>1. Got(r).down = q2 /\ Got(r).up = r.up /\ Got(r).client = r.client
    BY GotIs
  <1>2. Silent(r.up) /\ (ready => \A i \in DOMAIN r.up : r.up[i].t # "edit")
    BY DEF FreezeOK
  <1>3. ASSUME r.client = "open"
        PROVE  PageFrozen(Got(r), k2, ready)
    <2>1. PageFrozen(r, k, ready)
      BY <1>3 DEF FreezeOK
    <2>2. q \in Seq(DownFrames) /\ q # <<>>
      BY SockRecIs
    <2>3. /\ Len(q) \in Nat /\ Len(q) > 0 /\ DOMAIN q = 1 .. Len(q)
          /\ DOMAIN q2 = 1 .. Len(q) - 1
          /\ \A i \in 1 .. Len(q) - 1 : q2[i] = q[i + 1]
          /\ m \in DownFrames
      BY <2>2, TailIs
    <2>4. Thawless(q)
      BY <2>1 DEF PageFrozen
    <2> HIDE DEF q, q2, k2
    <2>5. \A i \in DOMAIN q2 : i + 1 \in DOMAIN q /\ q2[i] = q[i + 1] /\ 1 < i + 1
      BY <2>3
    <2>6. 1 \in DOMAIN q /\ q[1] = m
      BY <2>3 DEF q
    <2>7. Thawless(q2)
      <3>1. \A j \in DOMAIN q2 : q2[j].t # "end"
        BY <2>4, <2>5 DEF Thawless
      <3>2. ASSUME NEW i \in DOMAIN q2, NEW j \in DOMAIN q2, q2[i].t = "start", i < j
            PROVE  q2[j].t # "start" /\ Frozen(q2[j])
        <4>1. i + 1 < j + 1
          BY <2>3, <3>2
        <4>. QED
          BY <2>4, <2>5, <3>2, <4>1 DEF Thawless
      <3>. QED
        BY <3>1, <3>2 DEF Thawless
    <2>8. m.t = "start" => \A j \in DOMAIN q2 : q2[j].t # "start" /\ Frozen(q2[j])
      BY <2>4, <2>5, <2>6 DEF Thawless
    <2>9. k.prov.pubPaused => /\ \A j \in DOMAIN q2 : q2[j].t # "start" /\ Frozen(q2[j])
                              /\ m.t # "start" /\ Frozen(m)
      <3>1. k.prov.pubPaused => \A j \in DOMAIN q : q[j].t # "start" /\ Frozen(q[j])
        BY <2>1 DEF PageFrozen, q
      <3>. QED
        BY <2>5, <2>6, <3>1
    <2>10. m.t # "end"
      BY <2>4, <2>6 DEF Thawless
    <2>11. CASE /\ k2.prov.pubPaused = k.prov.pubPaused /\ k2.prov.readySent = k.prov.readySent
                /\ k2.shown = k.shown /\ (k.prov.pubPaused /\ k.paused => k2.paused)
      BY <1>1, <2>1, <2>7, <2>9, <2>11 DEF PageFrozen, k2
    <2>12. CASE m.t = "boot" /\ k2 = BootedPage(ReplicaFor(k, m), m)
      <3> DEFINE b == ReplicaFor(k, m)
      <3>1. b \in PageRec /\ b.prov = k.prov /\ b.paused = k.paused /\ b.shown = k.shown
        BY ReplicaForIs
      <3> HIDE DEF b
      <3>2. /\ k2.paused = (IF m.mirror # b.mirror THEN m.mirror ELSE b.paused)
            /\ k2.shown = b.shown /\ k2.prov = [b.prov EXCEPT !.booted = TRUE]
        BY <2>3, <2>12, <3>1, BootedPageIs DEF b
      <3>3. b.prov \in ProvRec
        BY <3>1, PageIs
      <3>4. k2.prov.pubPaused = b.prov.pubPaused /\ k2.prov.readySent = b.prov.readySent
        BY <3>2, <3>3 DEF ProvRec
      <3>5. k.prov.pubPaused => m.mirror
        BY <2>9, <2>12 DEF Frozen
      <3>. QED
        BY <2>11, <3>1, <3>2, <3>4, <3>5
    <2>13. CASE m.t = "update" /\ k2 = Mirrored(k, m.mirror)
      <3>1. m.mirror \in BOOLEAN
        BY <2>3, <2>13, DownFramesAre
      <3>2. /\ k2.paused = (IF m.mirror # k.mirror THEN m.mirror ELSE k.paused)
            /\ k2.shown = k.shown /\ k2.prov = k.prov
        BY <2>13, <3>1, MirroredIs
      <3>3. k.prov.pubPaused => m.mirror
        BY <2>9, <2>13 DEF Frozen
      <3>. QED
        BY <2>11, <3>2, <3>3
    <2>14. CASE m.t = "ack" /\ k2 = AckedPage(k, m)
      <3>1. /\ k2.paused = k.paused /\ k2.shown = k.shown
            /\ k2.prov = [k.prov EXCEPT !.acked = AckedNow(k, m)]
        BY <2>3, <2>14, AckedPageIs
      <3>2. k2.prov.pubPaused = k.prov.pubPaused /\ k2.prov.readySent = k.prov.readySent
        BY <3>1, PageIs DEF ProvRec
      <3>. QED
        BY <2>11, <3>1, <3>2
    <2>15. CASE k2 = k
      BY <2>11, <2>15
    <2>16. CASE m.t = "start" /\ ~k.prov.pubPaused /\ k2 = PauseStarted(k)
      <3>1. /\ k2.paused
            /\ k2.prov = [k.prov EXCEPT !.pubPaused = TRUE, !.readySent = FALSE,
                                       !.freezing = k.prov.freezing \cup {2}]
        BY <2>16, PauseStartedIs
      <3>2. k2.prov.pubPaused /\ ~k2.prov.readySent
        BY <3>1, PageIs DEF ProvRec
      <3>3. ~ready /\ ~SaidReady(r.up)
        BY <2>1, <2>16 DEF PageFrozen
      <3>. QED
        BY <1>1, <2>7, <2>8, <2>16, <3>1, <3>2, <3>3 DEF PageFrozen, k2
    <2>. QED
      BY <1>3, <2>3, <2>10, <2>12, <2>13, <2>14, <2>15, <2>16, AfterFrameIs DEF k2
  <1>. QED
    BY <1>1, <1>2, <1>3 DEF FreezeOK

(* The Y.Doc of a page never has number 0: a page that shows rows shows the *)
(* rows of one.                                                             *)
LEMMA ReceiveGen ==
    ASSUME NEW k \in PageRec, k.gen # 0, NEW m \in DownFrames, m.t # "close"
    PROVE  AfterFrame(k, m).gen # 0
  <1>1. k.gen \in Nat
    BY PageIs
  <1>2. m.t = "update" => Mirrored(k, m.mirror).gen = k.gen
    BY DownFramesAre, MirroredIs
  <1>3. m.t = "boot" => BootedPage(ReplicaFor(k, m), m).gen # 0
    <2>1. ReplicaFor(k, m) \in PageRec /\ ReplicaFor(k, m).gen # 0
      <3>1. /\ ReplicaFor(k, m) \in PageRec
            /\ ReplicaFor(k, m) = k \/ FreshDoc(k, ReplicaFor(k, m))
        BY ReplicaForIs
      <3>2. FreshDoc(k, ReplicaFor(k, m)) => ReplicaFor(k, m).gen = k.gen + 1
        BY DEF FreshDoc
      <3> HIDE DEF ReplicaFor
      <3>. QED
        BY <1>1, <3>1, <3>2
    <2>. QED
      BY <2>1, BootedPageIs
  <1>4. m.t = "ack" => AckedPage(k, m).gen = k.gen
    BY AckedPageIs
  <1>5. ~k.prov.pubPaused => PauseStarted(k).gen = k.gen
    BY PauseStartedIs
  <1>6. PauseEnded(k).gen = k.gen
    BY PauseEndedIs
  <1>. QED
    BY <1>2, <1>3, <1>4, <1>5, <1>6, AfterFrameIs

(* A page lets go of a socket: the server is asked nothing but to let go.   *)
LEMMA ClosedFreeze ==
    ASSUME NEW r \in SockRec, AskedOK(r), NEW k, NEW k2, NEW ready \in BOOLEAN,
           FreezeOK(r, k, ready)
    PROVE  AskedOK(Closed(r)) /\ Closed(r).server = r.server /\ FreezeOK(Closed(r), k2, ready)
  <1>1. /\ Alike(r, Closed(r)) /\ Closed(r).client = "closed"
        /\ Closed(r).up = r.up \/ Closed(r).up = Append(r.up, [t |-> "fin"])
    BY ClosedIs DEF AskedOK
  <1>2. [t |-> "fin"] \in UpFrames /\ [t |-> "fin"].t = "fin"
    BY UpFramesAre
  <1>3. Silent(r.up) /\ (ready => \A i \in DOMAIN r.up : r.up[i].t # "edit")
    BY DEF FreezeOK
  <1>4. Said(r, [t |-> "fin"]).up = Append(r.up, [t |-> "fin"])
    BY <1>2, SaidIs
  <1>5. /\ Silent(Closed(r).up)
        /\ ready => \A i \in DOMAIN Closed(r).up : Closed(r).up[i].t # "edit"
    BY <1>1, <1>2, <1>3, <1>4, SaidSilent
  <1>. QED
    BY <1>1, <1>5 DEF AskedOK, Alike, FreezeOK

LEMMA RewiresQuiet ==
    ASSUME Typed, Wired, PauseInv, NEW t \in Tabs, Rewires(t), UNCHANGED pause
    PROVE  PauseInv'
  <1> DEFINE c0 == tab[t].socket
  <1>1. /\ Asked' = Asked /\ Asked \subseteq Sockets /\ pause'.on = pause.on
        /\ pause'.ready = pause.ready
    BY DEF Asked, Typed, PauseRec
  <1>2. ASSUME NEW d \in Asked
        PROVE  \/ d # c0 /\ sock'[d] = sock[d]
               \/ d = c0 /\ c0 # 0 /\ sock[d].owner = t /\ sock'[d] = Closed(sock[d])
    <2>1. d \in Sockets /\ AskedOK(sock[d]) /\ sock[d] \in SockRec
      BY <1>1 DEF PauseInv, Typed
    <2>2. sock[d] # Unused
      BY <2>1, UnusedIs DEF AskedOK
    <2>3. CASE sock'[d] = Dialed(Unused, t) /\ tab'[t].socket = d
      <3>1. d = c0 /\ Closed(sock[d]) = Unused
        BY <2>1, <2>2, <2>3, SocketsAre DEF Rewires
      <3>2. FALSE
        BY <2>1, <3>1, ClosedIs DEF AskedOK
      <3>. QED
        BY <3>2
    <2>4. CASE sock'[d] = sock[d] /\ d # c0
      BY <2>4
    <2>5. CASE sock'[d] = Closed(sock[c0]) /\ d = c0
      <3>1. c0 # 0 /\ sock[c0].owner = t
        BY <2>1, <2>5, SocketsAre, OwnedIs DEF OwnSock
      <3>. QED
        BY <2>5, <3>1
    <2>. QED
      BY <2>1, <2>3, <2>4, <2>5 DEF Rewires
  <1>3. ASSUME NEW d \in Asked
        PROVE  /\ AskedOK(sock'[d])
               /\ sock'[d].server = "open" =>
                    FreezeOK(sock'[d], tab'[sock'[d].owner], d \in pause.ready)
    <2> DEFINE ready == d \in pause.ready
               r == sock[d]
               k == tab[r.owner]
               k2 == tab'[sock'[d].owner]
    <2>1. d \in Sockets /\ AskedOK(r) /\ r \in SockRec /\ ready \in BOOLEAN
      BY <1>1 DEF PauseInv, Typed
    <2>2. r.server = "open" => FreezeOK(r, k, ready)
      BY DEF PauseInv, FreezeKept
    <2>3. r.owner \in Tabs
      BY <2>1 DEF Wired, OwnerOK, AskedOK
    <2>4. d # c0 /\ r.owner = t => r.client # "open"
      BY <2>1, <2>3 DEF Wired, Known, Held
    <2>5. r.owner # t => tab'[r.owner] = k
      BY <2>3 DEF Rewires
    <2>6. sock'[d] = r \/ sock'[d] = Closed(r)
      BY <1>2
    <2>7. sock'[d] = r => d # c0 \/ sock'[d] = Closed(r)
      BY <1>2
    <2> HIDE DEF ready, r, k2, c0
    <2>8. CASE sock'[d] = Closed(r)
      <3>1. AskedOK(Closed(r)) /\ (Closed(r).server = "open" => r.server = "open")
        BY <2>1, ClosedIs DEF AskedOK, Alike
      <3>2. Closed(r).server = "open" => FreezeOK(Closed(r), k2, ready)
        BY <2>1, <2>2, <3>1, ClosedFreeze
      <3>. QED
        BY <2>8, <3>1, <3>2 DEF k2, ready
    <2>9. CASE sock'[d] = r /\ d # c0
      <3>1. k2 = k \/ r.client # "open"
        BY <2>4, <2>5, <2>9 DEF k2
      <3>2. r.server = "open" => FreezeOK(r, k2, ready)
        BY <2>2, <3>1 DEF FreezeOK
      <3>. QED
        BY <2>1, <2>9, <3>2 DEF k2, ready
    <2>. QED
      BY <2>6, <2>7, <2>8, <2>9
  <1>4. \A d \in Asked' : sock'[d].server = "open" => FreezeKept(d)'
    BY <1>1, <1>3 DEF FreezeKept
  <1>5. \A u \in Tabs : tab'[u].gen # 0
    <2>1. tab[t].gen \in Nat /\ tab[t].gen # 0
      BY PageIs DEF PauseInv, Typed
    <2>2. tab'[t].gen # 0
      BY <2>1 DEF Rewires, SameDoc, FreshDoc
    <2>. QED
      BY <2>2 DEF PauseInv, Rewires
  <1>. QED
    BY <1>1, <1>3, <1>4, <1>5 DEF PauseInv

LEMMA PageQuiet ==
    ASSUME Typed, Wired, PauseInv, NEW t \in Tabs, PageStep(t)
    PROVE  PauseInv'
  <1> DEFINE c0 == tab[t].socket
             r == OwnSock(t)
             k == tab[t]
             ready == c0 \in pause.ready
  <1>0. /\ k \in PageRec /\ k.gen # 0 /\ k.gen \in Nat /\ k.prov \in ProvRec /\ ready \in BOOLEAN
        /\ c0 # 0 => c0 \in Sockets /\ r \in SockRec
        /\ tab[t].socket # 0 => tab[t].prov.retry = "none"
        /\ tab[t].kind = "editing" => tab[t].left \/ tab[t].prov.role = "editor"
    BY OwnedIs, PageIs DEF Wired, EditorsOK, Typed, PauseInv
  <1>1. UNCHANGED pause /\ ~tab[t].left
    BY DEF PageStep, OpenEditor, StopEditing, Unfocus, Opened, Type, Frame, Receive, ToldClosed,
           Reconnect, RefreshFails, HandoffDone, Sleep, Wake, Awake, server
  <1>2. CASE RedialStep(t) \/ LetsGoStep(t)
    BY <1>1, <1>2, RedialRewires, RewiresQuiet
  <1>3. CASE OpenEditor(t) \/ StopEditing(t) \/ RefreshFails(t)
    BY <1>2, <1>3, OpenEditorDoes
  <1>4. CASE ToldClosed(t)
    <2>1. tab[t].socket # 0
      BY <1>4 DEF ToldClosed, Incoming
    <2>. QED
      BY <1>0, <1>1, <1>2, <1>4, <2>1, ToldClosedDoes
  <1>5. CASE Reconnect(t)
    BY <1>0, <1>2, <1>5, ReconnectDoes
  <1>6. c0 \in Asked => c0 \in Sockets /\ AskedOK(r)
    BY DEF PauseInv, Asked, Typed, PauseRec, OwnSock
  <1> HIDE DEF k, r, c0, ready
  <1>7. ASSUME NEW k2, OnPage(t, k2), SameFrozen(k, k2), UNCHANGED sock
        PROVE  PauseInv'
    <2>1. c0 \in Asked => Alike(r, sock'[c0]) /\ (FreezeOK(r, k, ready) => FreezeOK(sock'[c0], k2, ready))
      BY <1>0, <1>6, <1>7, SameFreezes, SocketsAre DEF Alike, r, c0, OwnSock
    <2>2. k2.gen # 0
      BY <1>0, <1>7 DEF SameFrozen
    <2>. QED
      BY <1>1, <1>7, <2>1, <2>2, InPlaceQuiet DEF r, c0, k, ready
  <1>8. ASSUME NEW k2, OnPage(t, k2), k2.gen # 0, NEW r2, OnSock(c0, r2), c0 \in Sockets,
               c0 \in Asked => Alike(r, r2) /\ (FreezeOK(r, k, ready) => FreezeOK(r2, k2, ready))
        PROVE  PauseInv'
    <2>1. sock'[c0] = r2 /\ \A d \in Sockets : d # c0 => sock'[d] = sock[d]
      BY <1>8 DEF OnSock
    <2>. QED
      BY <1>1, <1>8, <2>1, InPlaceQuiet DEF r, c0, k, ready
  <1>9. CASE Wake(t)
    <2>1. SameFrozen(k, Awoken(k))
      BY <1>0 DEF SameFrozen, Awoken, PageRec
    <2>. QED
      BY <1>0, <1>2, <1>7, <1>9, <2>1, WakeDoes DEF k
  <1>10. CASE HandoffDone(t)
    <2>1. SameFrozen(k, Handed(k))
      BY <1>0 DEF SameFrozen, Handed, PageRec
    <2>. QED
      BY <1>2, <1>7, <1>10, <2>1, HandoffDoneDoes DEF k
  <1>11. CASE Unfocus(t)
    <2>1. SameFrozen(k, Unfocused(k))
      BY <1>0 DEF SameFrozen, Unfocused, PageRec
    <2>. QED
      BY <1>7, <1>11, <2>1, UnfocusDoes DEF k
  <1>12. CASE Opened(t)
    <2>1. /\ OnPage(t, OpenedPage(k)) /\ c0 \in Sockets
          /\ OnSock(c0, Connected(r, k.prov.role))
      BY <1>12, OpenedDoes DEF k, c0, r
    <2>2. r.server = "none"
      BY <1>12, <2>1 DEF Opened, Wired, OwnerOK, r, c0, OwnSock
    <2>3. OpenedPage(k).gen # 0
      BY <1>0 DEF OpenedPage, PageRec
    <2>4. c0 \notin Asked
      BY <1>6, <2>2 DEF AskedOK
    <2>. QED
      BY <1>8, <2>1, <2>3, <2>4
  <1>13. CASE Type(t)
    <2>1. OnPage(t, TypedPage(k)) /\ EditOf(t) \in UpFrames /\ EditOf(t).t = "edit"
      BY <1>13, TypeDoes DEF k, EditOf
    <2>2. SameFrozen(k, TypedPage(k)) /\ TypedPage(k).gen # 0
      BY <1>0 DEF SameFrozen, TypedPage, PageRec, ProvRec
    <2>3. CASE Sends(t)
      <3>1. c0 \in Sockets /\ OnSock(c0, Said(r, EditOf(t))) /\ r.client = "open"
        BY <1>13, <2>3, TypeDoes DEF Sends, c0, r
      <3>2. r \in SockRec /\ k.shown = k.gen
        BY <1>0, <1>13, <3>1, SocketsAre DEF Type, k
      <3>3. Alike(r, Said(r, EditOf(t)))
        BY <2>1, <3>2, SaidIs
      <3>4. FreezeOK(r, k, ready) => FreezeOK(Said(r, EditOf(t)), TypedPage(k), ready)
        BY <1>0, <2>1, <3>1, <3>2, TypeFreeze
      <3>. QED
        BY <1>8, <2>1, <2>2, <3>1, <3>3, <3>4
    <2>. QED
      BY <1>7, <1>13, <2>1, <2>2, <2>3, TypeDoes
  <1>14. CASE Frame(t)
    <2>1. OnPage(t, FramedPage(k)) /\ FramedPage(k).gen # 0
      BY <1>0, <1>14, FrameDoes DEF k, FramedPage, PageRec
    <2>2. CASE SaysReady(t)
      <3>1. /\ c0 \in Sockets /\ OnSock(c0, Said(r, [t |-> "ready"])) /\ r.client = "open"
            /\ ReadyDue(k.prov)
        BY <1>14, <2>2, FrameDoes DEF SaysReady, c0, r, k
      <3>2. r \in SockRec /\ [t |-> "ready"] \in UpFrames
        BY <1>0, <3>1, SocketsAre, UpFramesAre
      <3>3. Alike(r, Said(r, [t |-> "ready"])) /\ Said(r, [t |-> "ready"]) \in SockRec
        BY <3>2, SaidIs
      <3>4. FreezeOK(r, k, ready) => FreezeOK(Said(r, [t |-> "ready"]), FramedPage(k), ready)
        BY <1>0, <3>1, <3>2, <3>3, FrameFreeze
      <3>. QED
        BY <1>8, <2>1, <3>1, <3>3, <3>4
    <2>3. CASE ~SaysReady(t)
      <3>1. UNCHANGED sock
        BY <1>14, <2>3, FrameDoes
      <3>2. c0 \in Asked => /\ Alike(r, sock'[c0])
                            /\ FreezeOK(r, k, ready) => FreezeOK(sock'[c0], FramedPage(k), ready)
        <4> SUFFICES ASSUME c0 \in Asked
                     PROVE  /\ Alike(r, sock'[c0])
                            /\ FreezeOK(r, k, ready) => FreezeOK(sock'[c0], FramedPage(k), ready)
          OBVIOUS
        <4>1. r \in SockRec /\ sock'[c0] = r
          BY <1>0, <1>6, <3>1, SocketsAre DEF r, c0, OwnSock
        <4>2. r.client = "open" => (FreezeOK(r, k, ready) => FreezeOK(r, FramedPage(k), ready))
          BY <1>0, <4>1, FrameFreeze
        <4>3. r.client # "open" => (FreezeOK(r, k, ready) => FreezeOK(r, FramedPage(k), ready))
          BY DEF FreezeOK
        <4>. QED
          BY <4>1, <4>2, <4>3 DEF Alike
      <3>. QED
        BY <1>1, <2>1, <3>1, <3>2, InPlaceQuiet DEF r, c0, k, ready
    <2>. QED
      BY <2>2, <2>3
  <1>15. CASE Receive(t)
    <2>1. /\ c0 \in Sockets /\ r.down # <<>>
          /\ Arriving(t) \in DownFrames /\ Arriving(t).t # "close"
          /\ Arriving(t) = r.down[1]
          /\ OnPage(t, AfterFrame(k, Arriving(t)))
          /\ OnSock(c0, Got(r))
      BY <1>15, ReceiveDoes DEF r, c0, k
    <2>2. r \in SockRec
      BY <1>0, <2>1, SocketsAre
    <2>3. Alike(r, Got(r))
      BY <2>1, <2>2, GotIs
    <2>4. FreezeOK(r, k, ready) => FreezeOK(Got(r), AfterFrame(k, Arriving(t)), ready)
      BY <1>0, <2>1, <2>2, ReceiveFreeze
    <2>5. AfterFrame(k, Arriving(t)).gen # 0
      BY <1>0, <2>1, ReceiveGen
    <2>. QED
      BY <1>8, <2>1, <2>3, <2>4, <2>5
  <1>16. CASE Sleep(t)
    <2>1. OnPage(t, Slept(k)) /\ SameFrozen(k, Slept(k)) /\ Slept(k).gen # 0
      BY <1>0, <1>16, SleepDoes DEF SameFrozen, Slept, PageRec, k
    <2>2. CASE UNCHANGED sock
      BY <1>7, <2>1, <2>2
    <2>3. CASE c0 \in Sockets /\ OnSock(c0, Broken(r))
      <3>1. r \in SockRec
        BY <1>0, <2>3, SocketsAre
      <3>2. Alike(r, Broken(r)) /\ FreezeOK(Broken(r), Slept(k), ready)
        BY <3>1, BrokenIs, BrokenFreeze
      <3>. QED
        BY <1>8, <2>1, <2>3, <3>2
    <2>. QED
      BY <1>16, <2>2, <2>3, SleepDoes DEF r, c0
  <1>. QED
    BY <1>3, <1>4, <1>5, <1>9, <1>10, <1>11, <1>12, <1>13, <1>14, <1>15, <1>16 DEF PageStep

LEMMA FaultQuiet ==
    ASSUME Typed, Wired, PauseInv, NEW c \in Sockets, Drop(c) \/ TokenExpired(c)
    PROVE  PauseInv'
  <1> DEFINE t == sock[c].owner
             k == Faulted(tab[t])
  <1>1. t \in Tabs /\ sock[c] \in SockRec /\ tab[t] \in PageRec /\ tab[t].gen # 0
    BY DEF Drop, TokenExpired, Live, Serving, Wired, OwnerOK, Typed, PauseInv
  <1>2. SameFrozen(tab[t], k) /\ k.gen # 0
    BY <1>1 DEF SameFrozen, Faulted, PageRec
  <1>3. UNCHANGED pause
    BY DEF Drop, TokenExpired, server
  <1> HIDE DEF k
  <1>4. CASE Drop(c)
    <2>1. tab[t].socket = c
      BY <1>4 DEF Drop, Wired, Known, Held
    <2>2. OnPage(t, k) /\ OnSock(c, Broken(sock[c]))
      BY <1>1, <1>4, DropDoes DEF k
    <2>3. Alike(sock[c], Broken(sock[c])) /\ FreezeOK(Broken(sock[c]), k, c \in pause.ready)
      BY <1>1, BrokenIs, BrokenFreeze
    <2>4. sock'[c] = Broken(sock[c]) /\ \A d \in Sockets : d # c => sock'[d] = sock[d]
      BY <2>2 DEF OnSock
    <2> HIDE DEF t
    <2>. QED
      BY <1>1, <1>2, <1>3, <2>1, <2>2, <2>3, <2>4, InPlaceQuiet DEF OwnSock
  <1>5. CASE TokenExpired(c)
    <2>1. Serving(c) /\ OnSock(c, Shut(Heard(sock[c]), "expired")) /\ OnPage(t, k)
      BY <1>1, <1>5, TokenExpiredDoes DEF k
    <2>2. "expired" \in Codes /\ sock[c].up # <<>>
      BY <2>1 DEF Codes, Serving
    <2>3. \A d \in Sockets : Serves(sock[d], sock'[d])
      BY <1>1, <2>1, <2>2, HelpersServe, OneServes
    <2>4. \A u \in Tabs : SameFrozen(tab[u], tab'[u])
      <3>1. \A u \in Tabs : SameFrozen(tab[u], tab[u])
        BY DEF SameFrozen
      <3>. QED
        BY <1>2, <2>1, <3>1 DEF OnPage
    <2>5. /\ Asked' = Asked /\ Asked \subseteq Sockets /\ pause'.on = pause.on
          /\ pause'.ready = pause.ready
      BY <1>3 DEF Asked, Typed, PauseRec
    <2>. QED
      BY <2>3, <2>4, <2>5, ServesAll
  <1>. QED
    BY <1>4, <1>5

LEMMA QuietStep ==
    ASSUME Typed, Wired, PauseInv, [Next]_vars, PauseStart => Drained
    PROVE  PauseInv'
  <1>1. CASE UNCHANGED vars
    <2>1. UNCHANGED <<tab, sock, pause>>
      BY <1>1 DEF vars
    <2>. QED
      BY <2>1 DEF PauseInv, Asked, AskedOK, FreezeKept, FreezeOK, PageFrozen
  <1>. QED
    BY <1>1, PageQuiet, ServerQuiet, CommonQuiet, FaultQuiet, NextIs

LEMMA QuietInit ==
    ASSUME Init
    PROVE  PauseInv
  <1>1. /\ pause = NoPause
        /\ \A t \in Tabs : \E w \in Nat, c \in Sockets : tab[t] = Page(c, w)
    BY InitIs
  <1>2. Asked = {} /\ ~pause.on
    BY <1>1 DEF NoPause, Asked
  <1>3. \A t \in Tabs : tab[t].gen # 0
    <2>1. \A w, c : Page(c, w).gen = 1
      BY DEF Page
    <2>. QED
      BY <1>1, <2>1
  <1>. QED
    BY <1>2, <1>3 DEF PauseInv

LEMMA QuietIs ==
    ASSUME Typed, Wired, PauseInv
    PROVE  ReadyMeansQuiet
  <1> SUFFICES ASSUME NEW c \in pause.ready, Live(c)
               PROVE  \A i \in DOMAIN sock[c].up : sock[c].up[i].t # "edit"
    BY DEF ReadyMeansQuiet
  <1>1. c \in Asked /\ sock[c].server = "open"
    BY DEF Asked, Live
  <1>. QED
    BY <1>1 DEF PauseInv, FreezeKept, FreezeOK

(* doc_publish_ready is a promise: an editor that the server counts as      *)
(* ready sends no edit before the pause is over, whatever else it and the   *)
(* others do, as long as a pause begins when the frames of the last one     *)
(* have been handled (a late ready of the last pause counts for the new     *)
(* one, which two pauses in a row on a slow channel would show).            *)
THEOREM ReadyPagesAreQuiet ==
    Spec /\ [][PauseStart => Drained]_vars => []ReadyMeansQuiet
  <1>1. Init => Typed /\ Wired /\ PauseInv
    BY InitIs, QuietInit
  <1>2. /\ Typed /\ Wired /\ PauseInv /\ [Next]_vars /\ [PauseStart => Drained]_vars
        => (Typed /\ Wired /\ PauseInv)'
    <2>1. UNCHANGED vars => ~PauseStart
      BY DEF vars, PauseStart, Typed
    <2>. QED
      BY <2>1, WiredStep, QuietStep
  <1>3. Typed /\ Wired /\ PauseInv => ReadyMeansQuiet
    BY QuietIs
  <1>. QED
    BY <1>1, <1>2, <1>3, PTL DEF Spec

(* Before the first pause: nothing of a pause is anywhere.                  *)
Without(q, kinds) == \A i \in DOMAIN q : q[i].t \notin kinds
Plain(r) == Without(r.up, {"ready"}) /\ Without(r.down, {"start", "end"})
Unpaused ==
  /\ ~pause.on
  /\ \A c \in Sockets : Plain(sock[c])
  /\ \A t \in Tabs : ~tab[t].prov.pubPaused

LEMMA WithoutIs ==
    ASSUME NEW S, NEW q \in Seq(S), NEW kinds, Without(q, kinds)
    PROVE  /\ \A m \in S : m.t \notin kinds => Without(Append(q, m), kinds)
           /\ q # <<>> => Without(Tail(q), kinds)
  <1>1. ASSUME NEW m \in S, m.t \notin kinds
        PROVE  Without(Append(q, m), kinds)
    <2>1. \A i \in DOMAIN Append(q, m) : \/ i \in DOMAIN q /\ Append(q, m)[i] = q[i]
                                         \/ Append(q, m)[i] = m
      BY AppendIs
    <2>. QED
      BY <1>1, <2>1 DEF Without
  <1>2. ASSUME q # <<>>
        PROVE  Without(Tail(q), kinds)
    <2>1. \A i \in DOMAIN Tail(q) : i + 1 \in DOMAIN q /\ Tail(q)[i] = q[i + 1]
      BY <1>2, TailIs
    <2>. QED
      BY <2>1 DEF Without
  <1>. QED
    BY <1>1, <1>2

LEMMA PlainIs ==
    ASSUME NEW r \in SockRec, Plain(r)
    PROVE  /\ \A r2 : Serves(r, r2) => Plain(r2)
           /\ \A m \in DownFrames : m.t \notin {"start", "end"} => Plain(Sent(r, m))
           /\ \A state \in {"leaving", "gone"} : Plain(Off(r, state))
           /\ Plain(Closed(r)) /\ Plain(Broken(r)) /\ Plain(Unused)
           /\ r.down # <<>> => Plain(Got(r))
           /\ \A m \in UpFrames : m.t # "ready" => Plain(Said(r, m))
           /\ \A t \in Tabs : Plain(Dialed(Unused, t))
           /\ \A role \in {"editor", "observer", "none"} : Plain(Connected(r, role))
  <1>1. /\ r.up \in Seq(UpFrames) /\ r.down \in Seq(DownFrames)
        /\ Without(r.up, {"ready"}) /\ Without(r.down, {"start", "end"})
        /\ \A kinds : Without(<<>>, kinds)
    BY SockRecIs, EmptyIs DEF Plain, Without
  <1>2. ASSUME NEW r2, Serves(r, r2)
        PROVE  Plain(r2)
    <2>1. Without(r2.up, {"ready"})
      BY <1>1, <1>2, WithoutIs DEF Serves
    <2>2. Without(r2.down, {"start", "end"})
      <3>1. CASE r2.down = r.down
        BY <1>1, <3>1
      <3>2. ASSUME NEW m \in DownFrames, Calm(m), r2.down = Append(r.down, m)
            PROVE  Without(r2.down, {"start", "end"})
        BY <1>1, <3>2, WithoutIs DEF Calm
      <3>. QED
        BY <1>2, <3>1, <3>2 DEF Serves
    <2>. QED
      BY <2>1, <2>2 DEF Plain
  <1>3. \A m \in DownFrames : m.t \notin {"start", "end"} => Plain(Sent(r, m))
    BY <1>1, SentIs, WithoutIs DEF Plain
  <1>4. \A state \in {"leaving", "gone"} : Plain(Off(r, state))
    BY <1>1, OffIs, UnusedIs DEF Plain
  <1>5. Plain(Closed(r)) /\ Plain(Unused)
    <2>1. Plain(Unused)
      BY <1>1, UnusedIs DEF Plain
    <2>2. [t |-> "fin"] \in UpFrames /\ [t |-> "fin"].t \notin {"ready"}
      BY UpFramesAre
    <2>3. Without(Append(r.up, [t |-> "fin"]), {"ready"})
      BY <1>1, <2>2, WithoutIs
    <2>. QED
      BY <1>1, <2>1, <2>3, ClosedIs DEF Plain
  <1>6. Plain(Broken(r))
    <2>1. /\ Without(<<[t |-> "lost"]>>, {"ready"})
          /\ Without(<<[t |-> "close", code |-> "dropped"]>>, {"start", "end"})
      BY SingleIs DEF Without
    <2>. QED
      BY <1>1, <2>1, BrokenIs DEF Plain
  <1>7. r.down # <<>> => Plain(Got(r))
    BY <1>1, GotIs, WithoutIs DEF Plain
  <1>8. \A m \in UpFrames : m.t # "ready" => Plain(Said(r, m))
    <2> SUFFICES ASSUME NEW m \in UpFrames, m.t # "ready" PROVE Plain(Said(r, m))
      OBVIOUS
    <2>1. Said(r, m).up = Append(r.up, m) /\ Said(r, m).down = r.down /\ m.t \notin {"ready"}
      BY SaidIs
    <2>2. Without(Append(r.up, m), {"ready"})
      BY <1>1, <2>1, WithoutIs
    <2>. QED
      BY <1>1, <2>1, <2>2 DEF Plain
  <1>9. \A t \in Tabs : Plain(Dialed(Unused, t))
    BY <1>1, DialedIs DEF Plain
  <1>10. \A role \in {"editor", "observer", "none"} : Plain(Connected(r, role))
    <2> SUFFICES ASSUME NEW role \in {"editor", "observer", "none"}
                 PROVE  Plain(Connected(r, role))
      OBVIOUS
    <2>1. Without(<<[t |-> "req", role |-> role]>>, {"ready"})
      BY SingleIs DEF Without
    <2>2. /\ Connected(r, role).up = <<[t |-> "req", role |-> role]>>
          /\ Connected(r, role).down = r.down
      BY ConnectedIs
    <2>. QED
      BY <1>1, <2>1, <2>2 DEF Plain
  <1>. QED
    BY <1>2, <1>3, <1>4, <1>5, <1>6, <1>7, <1>8, <1>9, <1>10

(* A frame that is no start and no end pauses no page.                      *)
LEMMA ReceiveUnpaused ==
    ASSUME NEW k \in PageRec, ~k.prov.pubPaused, NEW m \in DownFrames,
           m.t \notin {"close", "start", "end"}
    PROVE  ~AfterFrame(k, m).prov.pubPaused
  <1>1. k.prov \in ProvRec
    BY PageIs
  <1>2. CASE m.t = "boot" /\ AfterFrame(k, m) = BootedPage(ReplicaFor(k, m), m)
    <2>1. ReplicaFor(k, m) \in PageRec /\ ReplicaFor(k, m).prov = k.prov
      BY ReplicaForIs
    <2>2. AfterFrame(k, m).prov = [k.prov EXCEPT !.booted = TRUE]
      BY <1>2, <2>1, BootedPageIs
    <2>. QED
      BY <1>1, <2>2 DEF ProvRec
  <1>3. CASE m.t = "update" /\ AfterFrame(k, m) = Mirrored(k, m.mirror)
    BY <1>3, DownFramesAre, MirroredIs
  <1>4. CASE m.t = "ack" /\ AfterFrame(k, m) = AckedPage(k, m)
    <2>1. AfterFrame(k, m).prov = [k.prov EXCEPT !.acked = AckedNow(k, m)]
      BY <1>4, AckedPageIs
    <2>. QED
      BY <1>1, <2>1 DEF ProvRec
  <1>. QED
    BY <1>2, <1>3, <1>4, AfterFrameIs

LEMMA PageUnpaused ==
    ASSUME Typed, Wired, Unpaused, NEW t \in Tabs, PageStep(t)
    PROVE  Unpaused'
  <1> DEFINE c0 == tab[t].socket
             r == OwnSock(t)
             k == tab[t]
  <1>0. /\ k \in PageRec /\ k.prov \in ProvRec /\ ~k.prov.pubPaused
        /\ c0 # 0 => c0 \in Sockets /\ r \in SockRec /\ Plain(r)
        /\ tab[t].socket # 0 => tab[t].prov.retry = "none"
        /\ tab[t].kind = "editing" => tab[t].left \/ tab[t].prov.role = "editor"
        /\ \A d \in Sockets : sock[d] \in SockRec /\ Plain(sock[d])
        /\ Plain(Unused)
    <2>1. \A d \in Sockets : sock[d] \in SockRec /\ Plain(sock[d])
      BY DEF Typed, Unpaused
    <2>2. Plain(Unused)
      BY UnusedIs, EmptyIs DEF Plain, Without
    <2>. QED
      BY <2>1, <2>2, OwnedIs, PageIs DEF Wired, EditorsOK, Typed, Unpaused, OwnSock
  <1>1. ~pause'.on /\ ~tab[t].left
    BY DEF PageStep, OpenEditor, StopEditing, Unfocus, Opened, Type, Frame, Receive, ToldClosed,
           Reconnect, RefreshFails, HandoffDone, Sleep, Wake, Awake, server, Unpaused
  <1>2. ASSUME NEW k2, OnPage(t, k2), ~k2.prov.pubPaused, \A d \in Sockets : Plain(sock'[d])
        PROVE  Unpaused'
    BY <1>1, <1>2 DEF Unpaused, OnPage
  <1>3. CASE RedialStep(t) \/ LetsGoStep(t)
    <2>1. \E k2 : OnPage(t, k2) /\ ~k2.prov.pubPaused
      <3>1. CASE LetsGoStep(t)
        BY <1>0, <3>1 DEF LetsGoStep, LetsGo, HangTo, SameFreeze, NoFreeze
      <3>2. CASE RedialStep(t)
        <4>1. PICK k1 \in PageRec, c \in Sockets :
                Redials(tab[t], k1) /\ DialTo(t, [k1 EXCEPT !.socket = c], c)
          BY <3>2 DEF RedialStep
        <4>2. [k1 EXCEPT !.socket = c].prov = k1.prov
          BY DEF PageRec
        <4>3. ~k1.prov.pubPaused
          BY <1>0, <4>1 DEF Redials, SameFreeze, NoFreeze
        <4>. QED
          BY <4>1, <4>2, <4>3 DEF DialTo
      <3>. QED
        BY <1>3, <3>1, <3>2
    <2>2. Rewires(t)
      BY <1>3, RedialRewires
    <2>3. \A d \in Sockets : Plain(sock'[d])
      BY <1>0, <2>2, PlainIs, UnusedIs DEF Rewires
    <2>. QED
      BY <1>2, <2>1, <2>3
  <1>4. CASE OpenEditor(t) \/ StopEditing(t) \/ RefreshFails(t)
    BY <1>3, <1>4, OpenEditorDoes
  <1>5. CASE ToldClosed(t)
    <2>1. tab[t].socket # 0
      BY <1>5 DEF ToldClosed, Incoming
    <2>. QED
      BY <1>0, <1>1, <1>3, <1>5, <2>1, ToldClosedDoes
  <1>6. CASE Reconnect(t)
    BY <1>0, <1>3, <1>6, ReconnectDoes
  <1> HIDE DEF k, r, c0
  <1>7. ASSUME NEW k2, OnPage(t, k2), ~k2.prov.pubPaused, UNCHANGED sock
        PROVE  Unpaused'
    BY <1>0, <1>2, <1>7
  <1>8. ASSUME NEW k2, OnPage(t, k2), ~k2.prov.pubPaused, NEW r2, OnSock(c0, r2), c0 \in Sockets,
               Plain(r2)
        PROVE  Unpaused'
    BY <1>0, <1>2, <1>8 DEF OnSock
  <1>9. CASE Wake(t)
    <2>1. ~Awoken(k).prov.pubPaused
      BY <1>0 DEF Awoken, PageRec
    <2>. QED
      BY <1>0, <1>3, <1>7, <1>9, <2>1, WakeDoes DEF k
  <1>10. CASE HandoffDone(t)
    <2>1. ~Handed(k).prov.pubPaused
      BY <1>0 DEF Handed, PageRec
    <2>. QED
      BY <1>3, <1>7, <1>10, <2>1, HandoffDoneDoes DEF k
  <1>11. CASE Unfocus(t)
    <2>1. ~Unfocused(k).prov.pubPaused
      BY <1>0 DEF Unfocused, PageRec
    <2>. QED
      BY <1>7, <1>11, <2>1, UnfocusDoes DEF k
  <1>12. CASE Opened(t)
    <2>1. /\ OnPage(t, OpenedPage(k)) /\ c0 \in Sockets
          /\ OnSock(c0, Connected(r, k.prov.role))
      BY <1>12, OpenedDoes DEF k, c0, r
    <2>2. ~OpenedPage(k).prov.pubPaused
      BY <1>0 DEF OpenedPage, PageRec, ProvRec
    <2>3. Plain(Connected(r, k.prov.role))
      BY <1>0, <2>1, SocketsAre, PageIs, PlainIs
    <2>. QED
      BY <1>8, <2>1, <2>2, <2>3
  <1>13. CASE Type(t)
    <2>1. OnPage(t, TypedPage(k)) /\ EditOf(t) \in UpFrames /\ EditOf(t).t = "edit"
      BY <1>13, TypeDoes DEF k, EditOf
    <2>2. ~TypedPage(k).prov.pubPaused
      BY <1>0 DEF TypedPage, PageRec, ProvRec
    <2>3. CASE Sends(t)
      <3>1. c0 \in Sockets /\ OnSock(c0, Said(r, EditOf(t)))
        BY <1>13, <2>3, TypeDoes DEF Sends, c0, r
      <3>2. Plain(Said(r, EditOf(t)))
        BY <1>0, <2>1, <3>1, SocketsAre, PlainIs
      <3>. QED
        BY <1>8, <2>1, <2>2, <3>1, <3>2
    <2>. QED
      BY <1>7, <1>13, <2>1, <2>2, <2>3, TypeDoes
  <1>14. CASE Frame(t)
    <2>1. OnPage(t, FramedPage(k)) /\ ~FramedPage(k).prov.pubPaused /\ ~SaysReady(t)
      BY <1>0, <1>14, FrameDoes DEF k, FramedPage, PageRec, ProvRec, SaysReady, ReadyDue
    <2>. QED
      BY <1>7, <1>14, <2>1, FrameDoes
  <1>15. CASE Receive(t)
    <2>1. /\ c0 \in Sockets /\ r.down # <<>>
          /\ Arriving(t) \in DownFrames /\ Arriving(t).t # "close"
          /\ Arriving(t) = r.down[1]
          /\ OnPage(t, AfterFrame(k, Arriving(t)))
          /\ OnSock(c0, Got(r))
      BY <1>15, ReceiveDoes DEF r, c0, k
    <2>2. r \in SockRec /\ Plain(r) /\ r.down \in Seq(DownFrames)
      BY <1>0, <2>1, SocketsAre, SockRecIs
    <2>3. 1 \in DOMAIN r.down
      BY <2>1, <2>2, TailIs
    <2>4. Arriving(t).t \notin {"close", "start", "end"}
      BY <2>1, <2>2, <2>3 DEF Plain, Without
    <2>5. ~AfterFrame(k, Arriving(t)).prov.pubPaused
      BY <1>0, <2>1, <2>4, ReceiveUnpaused
    <2>6. Plain(Got(r))
      BY <2>1, <2>2, PlainIs
    <2>. QED
      BY <1>8, <2>1, <2>5, <2>6
  <1>16. CASE Sleep(t)
    <2>1. OnPage(t, Slept(k)) /\ ~Slept(k).prov.pubPaused
      BY <1>0, <1>16, SleepDoes DEF Slept, PageRec, k
    <2>2. CASE UNCHANGED sock
      BY <1>7, <2>1, <2>2
    <2>3. CASE c0 \in Sockets /\ OnSock(c0, Broken(r))
      <3>1. Plain(Broken(r))
        BY <1>0, <2>3, SocketsAre, PlainIs
      <3>. QED
        BY <1>8, <2>1, <2>3, <3>1
    <2>. QED
      BY <1>16, <2>2, <2>3, SleepDoes DEF r, c0
  <1>. QED
    BY <1>4, <1>5, <1>6, <1>9, <1>10, <1>11, <1>12, <1>13, <1>14, <1>15, <1>16 DEF PageStep

LEMMA ServerUnpaused ==
    ASSUME Typed, Wired, Unpaused, NEW c \in Sockets, ServerStep(c)
    PROVE  Unpaused'
  <1>0. /\ \A d \in Sockets : sock[d] \in SockRec /\ Plain(sock[d])
        /\ Plain(Unused)
    BY UnusedIs, EmptyIs DEF Typed, Unpaused, Plain, Without
  <1>1. UNCHANGED tab /\ ~pause'.on
    <2>1. UNCHANGED tab /\ pause'.on = pause.on
      <3>1. CASE ReadyArrives(c)
        BY <3>1 DEF ReadyArrives, Unpaused
      <3>2. CASE SocketCloses(c)
        BY <3>2, SocketClosesDoes, SocketGoneIs DEF SocketCloses
      <3>. QED
        BY <3>1, <3>2 DEF ServerStep, AskObserver, AskEditor, SendBootstrap, EditArrives,
                          LastEditorLeaves, server
    <2>. QED
      BY <2>1 DEF Unpaused
  <1>2. ASSUME \A d \in Sockets : Plain(sock'[d])
        PROVE  Unpaused'
    BY <1>1, <1>2 DEF Unpaused
  <1>3. ASSUME NEW r, OnSock(c, r), Plain(r)
        PROVE  Unpaused'
    BY <1>0, <1>2, <1>3 DEF OnSock
  <1>4. ASSUME sock[c].up # <<>>
        PROVE  /\ Plain(Heard(sock[c])) /\ Plain(Attach(Heard(sock[c]))) /\ Plain(Receipt(sock[c]))
               /\ \A s \in Nat : /\ Plain(Join(Heard(sock[c]), s))
                                 /\ Plain(JoinEditor(Heard(sock[c]), s))
               /\ \A code \in Codes : Plain(Shut(Heard(sock[c]), code))
    BY <1>0, <1>4, HelpersServe, PlainIs
  <1>5. ASSUME NEW d \in Sockets
        PROVE  /\ \A code \in Codes : Plain(Shut(sock[d], code))
               /\ \A s \in Nat : Plain(Join(sock[d], s))
    BY <1>0, HelpersServe, PlainIs
  <1>6. CASE ReadyArrives(c)
    <2>1. sock[c].up # <<>> /\ "stale" \in Codes
      BY <1>6, ReadyArrivesDoes, HandledIs DEF Codes
    <2>. QED
      BY <1>3, <1>4, <1>6, <2>1, ReadyArrivesDoes
  <1>7. CASE AskObserver(c)
    <2>1. sock[c].up # <<>> /\ session \in Nat
      BY <1>7, AskObserverDoes, HandledIs DEF Typed
    <2>. QED
      BY <1>3, <1>4, <1>7, <2>1, AskObserverDoes
  <1>8. CASE AskEditor(c)
    <2>1. sock[c].up # <<>> /\ JoinedBy \in Nat /\ "superseded" \in Codes
      BY <1>8, AskEditorDoes, HandledIs DEF Codes
    <2>2. CASE OnSock(c, Heard(sock[c]))
      BY <1>3, <1>4, <2>1, <2>2
    <2>3. CASE /\ sock'[c] = JoinEditor(Heard(sock[c]), JoinedBy)
               /\ \A d \in Sockets \ {c} :
                    \/ sock'[d] = Shut(sock[d], "superseded")
                    \/ sock'[d] = Join(sock[d], JoinedBy)
                    \/ sock'[d] = sock[d]
      BY <1>0, <1>2, <1>4, <1>5, <2>1, <2>3
    <2>. QED
      BY <1>8, <2>2, <2>3, AskEditorDoes
  <1>9. CASE SendBootstrap(c)
    <2>1. Plain(Unbooted(sock[c]))
      BY <1>0, BootServes, PlainIs
    <2>2. Bootable(sock[c]) => Plain(Booting(sock[c]))
      <3>1. BootOf \in DownFrames /\ BootOf.t \notin {"start", "end"}
        BY <1>0, BootingIs DEF BootOf
      <3>2. Without(sock[c].up, {"ready"}) /\ Without(Append(sock[c].down, BootOf), {"start", "end"})
        BY <1>0, <3>1, SockRecIs, WithoutIs DEF Plain
      <3>3. ASSUME Bootable(sock[c])
            PROVE  /\ Booting(sock[c]).up = sock[c].up
                   /\ Booting(sock[c]).down = Append(sock[c].down, BootOf)
        BY <1>0, <3>3, BootingIs DEF Bootable
      <3>. QED
        BY <3>2, <3>3 DEF Plain
    <2>. QED
      BY <1>3, <1>9, <2>1, <2>2, SendBootstrapDoes
  <1>10. CASE EditArrives(c)
    <2>1. sock[c].up # <<>> /\ "stale" \in Codes
      BY <1>10, EditArrivesDoes, HandledIs DEF Codes
    <2>2. CASE OnSock(c, Heard(sock[c])) \/ OnSock(c, Shut(Heard(sock[c]), "stale"))
      BY <1>3, <1>4, <2>1, <2>2
    <2>3. CASE /\ UpdateOf \in DownFrames /\ sock'[c] = Receipt(sock[c])
               /\ \A d \in Sockets \ {c} :
                    sock'[d] = IF sock[d].recipient THEN Sent(sock[d], UpdateOf) ELSE sock[d]
      <3>1. UpdateOf.t \notin {"start", "end"}
        BY DEF UpdateOf
      <3>2. \A d \in Sockets : Plain(Sent(sock[d], UpdateOf))
        BY <1>0, <2>3, <3>1, PlainIs
      <3>. QED
        BY <1>0, <1>2, <1>4, <2>1, <2>3, <3>2
    <2>. QED
      BY <1>10, <2>2, <2>3, EditArrivesDoes
  <1>11. ASSUME NEW last \in BOOLEAN, Leave(c, last),
                sock[c].role = "observer" => sock[c].server # "open"
         PROVE  Unpaused'
    <2>1. Plain(Gone(sock[c])) /\ "ended" \in Codes
      BY <1>0, PlainIs DEF Gone, Codes
    <2>2. \A d \in Sockets : Plain(sock'[d])
      BY <1>0, <1>5, <1>11, <2>1, LeaveDoes
    <2>. QED
      BY <1>2, <2>2
  <1>12. CASE SocketCloses(c)
    <2>1. Plain(Gone(sock[c])) /\ Plain(Off(sock[c], "leaving")) /\ LastEditor(c) \in BOOLEAN
      BY <1>0, PlainIs DEF Gone, LastEditor
    <2>. QED
      BY <1>3, <1>11, <1>12, <2>1, SocketClosesDoes
  <1>13. CASE LastEditorLeaves(c)
    <2>1. Leave(c, TRUE) /\ sock[c].server = "leaving"
      BY <1>13 DEF LastEditorLeaves
    <2>. QED
      BY <1>11, <2>1
  <1>. QED
    BY <1>6, <1>7, <1>8, <1>9, <1>10, <1>12, <1>13 DEF ServerStep

LEMMA OtherUnpaused ==
    ASSUME Typed, Wired, Unpaused,
           \/ PauseEnd \/ Lockdown
           \/ Invalidate("restore", "replaced") \/ Invalidate("delete", "deleted")
           \/ \E c \in Sockets : Drop(c) \/ TokenExpired(c)
    PROVE  Unpaused'
  <1>0. \A d \in Sockets : sock[d] \in SockRec /\ Plain(sock[d])
    BY DEF Typed, Unpaused
  <1>1. ~PauseEnd
    BY DEF PauseEnd, Unpaused
  <1>2. CASE Lockdown \/ Invalidate("restore", "replaced") \/ Invalidate("delete", "deleted")
    <2>1. /\ UNCHANGED <<tab, pause>>
          /\ \E code \in Codes : sock' = ShutAll(code)
      BY <1>2 DEF Lockdown, Invalidate, server, Codes
    <2>2. \A d \in Sockets : Plain(sock'[d])
      BY <1>0, <2>1, ShutAllDoes, HelpersServe, PlainIs
    <2>. QED
      BY <2>1, <2>2 DEF Unpaused
  <1>3. ASSUME NEW c \in Sockets, Drop(c) \/ TokenExpired(c)
        PROVE  Unpaused'
    <2> DEFINE t == sock[c].owner
               k == Faulted(tab[t])
    <2>1. t \in Tabs /\ tab[t] \in PageRec /\ UNCHANGED pause
      BY <1>3 DEF Drop, TokenExpired, Live, Serving, Wired, OwnerOK, Typed, server
    <2>2. ~k.prov.pubPaused
      BY <2>1 DEF Faulted, PageRec, Unpaused
    <2> HIDE DEF k
    <2>3. OnPage(t, k)
      BY <1>3, <2>1, DropDoes, TokenExpiredDoes DEF k
    <2>4. \A d \in Sockets : Plain(sock'[d])
      <3>1. CASE Drop(c)
        BY <1>0, <2>1, <3>1, DropDoes, PlainIs DEF OnSock
      <3>2. CASE TokenExpired(c)
        <4>1. /\ Serving(c) /\ OnSock(c, Shut(Heard(sock[c]), "expired"))
              /\ "expired" \in Codes /\ sock[c].up # <<>>
          BY <2>1, <3>2, TokenExpiredDoes DEF Codes, Serving
        <4>2. \A d \in Sockets : Serves(sock[d], sock'[d])
          BY <1>0, <4>1, HelpersServe, OneServes
        <4>. QED
          BY <1>0, <4>2, PlainIs
      <3>. QED
        BY <1>3, <3>1, <3>2
    <2>. QED
      BY <2>1, <2>2, <2>3, <2>4 DEF Unpaused, OnPage
  <1>. QED
    BY <1>1, <1>2, <1>3

FirstPause == nPauses = 0 => Unpaused

LEMMA FirstPauseStep ==
    ASSUME Typed, Wired, FirstPause, [Next]_vars
    PROVE  FirstPause'
  <1> SUFFICES ASSUME nPauses' = 0 PROVE Unpaused'
    BY DEF FirstPause
  <1>1. ~PauseStart /\ nPauses' = nPauses
    <2>1. nPauses \in Nat
      BY DEF Typed
    <2>2. ~PauseStart
      BY <2>1 DEF PauseStart
    <2>3. nPauses' = nPauses
      <3>1. ASSUME NEW t \in Tabs, PageStep(t)
            PROVE  nPauses' = nPauses
        BY <3>1 DEF PageStep, OpenEditor, StopEditing, Unfocus, Opened, Type, Frame, Receive,
             ToldClosed, Reconnect, RefreshFails, HandoffDone, Sleep, Wake
      <3>2. ASSUME NEW c \in Sockets, ServerStep(c)
            PROVE  nPauses' = nPauses
        BY <3>2 DEF ServerStep, AskObserver, AskEditor, SendBootstrap, EditArrives, ReadyArrives,
             SocketCloses, LastEditorLeaves
      <3>3. ASSUME NEW c \in Sockets, Drop(c) \/ TokenExpired(c)
            PROVE  nPauses' = nPauses
        BY <3>3 DEF Drop, TokenExpired
      <3>4. CASE PauseEnd \/ Lockdown \/ Invalidate("restore", "replaced")
                   \/ Invalidate("delete", "deleted")
        BY <3>4 DEF PauseEnd, Lockdown, Invalidate
      <3>5. CASE UNCHANGED vars
        BY <3>5 DEF vars
      <3>. QED
        BY <2>2, <3>1, <3>2, <3>3, <3>4, <3>5, NextIs
    <2>. QED
      BY <2>2, <2>3
  <1>2. Unpaused
    BY <1>1 DEF FirstPause
  <1>3. CASE UNCHANGED vars
    BY <1>2, <1>3 DEF vars, Unpaused, Plain, Without
  <1>. QED
    BY <1>1, <1>2, <1>3, PageUnpaused, ServerUnpaused, OtherUnpaused, NextIs

LEMMA FirstPauseInit ==
    ASSUME Init
    PROVE  FirstPause
  <1>1. /\ pause = NoPause
        /\ \A t \in Tabs : \E w \in Nat, c \in Sockets : tab[t] = Page(c, w)
        /\ \A c \in Sockets : sock[c] = Unused \/ \E t \in Tabs : sock[c] = WaitingSocket(t)
    BY InitIs
  <1>2. ~pause.on
    BY <1>1 DEF NoPause
  <1>3. \A c \in Sockets : Plain(sock[c])
    BY <1>1, UnusedIs, WaitingSocketIs, EmptyIs DEF Plain, Without
  <1>4. \A t \in Tabs : ~tab[t].prov.pubPaused
    <2>1. \A w, c : ~Page(c, w).prov.pubPaused
      BY DEF Page, Provider
    <2>. QED
      BY <1>1, <2>1
  <1>. QED
    BY <1>2, <1>3, <1>4 DEF FirstPause, Unpaused

(* ... and so the first publish of a document finds every promise kept, with *)
(* nothing assumed of the channels.                                         *)
THEOREM FirstPauseIsQuiet ==
    ASSUME MaxPauses <= 1
    PROVE  Spec => []ReadyMeansQuiet
  <1>1. Init => Typed /\ Wired /\ PauseInv /\ FirstPause
    BY InitIs, QuietInit, FirstPauseInit
  <1>2. Typed /\ Wired /\ FirstPause /\ PauseStart => Drained
    <2> SUFFICES ASSUME Typed, Wired, FirstPause, PauseStart
                 PROVE  Drained
      OBVIOUS
    <2>1. nPauses \in Nat /\ nPauses < MaxPauses /\ MaxPauses \in Nat
      BY TabAssumption DEF Typed, PauseStart
    <2>2. Unpaused
      BY <2>1 DEF FirstPause
    <2>3. \A c \in Sockets : /\ \A i \in DOMAIN sock[c].up : sock[c].up[i].t # "ready"
                             /\ \A i \in DOMAIN sock[c].down : sock[c].down[i].t \notin {"start", "end"}
      BY <2>2 DEF Unpaused, Plain, Without
    <2>4. ASSUME NEW c \in Sockets, LiveEditor(c)
          PROVE  ~tab[sock[c].owner].prov.pubPaused
      <3>1. sock[c].owner \in Tabs
        BY <2>4 DEF LiveEditor, Live, Wired, OwnerOK
      <3>. QED
        BY <2>2, <3>1 DEF Unpaused
    <2>. QED
      BY <2>3, <2>4 DEF Drained
  <1>3. Typed /\ Wired /\ PauseInv /\ FirstPause /\ [Next]_vars
        => (Typed /\ Wired /\ PauseInv /\ FirstPause)'
    BY <1>2, WiredStep, QuietStep, FirstPauseStep
  <1>4. Typed /\ Wired /\ PauseInv => ReadyMeansQuiet
    BY QuietIs
  <1>. QED
    BY <1>1, <1>3, <1>4, PTL DEF Spec
=============================================================================
