-------------------------- MODULE ProposalLifecycle --------------------------
(***************************************************************************)
(* What the proposal store promises, without directories, requests, git or *)
(* crashes: a proposal is opened, collects writes, and ends in exactly one *)
(* of two ways.  Either all it holds lands in canonical content, in one    *)
(* step, or it is dropped and none of it ever does.                        *)
(* ProposalStore is shown to implement this specification.                 *)
(***************************************************************************)
EXTENDS Naturals, FiniteSets

CONSTANTS Proposals,   \* proposal ids
          Sections,    \* sections of the canonical tree
          Writes       \* write numbers, a set of naturals; later writes have larger ones

VARIABLES fate,        \* [Proposals -> {"none", "open", "landed", "dropped"}]
          staged,      \* the writes a proposal holds: records [n, sec]
          content      \* canonical: the number of the write each section shows

lifecycleVars == <<fate, staged, content>>

\* The content after the writes W are laid over the content c: in every section
\* they touch, the newest of them.
Overlaid(c, W) ==
  [s \in Sections |->
     IF \E w \in W : w.sec = s
     THEN CHOOSE n \in {w.n : w \in {x \in W : x.sec = s}} :
            \A w \in W : w.sec = s => w.n <= n
     ELSE c[s]]

LifecycleInit ==
  /\ fate = [p \in Proposals |-> "none"]
  /\ staged = [p \in Proposals |-> {}]
  /\ content = [s \in Sections |-> 0]

Open(p) ==
  /\ fate[p] = "none"
  /\ fate' = [fate EXCEPT ![p] = "open"]
  /\ UNCHANGED <<staged, content>>

Stage(p) ==
  /\ fate[p] = "open"
  /\ \E n \in Writes, s \in Sections : staged' = [staged EXCEPT ![p] = @ \cup {[n |-> n, sec |-> s]}]
  /\ UNCHANGED <<fate, content>>

\* An author empties a draft.
Empty(p) ==
  /\ fate[p] = "open"
  /\ staged' = [staged EXCEPT ![p] = {}]
  /\ UNCHANGED <<fate, content>>

Land(p) ==
  /\ fate[p] = "open"
  /\ fate' = [fate EXCEPT ![p] = "landed"]
  /\ content' = Overlaid(content, staged[p])
  /\ UNCHANGED staged

Drop(p) ==
  /\ fate[p] = "open"
  /\ fate' = [fate EXCEPT ![p] = "dropped"]
  /\ staged' = [staged EXCEPT ![p] = {}]
  /\ UNCHANGED content

LifecycleNext == \E p \in Proposals : Open(p) \/ Stage(p) \/ Empty(p) \/ Land(p) \/ Drop(p)

LifecycleSpec == LifecycleInit /\ [][LifecycleNext]_lifecycleVars
=============================================================================
