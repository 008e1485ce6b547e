------------------------------ MODULE ShallowClone ------------------------------
(***************************************************************************)
(* A repository on a server and its local clone (git/clone.rs): cloning,   *)
(* whole or cut at a depth, pulling, deepening, and bringing the local     *)
(* references to where the remote ones are.  Commits are numbered by their *)
(* commit time, so that parents are smaller.                               *)
(*                                                                         *)
(* What a fetch transfers is git's, checked against git itself: the remote *)
(* HEAD is always fetched next to the configured branch; a depth counts    *)
(* from the tips, a deepening from those boundary commits that the tips    *)
(* still reach; the commits at the last step become the boundary, roots    *)
(* included.                                                               *)
(***************************************************************************)
EXTENDS CommitGraph, Enumeration

CONSTANTS
  Setups,      \* what may be given: the parents of each commit, the reference of the
               \* configuration ("HEAD" or "dev"), and DEFAULT_SHALLOW_DEPTH, also the
               \* size of a batch
  MaxRewrites, \* bound: forced pushes
  NONE

ASSUME SetupAssumption ==
  \A s \in Setups :
    /\ s.history \in Seq(SUBSET Nat) /\ s.history # <<>>
    /\ \A c \in DOMAIN s.history : s.history[c] \subseteq 1 .. (c - 1)
    /\ s.depth \in Nat \ {0}

VARIABLES
  setup,
  remote,      \* the tips on the server: main, where its HEAD points, dev, feature/dev
  rewrites,
  clone        \* NONE, or the commits present, the shallow boundary and the references

cloneVars == <<setup, remote, rewrites, clone>>

Branches == {"main", "dev", "feature/dev"}
Commits  == DOMAIN setup.history
history  == setup.history
tracked  == setup.tracked
depth    == setup.depth

-----------------------------------------------------------------------------
\* The tips that the refspecs name.
Wants == {remote["main"]} \cup IF tracked = "dev" THEN {remote["dev"]} ELSE {}

\* Where the reference of the configuration points, there and here.
RemoteTip == remote[IF tracked = "dev" THEN "dev" ELSE "main"]
LocalTip(cl) == cl.refs[IF tracked = "dev" THEN "dev" ELSE "main"]

-----------------------------------------------------------------------------
\* Mutant: every advertised reference is followed.
IsSyncedAll(name) == TRUE

\* sync_remote_ref: HEAD and the branch it points to are always followed, others
\* when their name ends in that of the configured reference.
IsSynced(name) == name = "main" \/ (tracked = "dev" /\ name \in {"dev", "feature/dev"})

\* Mutant: references are created and never moved.
SyncedOnlyNew(refs) ==
  [b \in Branches |-> IF IsSynced(b) /\ refs[b] = NONE THEN remote[b] ELSE refs[b]]

\* update_local_repo, sync_remote_symref, sync_remote_dirref: the references
\* are moved, and created where they did not exist.
Synced(refs) == [b \in Branches |-> IF IsSynced(b) THEN remote[b] ELSE refs[b]]

\* What the fetch itself moves before update_local_repo: the configured branch.
Fetched(refs) ==
  [b \in Branches |-> IF b = "dev" /\ tracked = "dev" THEN remote[b] ELSE refs[b]]

\* A clone cut short: the directory is a repository without commits.
EmptyClone == [present |-> {}, shallow |-> {}, refs |-> [b \in Branches |-> NONE]]

\* clone_repository into a directory that does not exist; n is NONE for a
\* whole clone.
Cloned(n) ==
  [present |-> IF n = NONE THEN Anc(history, Wants) ELSE Within(history, Wants, n - 1),
   shallow |-> IF n = NONE THEN {} ELSE Farthest(history, Wants, n - 1),
   refs |-> [b \in Branches |->
               CASE b = "main" -> remote[b]
                 [] b = "dev" /\ tracked = "dev" -> remote[b]
                 [] OTHER -> NONE]]

\* The fetch of pull_branch: history is completed down to the boundary.
PulledObjects == [clone EXCEPT !.present = @ \cup Visible(history, Wants, clone.shallow),
                               !.refs = Fetched(@)]

\* The fetch of deepen.
DeepenedObjects ==
  LET from    == clone.shallow \cap Anc(history, Wants)
      shallow == (clone.shallow \ Within(history, from, depth - 1))
                   \cup Farthest(history, from, depth)
  IN  [present |-> clone.present \cup Within(history, from, depth)
                     \cup Visible(history, Wants, shallow),
       shallow |-> shallow,
       refs    |-> Fetched(clone.refs)]

\* pull_branch and deepen after the fetch.
WithRefs(cl) == [cl EXCEPT !.refs = Synced(@)]

\* repo.is_shallow.
IsShallow(cl) == cl.shallow # {}

\* collect_walk, rev::walk: by commit time, newest first, without those in
\* exclude.
CollectWalk(cl, start, exclude) ==
  LET found == Visible(history, start, cl.shallow) \ exclude
      size  == Cardinality(found)
  IN  [k \in 1 .. size |-> NthOf(found, size + 1 - k)]

-----------------------------------------------------------------------------
CloneInit ==
  /\ setup \in Setups
  /\ remote = [b \in Branches |-> 1]
  /\ rewrites = 0
  /\ clone = NONE

\* Someone pushes: the branch moves forward.
Push(b) ==
  /\ \E c \in Commits \ {remote[b]} :
       /\ remote[b] \in Anc(history, {c})
       /\ remote' = [remote EXCEPT ![b] = c]
  /\ UNCHANGED <<setup, rewrites, clone>>

\* A forced push.
Rewrite(b) ==
  /\ rewrites < MaxRewrites
  /\ \E c \in Commits :
       /\ remote[b] \notin Anc(history, {c})
       /\ remote' = [remote EXCEPT ![b] = c]
  /\ rewrites' = rewrites + 1
  /\ UNCHANGED <<setup, clone>>
=============================================================================
