------------------------------ MODULE DeepeningWalk ------------------------------
(***************************************************************************)
(* Runs of one repository: fetch_one brings the clone up to date, or makes *)
(* one, shallow when a checkpoint will end the walk early; then the        *)
(* pipeline takes commits from the walk, which deepens the clone whenever  *)
(* it runs out of them (commands/fetch_all.rs, git/deepen.rs).  Meanwhile  *)
(* the remote moves; fetches fail or are killed; clones get lost.          *)
(***************************************************************************)
EXTENDS ShallowClone

CONSTANTS
  MaxFaults    \* bound: fetches that fail and clones that are lost

VARIABLES
  phase,       \* "idle", "fetched", "walk" or "end"
  head,        \* the commit the walk starts from
  commits,     \* the buffered commits from index on
  seen,        \* the commits yielded, with those of earlier batches
  done,
  yielded,     \* every commit the walk has returned, in order
  stopped,     \* the consumer has met the checkpoint
  checkpoint,  \* Checkpoint::commit
  covers,      \* Checkpoint::has_processed_all(current_rules)
  faults,
  processed,   \* ghost: the commits of every run that ended well
  parted,      \* ghost: this walk found part of its boundary rewritten away,
  cutOff,      \* ghost: as some walk has
  strays       \* ghost: boundary commits this walk went on from that head does not reach

walkVars == <<phase, head, commits, seen, done, yielded, stopped>>
pastVars == <<checkpoint, covers, faults, processed>>
ghosts   == <<parted, cutOff, strays>>
vars == <<cloneVars, walkVars, pastVars, ghosts>>

Init ==
  /\ CloneInit
  /\ phase = "idle" /\ head = NONE
  /\ commits = <<>> /\ seen = {} /\ done = FALSE /\ yielded = <<>> /\ stopped = FALSE
  /\ checkpoint = NONE /\ covers = FALSE /\ faults = 0 /\ processed = {}
  /\ parted = FALSE /\ cutOff = FALSE /\ strays = {}

Returned == {yielded[k] : k \in DOMAIN yielded}

-----------------------------------------------------------------------------
\* The shallow of fetch_one.
ShallowDepth == IF checkpoint # NONE /\ covers THEN depth ELSE NONE

\* fetch_one: clone what is not there, pull what is.
FetchOne ==
  /\ phase = "idle"
  /\ phase' = "fetched"
  /\ clone' = IF clone = NONE THEN Cloned(ShallowDepth) ELSE WithRefs(PulledObjects)
  /\ UNCHANGED <<setup, remote, rewrites, head, commits, seen, done,
                 yielded, stopped, pastVars, ghosts>>

\* A fetch that fails leaves things as they were; one that is killed may leave
\* an empty clone, or the commits without the references.
FetchFails ==
  /\ phase = "idle"
  /\ faults < MaxFaults
  /\ faults' = faults + 1
  /\ clone' \in {clone, IF clone = NONE THEN EmptyClone ELSE PulledObjects}
  /\ UNCHANGED <<setup, remote, rewrites, walkVars, checkpoint, covers,
                 processed, ghosts>>

\* run_grant resolves the reference; the walk, deepening or not, is buffered
\* by DeepeningRevWalk::new.
Start ==
  /\ phase = "fetched"
  /\ phase' = "walk"
  /\ head' = LocalTip(clone)
  /\ commits' = CollectWalk(clone, {head'}, {})
  /\ seen' = {} /\ done' = FALSE /\ yielded' = <<>> /\ stopped' = FALSE
  /\ parted' = FALSE /\ strays' = {}
  /\ UNCHANGED <<cloneVars, pastVars, cutOff>>

\* next with commits in the buffer; the pipeline stops at its checkpoint.
Yield ==
  /\ phase = "walk" /\ ~stopped /\ commits # <<>>
  /\ commits' = Tail(commits)
  /\ seen' = seen \cup {Head(commits)}
  /\ yielded' = Append(yielded, Head(commits))
  /\ stopped' = (covers /\ Head(commits) = checkpoint)
  /\ UNCHANGED <<cloneVars, phase, head, done, pastVars, ghosts>>

\* next with an empty buffer in a repository with all its history.
NothingMore ==
  /\ phase = "walk" /\ ~stopped /\ commits = <<>> /\ ~done
  /\ ~IsShallow(clone)
  /\ done' = TRUE
  /\ UNCHANGED <<cloneVars, phase, head, commits, seen, yielded, stopped, pastVars,
                 ghosts>>

\* Mutant: the walk goes on from the boundary that the deepening left.
ResumedAfter(cl) == CollectWalk(cl, cl.shallow, seen)

\* Mutant: only the boundary is known to have been yielded.
ResumedTwice(cl) == CollectWalk(cl, clone.shallow, clone.shallow)

\* The next buffer: from every boundary commit there was before the deepening.
Resumed(cl) == CollectWalk(cl, clone.shallow, seen)

\* next with an empty buffer: deepen, and walk on.  The walk is over when the
\* boundary did not move, or when nothing new can be reached from it.
Deepen ==
  /\ phase = "walk" /\ ~stopped /\ commits = <<>> /\ ~done
  /\ IsShallow(clone)
  /\ clone' = WithRefs(DeepenedObjects)
  /\ LET deepened == clone'.shallow # clone.shallow
         oids == IF deepened THEN Resumed(clone') ELSE <<>>
     IN  /\ commits' = oids
         /\ done' = (oids = <<>>)
         /\ strays' = strays \cup
              IF deepened THEN clone.shallow \ Anc(history, {head}) ELSE {}
  /\ LET lost == ~(clone.shallow \cap Anc(history, {head}) \subseteq Anc(history, Wants))
     IN  parted' = (parted \/ lost) /\ cutOff' = (cutOff \/ lost)
  /\ UNCHANGED <<setup, remote, rewrites, phase, head, seen, yielded,
                 stopped, pastVars>>

\* The deepening fails, or the process is killed in it: the run is lost.
DeepenFails ==
  /\ phase = "walk" /\ ~stopped /\ commits = <<>> /\ ~done
  /\ IsShallow(clone)
  /\ faults < MaxFaults
  /\ faults' = faults + 1
  /\ clone' \in {clone, DeepenedObjects}
  /\ phase' = "idle"
  /\ UNCHANGED <<setup, remote, rewrites, head, commits, seen, done,
                 yielded, stopped, checkpoint, covers, processed, ghosts>>

\* The walk is over; the pipeline keeps where it started.
End ==
  /\ phase = "walk" /\ (stopped \/ (commits = <<>> /\ done))
  /\ phase' = "end"
  /\ checkpoint' = head /\ covers' = TRUE
  /\ processed' = processed \cup Returned
  /\ UNCHANGED <<cloneVars, head, commits, seen, done, yielded, stopped, faults, ghosts>>

Leave ==
  /\ phase = "end"
  /\ phase' = "idle"
  /\ head' = NONE
  /\ commits' = <<>> /\ seen' = {} /\ done' = FALSE /\ yielded' = <<>> /\ stopped' = FALSE
  /\ parted' = FALSE /\ strays' = {}
  /\ UNCHANGED <<cloneVars, pastVars, cutOff>>

\* A rule is added or gets a new version.
RulesChange ==
  /\ phase = "idle"
  /\ covers /\ covers' = FALSE
  /\ faults < MaxFaults /\ faults' = faults + 1
  /\ UNCHANGED <<cloneVars, walkVars, checkpoint, processed, ghosts>>

\* The clone is not kept from one run to the next, the checkpoint is.
LoseClone ==
  /\ phase = "idle"
  /\ clone # NONE /\ clone' = NONE
  /\ faults < MaxFaults /\ faults' = faults + 1
  /\ UNCHANGED <<setup, remote, rewrites, walkVars, checkpoint, covers,
                 processed, ghosts>>

\* The branches that matter to the clone move.
Remote ==
  /\ \E b \in {"main"} \cup ({"dev"} \cap {tracked}) : Push(b) \/ Rewrite(b)
  /\ UNCHANGED <<walkVars, pastVars, ghosts>>

Run == FetchOne \/ Start \/ Yield \/ NothingMore \/ Deepen \/ End \/ Leave

Next == Run \/ FetchFails \/ DeepenFails \/ RulesChange \/ LoseClone \/ Remote

Spec     == Init /\ [][Next]_vars
\* Runs are started again and again, and each goes on until it ends.
FairSpec == Spec /\ WF_vars(Run)

-----------------------------------------------------------------------------
\* A commit is returned once by a walk, whatever the batches it comes up in.
YieldedOnce == \A i, j \in DOMAIN yielded : yielded[i] = yielded[j] => i = j

\* A walk that ends by itself has returned every ancestor of its head, unless
\* that history was rewritten while it was walking; and nothing else, except
\* what hangs below boundary commits of other branches or of older histories.
WalkComplete ==
  phase = "end" /\ ~stopped /\ ~parted
    => /\ Anc(history, {head}) \subseteq Returned
       /\ Returned \subseteq Anc(history, {head} \cup strays)

\* Every reference of the clone that is not one of another branch of the same
\* ending can be walked down to the boundary, whatever was killed in between.
RefsResolve ==
  clone # NONE =>
    \A b \in Branches \ {"feature/dev"} :
      clone.refs[b] # NONE => Visible(history, {clone.refs[b]}, clone.shallow) \subseteq clone.present

\* On a line of history, once the remote rests, every commit the reference
\* reaches has been processed, however often the clone was lost and cut
\* short, unless history was rewritten under a walk.
Linear == \A c \in Commits : history[c] = {c - 1} \cap Commits
CatchesUp == <>[](Linear /\ ~cutOff => Anc(history, {RemoteTip}) \subseteq processed)

\* A run over a shallow clone sees the commits that a run over the whole
\* history sees: those newer than the checkpoint, before it stops there.
LikeAFullWalk ==
  phase = "walk" /\ stopped
    => {c \in Anc(history, {head}) : c > checkpoint} \subseteq Returned
=============================================================================
