------------------------------ MODULE Release ------------------------------
(***************************************************************************)
(* The publisher of binaries (.github/workflows/release.yml): every push   *)
(* to main, or a dispatch by hand, starts a workflow that builds its own   *)
(* commit, deletes the rolling release "latest" and creates it anew.       *)
(* Workflows need not start in the order of their commits.                 *)
(*                                                                         *)
(* A commit is its position in the history of main; log[c] is the version  *)
(* stamped into the binaries built from commit c.                          *)
(***************************************************************************)
EXTENDS Integers, Sequences

CONSTANTS
  None,
  Edits,       (* what a push may do to the file VERSION, see NextVersion  *)
  MaxCommits   (* bound on the history of main                             *)

VARIABLES
  log,         (* the versions of the commits of main, oldest first        *)
  workflows,   (* the workflows under way: next step and commit            *)
  latest,      (* the commit the release "latest" was built from, or None  *)
  standing     (* history: what has been released since a workflow was     *)
               (* last started, or None                                    *)

Commits  == 1 .. MaxCommits
Versions == (0 .. MaxCommits) \X (0 .. MaxCommits)
Workflow == [step: {"build", "delete", "create"}, commit: Commits]

TypeOK ==
  /\ log \in Seq(Versions) /\ Len(log) \in Commits
  /\ workflows \in SUBSET Workflow
  /\ latest \in Commits \cup {None}
  /\ standing \in Commits \cup {None}

Init ==
  /\ log = << <<0, 0>> >>
  /\ workflows = {}
  /\ latest = 1
  /\ standing = 1

(* Mutant: the version is the commit count alone. *)
PatchOnly(edit) ==
  <<0, IF edit = "none" THEN log[Len(log)][2] + 1 ELSE 0>>

(* major.minor, as a number, and the commits since VERSION last changed:   *)
(* a bump takes a new major.minor, a touch changes the file and keeps it.  *)
NextVersion(edit) ==
  LET v == log[Len(log)]
  IN  <<IF edit = "bump" THEN v[1] + 1 ELSE v[1],
        IF edit = "none" THEN v[2] + 1 ELSE 0>>

Push(edit) ==
  /\ Len(log) < MaxCommits
  /\ log' = Append(log, NextVersion(edit))
  /\ UNCHANGED <<workflows, latest, standing>>

(* Mutant: a new workflow runs beside the one under way. *)
TriggerRacing(c) ==
  /\ workflows' = workflows \cup {[step |-> "build", commit |-> c]}
  /\ standing' = None
  /\ UNCHANGED <<log, latest>>

(* The workflow of a push starts, sooner or later than those of other      *)
(* pushes, or a user dispatches one or runs one again: it builds commit c, *)
(* and the workflow under way is cancelled (cancel-in-progress).           *)
Trigger(c) ==
  /\ workflows' = {[step |-> "build", commit |-> c]}
  /\ standing' = None
  /\ UNCHANGED <<log, latest>>

Advance(w, step) == workflows' = (workflows \ {w}) \cup {[w EXCEPT !.step = step]}

Built(w) ==
  /\ w.step = "build"
  /\ Advance(w, "delete")
  /\ UNCHANGED <<log, latest, standing>>

(* A failing delete is ignored (|| true). *)
Delete(w) ==
  /\ w.step = "delete"
  /\ latest' \in {None, latest}
  /\ Advance(w, "create")
  /\ UNCHANGED <<log, standing>>

(* A release that still exists makes the creation fail. *)
Create(w) ==
  /\ w.step = "create"
  /\ IF latest = None
     THEN latest' = w.commit /\ standing' = w.commit
     ELSE UNCHANGED <<latest, standing>>
  /\ workflows' = workflows \ {w}
  /\ UNCHANGED log

(* A build or an upload fails, which ends the workflow. *)
WorkflowFails(w) ==
  /\ workflows' = workflows \ {w}
  /\ UNCHANGED <<log, latest, standing>>

Next ==
  \/ \E edit \in Edits : Push(edit)
  \/ \E c \in 1 .. Len(log) : Trigger(c)
  \/ \E w \in workflows : Built(w) \/ Delete(w) \/ Create(w) \/ WorkflowFails(w)

(* "Never let two builds race on the moving latest tag": a release that    *)
(* has been put up stands, neither deleted nor replaced by a workflow that *)
(* was under way as well, until a further workflow is started.             *)
LatestStands == standing # None => latest = standing

(* The version is "major.minor from VERSION, patch = commits since VERSION *)
(* last changed": of two commits, the later one has the later version, so  *)
(* no version is used twice, if VERSION is only ever changed to bump it.   *)
Later(v, w) == v[1] < w[1] \/ (v[1] = w[1] /\ v[2] < w[2])

VersionsGrow == \A i, j \in 1 .. Len(log) : i < j => Later(log[i], log[j])
=============================================================================
