------------------------------- MODULE Update -------------------------------
(***************************************************************************)
(* `relay update` (cli/update.go) on one machine, run again and again by   *)
(* any number of processes, while the publisher of Release works.  A file  *)
(* is told from the path it is at: a rename moves the file that a process  *)
(* has open.  A process can crash between any two steps; files stay.       *)
(***************************************************************************)
EXTENDS Integers, Sequences, FiniteSets

CONSTANTS
  Procs,       (* processes that may run an update at the same time        *)
  Modes,       (* the modes srcDir, isGitRepo and haveGo can select        *)
  None, Edits, MaxCommits

VARIABLES
  log, workflows, latest, standing, (* the publisher                       *)
  checkout,    (* the commit of the source checkout                        *)
  exe,         (* the file at the path of the binary                       *)
  staged,      (* the file at that path with .new, or None                 *)
  proc         (* proc[p]: the locals of process p and what it last said   *)

Publisher == INSTANCE Release
pub  == <<log, workflows, latest, standing>>
vars == <<log, workflows, latest, standing, checkout, exe, staged, proc>>

Build == [kind: {"release", "dev"}, commit: Publisher!Commits]

(* of: the builds whose bytes may be in the file; by: who truncated it     *)
(* last; whole: it is exactly one build.                                   *)
File == [of: SUBSET Build, by: Procs \cup {None}, whole: BOOLEAN]

Process ==
  [pc: {"off", "pull", "build", "get", "open", "copy", "version", "swap"},
   force: BOOLEAN,
   got: Build \cup {None},                       (* what it is to install *)
   open: {"none", "exe", "staged", "gone"},      (* the file it writes    *)
   was: Build,                                   (* the running binary    *)
   said: {"nothing", "updated", "uptodate", "failed"}]

(* Nothing is neither a file, nor a build, nor a commit, nor a version.    *)
ASSUME UpdateAssumption ==
  /\ MaxCommits \in Nat \ {0}
  /\ None \notin Procs \cup File \cup Build \cup Publisher!Commits
  /\ None \notin Publisher!Versions \cup {<<>>}

WholeFile(b) == [of |-> {b}, by |-> None, whole |-> TRUE]
BuildIn(f)   == CHOOSE b \in f.of : TRUE
Installed    == BuildIn(exe)

(* Mutant: -X names a variable that does not exist, and nothing is stamped. *)
VersionUnstamped(b) == <<>>

(* Version: a build without -ldflags stays "dev", here the empty version.  *)
VersionOf(b) == IF b.kind = "dev" THEN <<>> ELSE log[b.commit]

TypeOK ==
  /\ Publisher!TypeOK
  /\ checkout \in Publisher!Commits
  /\ exe \in File
  /\ staged \in File \cup {None}
  /\ proc \in [Procs -> Process]

Init ==
  LET first == [kind |-> "release", commit |-> 1]
  IN  /\ Publisher!Init
      /\ checkout = 1
      /\ exe = WholeFile(first)
      /\ staged = None
      /\ proc = [p \in Procs |->
                   [pc |-> "off", force |-> FALSE, got |-> None,
                    open |-> "none", was |-> first, said |-> "nothing"]]
-----------------------------------------------------------------------------
At(p, pc) == proc[p].pc = pc

(* What becomes of an open file when the path it is at is taken away.      *)
Kept(o)    == o
Removed(o) == IF o = "staged" THEN "gone" ELSE o
Renamed(o) == IF o = "staged" THEN "exe" ELSE IF o = "exe" THEN "gone" ELSE o

(* Process p goes on as r, the files the others have open move.            *)
Becomes(p, r, Move(_)) ==
  proc' = [q \in Procs |-> IF q = p THEN r ELSE [proc[q] EXCEPT !.open = Move(@)]]

Done(p, msg) ==
  [proc[p] EXCEPT !.pc = "off", !.force = FALSE, !.open = "none", !.said = msg]

(* cmdUpdate, started from the binary at exe, which must be able to run.   *)
Start(p, mode, force) ==
  /\ At(p, "off")
  /\ exe.whole
  /\ proc' = [proc EXCEPT ![p] =
       [pc |-> IF mode = "source" THEN "pull" ELSE "get", force |-> force,
        got |-> None, open |-> "none", was |-> Installed, said |-> "nothing"]]
  /\ UNCHANGED <<pub, checkout, exe, staged>>

(* Source mode: git pull, and the comparison of the commits around it.     *)
Pull(p) ==
  /\ At(p, "pull")
  /\ checkout' = Len(log)
  /\ LET b == [kind |-> "dev", commit |-> checkout']
     IN  IF checkout' = checkout /\ ~proc[p].force
         THEN proc' = [proc EXCEPT ![p].pc = "off", ![p].got = b,
                                   ![p].said = "uptodate"]
         ELSE proc' = [proc EXCEPT ![p].pc = "build", ![p].got = b]
  /\ UNCHANGED <<pub, exe, staged>>

(* go build -o exe.new moves a whole binary there, a file of its own, or,  *)
(* if it was built on another file system, takes away what is there and    *)
(* copies the binary (see Open, Copy), or fails (see Fail).                *)
Compile(p) ==
  LET b == [kind |-> "dev", commit |-> checkout]
      Goes(pc) == Becomes(p, [proc[p] EXCEPT !.pc = pc, !.got = b], Removed)
  IN  /\ At(p, "build")
      /\ \/ staged' = WholeFile(b) /\ Goes("swap")
         \/ staged' = None /\ Goes("open")
      /\ UNCHANGED <<pub, checkout, exe>>

(* Mutant: the page that says 404 is taken for the binary. *)
StatusIgnored == TRUE

StatusOK == latest # None

(* Release mode: the response names the release there is at this moment.   *)
Get(p) ==
  /\ At(p, "get")
  /\ StatusOK
  /\ proc' = [proc EXCEPT ![p].pc = "open",
                          ![p].got = [kind |-> "release", commit |-> latest]]
  /\ UNCHANGED <<pub, checkout, exe, staged>>

(* O_CREATE|O_TRUNC: what is in the file is what is still written to it.   *)
Opened(p) ==
  [of |-> {proc[q].got : q \in {q \in Procs : q = p \/ proc[q].open = "staged"}},
   by |-> p, whole |-> FALSE]

Open(p) ==
  /\ At(p, "open")
  /\ staged' = Opened(p)
  /\ proc' = [proc EXCEPT ![p].pc = "copy", ![p].open = "staged"]
  /\ UNCHANGED <<pub, checkout, exe>>

FromRelease(p) == proc[p].got # None /\ proc[p].got.kind = "release"

(* The version is read of a download only. *)
Written(p) ==
  [proc[p] EXCEPT !.pc = IF FromRelease(p) THEN "version" ELSE "swap", !.open = "none"]

(* All of a binary is in the file: it is whole if nobody cut off what p    *)
(* wrote, nor mixed another build into it.                                 *)
Filled(p, f) ==
  [f EXCEPT !.whole = @ \/ (f.by = p /\ Cardinality(f.of) = 1)]

Copy(p) ==
  /\ At(p, "copy")
  /\ proc' = [proc EXCEPT ![p] = Written(p)]
  /\ exe'    = IF proc[p].open = "exe" THEN Filled(p, exe) ELSE exe
  /\ staged' = IF proc[p].open = "staged" THEN Filled(p, staged) ELSE staged
  /\ UNCHANGED <<pub, checkout>>

(* Mutant: an error of the copy is not noticed. *)
CopyCutOff(p) ==
  /\ At(p, "copy")
  /\ proc' = [proc EXCEPT ![p] = Written(p)]
  /\ UNCHANGED <<pub, checkout, exe, staged>>

(* The copy fails and removes the path, or the Close of a download fails   *)
(* and leaves it.                                                          *)
CopyFails(p) ==
  /\ At(p, "copy")
  /\ \/ staged' = None /\ Becomes(p, Done(p, "failed"), Removed)
     \/ FromRelease(p) /\ UNCHANGED staged /\ Becomes(p, Done(p, "failed"), Kept)
  /\ UNCHANGED <<pub, checkout, exe>>

(* binaryVersion: running the staged file fails if it is not a whole       *)
(* binary, and may fail anyway: no version, which is not that of p.        *)
Reported ==
  {None} \cup IF staged # None /\ staged.whole
              THEN {VersionOf(BuildIn(staged))} ELSE {}

ReadVersion(p) ==
  /\ At(p, "version")
  /\ \E v \in Reported :
       IF v = VersionOf(proc[p].was) /\ ~proc[p].force
       THEN staged' = None /\ Becomes(p, Done(p, "uptodate"), Removed)
       ELSE UNCHANGED staged /\ proc' = [proc EXCEPT ![p].pc = "swap"]
  /\ UNCHANGED <<pub, checkout, exe>>

swap(p) ==
  /\ At(p, "swap")
  /\ staged # None
  /\ exe' = staged
  /\ staged' = None
  /\ Becomes(p, Done(p, "updated"), Renamed)
  /\ UNCHANGED <<pub, checkout>>

(* Mutant: an error of the rename is not noticed. *)
SwapErrorDropped(p) ==
  /\ At(p, "swap")
  /\ staged' = None
  /\ Becomes(p, Done(p, "updated"), Removed)
  /\ UNCHANGED <<pub, checkout, exe>>

(* Chmod or Rename fails; the staged file is removed. *)
SwapFails(p) ==
  /\ At(p, "swap")
  /\ staged' = None
  /\ Becomes(p, Done(p, "failed"), Removed)
  /\ UNCHANGED <<pub, checkout, exe>>

(* git pull, go build, the request, its status or the opening fails.       *)
Fail(p) ==
  /\ proc[p].pc \in {"pull", "build", "get", "open"}
  /\ Becomes(p, Done(p, "failed"), Kept)
  /\ UNCHANGED <<pub, checkout, exe, staged>>

Crash(p) ==
  /\ ~At(p, "off")
  /\ Becomes(p, Done(p, "nothing"), Kept)
  /\ UNCHANGED <<pub, checkout, exe, staged>>

Publish == Publisher!Next /\ UNCHANGED <<checkout, exe, staged, proc>>

Go(p) ==
  \/ Pull(p) \/ Compile(p)
  \/ Get(p) \/ Open(p) \/ Copy(p) \/ CopyFails(p) \/ ReadVersion(p)
  \/ swap(p) \/ SwapFails(p) \/ Fail(p)

Step(p) ==
  \/ \E mode \in Modes, force \in BOOLEAN : Start(p, mode, force)
  \/ Go(p)
  \/ Crash(p)

Next == Publish \/ \E p \in Procs : Step(p)

Spec == Init /\ [][Next]_vars

(* No update hangs; updates from releases are tried again and again, and   *)
(* of the infinitely many tries of a step that can succeed some do.        *)
Persistence ==
  \A p \in Procs :
    /\ WF_vars(Go(p))
    /\ SF_vars(\E force \in BOOLEAN : Start(p, "release", force))
    /\ SF_vars(Get(p)) /\ SF_vars(ReadVersion(p))
    /\ SF_vars(FromRelease(p) /\ Open(p)) /\ SF_vars(FromRelease(p) /\ Copy(p))
    /\ SF_vars(FromRelease(p) /\ swap(p))

FairSpec == Spec /\ Persistence
-----------------------------------------------------------------------------
(* "the swap is an atomic rename over the live binary, so this works"      *)
(* (cmdUpdate): at every moment, crashes included, what is installed is    *)
(* one whole build.                                                        *)
InstalledWhole == exe.whole

(* What an update says is true of the machine: "Updated" means that        *)
(* exactly what was built or downloaded is installed, an error that        *)
(* nothing was changed, and "Already up to date" that nothing was changed  *)
(* and, of a download, that it is the build already installed.             *)
HonestUpdate ==
  \A p \in Procs :
    LET said == proc[p].said
    IN  At(p, "off") =>
          /\ said = "updated" => Installed = proc[p].got
          /\ said \in {"failed", "uptodate"} => Installed = proc[p].was
          /\ said = "uptodate" /\ FromRelease(p) => Installed = proc[p].got

(* An update is a transaction: whatever it does to the two files, and      *)
(* wherever it fails or crashes, what is installed changes in no other     *)
(* step than the one in which it ends with "Updated", and then it becomes  *)
(* what the update had chosen.                                             *)
Promised ==
  INSTANCE Installation WITH
    installed <- IF exe.whole THEN Installed ELSE None,
    running   <- {p \in Procs : ~At(p, "off")},
    wanted    <- [p \in Procs |-> IF At(p, "off") THEN None ELSE proc[p].got],
    said      <- [p \in Procs |-> proc[p].said]

Transactional == Promised!Spec

(* "Never let two builds race on the moving latest tag" (release.yml): a   *)
(* release stands until a further workflow is started.                     *)
LatestStands == Publisher!LatestStands

(* No version is used twice, on which "Already up to date" relies.         *)
VersionsGrow == Publisher!VersionsGrow

(* "just git push and the fleet can update": if the publisher settles on a *)
(* release, a machine that keeps trying keeps getting it.                  *)
CatchesUp ==
  \A c \in Publisher!Commits :
    <>[](latest = c) => []<>(Installed = [kind |-> "release", commit |-> c])

(* The "already up to date" check reflects "the exact commit a machine is  *)
(* running" (README.md): it is only said of the commit that is installed.  *)
UpToDateIsInstalled ==
  \A p \in Procs :
    At(p, "off") /\ proc[p].said = "uptodate" => Installed.commit = proc[p].got.commit
=============================================================================
