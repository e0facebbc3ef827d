---------------------------- MODULE UpdateProofs ----------------------------
(***************************************************************************)
(* Proofs about Update and Release, for any length of the history.  Types  *)
(* and what the workflows do to the release hold for any number of         *)
(* processes.  That the binary is whole, that an update says the truth and *)
(* that it is a transaction is proved for one process at a time, since two *)
(* of them break it (run update_shared).                                   *)
(***************************************************************************)
EXTENDS Update, FiniteSetTheorems, TLAPS

(* The commits there are, and the builds that can have been made of them.  *)
Known == {b \in Build : b.commit <= Len(log)}

(* At most one workflow is under way, and none once a release stands;      *)
(* only commits are built; versions do not outgrow the history.            *)
PubInv ==
  /\ Publisher!TypeOK
  /\ LatestStands
  /\ latest # None => latest <= Len(log)
  /\ \A w \in workflows : w.commit <= Len(log)
  /\ \A v, w \in workflows : v = w
  /\ standing # None => workflows = {}
  /\ \A i \in 1 .. Len(log) : log[i][1] + log[i][2] < i

(* One commit, released.                                                   *)
LEMMA InitPub == Publisher!Init => PubInv
<1> SUFFICES ASSUME Publisher!Init PROVE PubInv
  OBVIOUS
<1>1. log = << <<0, 0>> >> /\ Len(log) = 1 /\ log[1] = <<0, 0>>
  BY DEF Publisher!Init
<1>2. <<0, 0>> \in Publisher!Versions
  BY UpdateAssumption DEF Publisher!Versions
<1>3. Publisher!TypeOK
  BY <1>1, <1>2, UpdateAssumption
     DEF Publisher!Init, Publisher!TypeOK, Publisher!Commits
<1>4. QED
  BY <1>1, <1>3
     DEF Publisher!Init, PubInv, LatestStands, Publisher!LatestStands

(* A push appends a version and leaves those there are.                    *)
LEMMA PushAppends ==
  ASSUME PubInv, NEW edit, Publisher!Push(edit)
  PROVE  /\ Len(log') = Len(log) + 1
         /\ log' \in Seq(Publisher!Versions)
         /\ Len(log') \in Publisher!Commits
         /\ \A i \in 1 .. Len(log) : log'[i] = log[i]
         /\ log'[Len(log')] = Publisher!NextVersion(edit)
         /\ log'[Len(log')][1] + log'[Len(log')][2] < Len(log')
<1> DEFINE n == Len(log)
           v == Publisher!NextVersion(edit)
<1>1. /\ log \in Seq(Publisher!Versions) /\ n \in 1 .. MaxCommits
      /\ n < MaxCommits /\ MaxCommits \in Nat
      /\ log' = Append(log, v)
  BY UpdateAssumption
     DEF PubInv, Publisher!TypeOK, Publisher!Commits, Publisher!Push
<1>2. /\ log[n] \in Publisher!Versions
      /\ log[n][1] \in Nat /\ log[n][2] \in Nat
      /\ log[n][1] + log[n][2] < n
  <2>1. log[n] \in Publisher!Versions
    BY <1>1
  <2>2. \A x \in Publisher!Versions : x[1] \in Nat /\ x[2] \in Nat
    BY <1>1 DEF Publisher!Versions
  <2>3. QED
    BY <1>1, <2>1, <2>2 DEF PubInv
<1>3. /\ v = <<v[1], v[2]>> /\ v[1] \in Nat /\ v[2] \in Nat
      /\ v[1] + v[2] <= log[n][1] + log[n][2] + 1
  BY <1>2 DEF Publisher!NextVersion
<1>4. v \in Publisher!Versions
  BY <1>1, <1>2, <1>3 DEF Publisher!Versions
<1>5. QED
  BY <1>1, <1>2, <1>3, <1>4 DEF Publisher!Commits

(* Every step of the publisher keeps its invariant and the versions there  *)
(* are.                                                                    *)
LEMMA NextPub ==
  ASSUME PubInv, Publisher!Next
  PROVE  /\ PubInv'
         /\ Len(log) <= Len(log')
         /\ \A i \in 1 .. Len(log) : log'[i] = log[i]
<1> USE DEF PubInv, LatestStands, Publisher!LatestStands, Publisher!TypeOK
<1>0. /\ Len(log) \in Nat /\ None \notin Publisher!Commits
      /\ log \in Seq(Publisher!Versions)
      /\ \A w \in workflows : w \in Publisher!Workflow /\ w.commit \in Nat
      /\ Len(log) \in Publisher!Commits
      /\ latest # None => latest \in Nat
  BY UpdateAssumption DEF Publisher!Commits, Publisher!Workflow
<1>1. ASSUME NEW edit \in Edits, Publisher!Push(edit) PROVE PubInv'
  <2>1. \A i \in 1 .. Len(log') : log'[i][1] + log'[i][2] < i
    BY <1>0, <1>1, PushAppends
  <2>2. QED
    BY <1>0, <1>1, <2>1, PushAppends DEF Publisher!Push
<1>2. ASSUME NEW c \in 1 .. Len(log), Publisher!Trigger(c) PROVE PubInv'
  <2>1. [step |-> "build", commit |-> c] \in Publisher!Workflow
    BY <1>0, UpdateAssumption DEF Publisher!Workflow, Publisher!Commits
  <2>2. QED
    BY <1>0, <1>2, <2>1 DEF Publisher!Trigger
<1>3. ASSUME NEW w \in workflows, NEW step \in {"delete", "create"},
             Publisher!Advance(w, step)
      PROVE  /\ workflows' \in SUBSET Publisher!Workflow
             /\ \A v \in workflows' : v.commit = w.commit
             /\ \A u, v \in workflows' : u = v
  BY <1>0, <1>3 DEF Publisher!Advance, Publisher!Workflow
<1>4. ASSUME NEW w \in workflows, Publisher!Built(w) PROVE PubInv'
  BY <1>0, <1>3, <1>4 DEF Publisher!Built
<1>5. ASSUME NEW w \in workflows, Publisher!Delete(w) PROVE PubInv'
  BY <1>0, <1>3, <1>5 DEF Publisher!Delete
<1>6. ASSUME NEW w \in workflows, Publisher!Create(w) PROVE PubInv'
  <2>1. workflows' = {}
    BY <1>6 DEF Publisher!Create
  <2>2. w.commit \in Publisher!Commits /\ w.commit <= Len(log)
    BY <1>6, <1>0 DEF Publisher!Workflow
  <2>3. CASE latest = None
    BY <1>0, <1>6, <2>1, <2>2, <2>3 DEF Publisher!Create
  <2>4. CASE latest # None
    BY <1>0, <1>6, <2>1, <2>4 DEF Publisher!Create
  <2>5. QED
    BY <2>3, <2>4
<1>7. ASSUME NEW w \in workflows, Publisher!WorkflowFails(w) PROVE PubInv'
  BY <1>0, <1>7 DEF Publisher!WorkflowFails
<1>8. Len(log) <= Len(log') /\ \A i \in 1 .. Len(log) : log'[i] = log[i]
  BY <1>0, PushAppends
     DEF Publisher!Next, Publisher!Trigger, Publisher!Built, Publisher!Delete,
         Publisher!Create, Publisher!WorkflowFails
<1>9. QED
  BY <1>1, <1>2, <1>4, <1>5, <1>6, <1>7, <1>8 DEF Publisher!Next

-----------------------------------------------------------------------------
(* A file holds something, and only builds of commits there are.           *)
FileInv(f, known) == f \in File /\ f.of # {} /\ f.of \subseteq known

(* A process knows what it installs before it opens a file for it, has a   *)
(* file open only while it copies, and if that is the staged file then     *)
(* there is one, namely stg.                                               *)
ProcInv(r, stg, known) ==
  /\ r \in Process
  /\ r.was \in known
  /\ r.got \in known \cup {None}
  /\ r.pc \in {"open", "copy", "version", "swap"} => r.got # None
  /\ r.open # "none" => r.pc = "copy"
  /\ r.open = "staged" => stg # None

UpdateInv ==
  /\ PubInv
  /\ checkout \in 1 .. Len(log)
  /\ FileInv(exe, Known)
  /\ staged # None => FileInv(staged, Known)
  /\ proc \in [Procs -> Process]
  /\ \A q \in Procs : ProcInv(proc[q], staged, Known)

(* What is in a file that holds something.                                 *)
LEMMA BuildInOf == ASSUME NEW f, f.of # {} PROVE BuildIn(f) \in f.of
  BY DEF BuildIn

(* A build of a commit that there is.                                      *)
LEMMA CommitKnown ==
  ASSUME PubInv, NEW kind \in {"release", "dev"}, NEW c \in 1 .. Len(log)
  PROVE  [kind |-> kind, commit |-> c] \in Known
<1>1. c \in Publisher!Commits /\ c <= Len(log)
  BY UpdateAssumption DEF PubInv, Publisher!TypeOK, Publisher!Commits
<1>2. QED
  BY <1>1 DEF Known, Build

(* A whole file is a file, and a file is not nothing.                      *)
LEMMA WholeFileInv ==
  ASSUME NEW known, known \subseteq Build, NEW b \in known
  PROVE  FileInv(WholeFile(b), known)
  BY DEF FileInv, File, WholeFile

(* A file is not nothing.                                                  *)
LEMMA FileSome ==
  ASSUME NEW f, NEW known, FileInv(f, known) PROVE f # None
  BY UpdateAssumption DEF FileInv

(* A file in which everything has been written is the file it was.         *)
LEMMA FilledFile ==
  ASSUME NEW p \in Procs, NEW f, NEW known, FileInv(f, known)
  PROVE  FileInv(Filled(p, f), known) /\ Filled(p, f).of = f.of
  BY DEF FileInv, File, Filled

(* A fresh installation.                                                   *)
LEMMA InitUpdate == Init => UpdateInv
<1> SUFFICES ASSUME Init PROVE UpdateInv
  OBVIOUS
<1> DEFINE first == [kind |-> "release", commit |-> 1]
<1>1. PubInv /\ Len(log) = 1
  BY InitPub DEF Init, Publisher!Init
<1>2. first \in Known
  BY <1>1, UpdateAssumption DEF Known, Build, Publisher!Commits
<1>3. FileInv(WholeFile(first), Known)
  BY <1>2, WholeFileInv DEF Known
<1>4. QED
  BY <1>1, <1>2, <1>3 DEF Init, UpdateInv, ProcInv, Process, Known

(* A step of a process changes nothing of the publisher.                   *)
LEMMA SamePub ==
  ASSUME PubInv, UNCHANGED pub PROVE PubInv' /\ Known' = Known
  BY DEF PubInv, pub, LatestStands, Publisher!LatestStands, Publisher!TypeOK, Known

(* The file a process has open moves with the path it is at.               *)
LEMMA OpenMoves ==
  ASSUME NEW r, NEW s, NEW t, NEW known, ProcInv(r, s, known),
         NEW o \in {Kept(r.open), Removed(r.open), Renamed(r.open)},
         o = "staged" => t # None
  PROVE  ProcInv([r EXCEPT !.open = o], t, known)
<1>1. /\ o \in {"none", "exe", "staged", "gone"}
      /\ o # "none" => r.open # "none"
  BY DEF ProcInv, Process, Kept, Removed, Renamed
<1>2. QED
  BY <1>1 DEF ProcInv, Process

(* What is to be shown of a step of process p, which goes on as r.         *)
LEMMA StepFrame ==
  ASSUME UpdateInv, NEW p \in Procs, UNCHANGED pub,
         checkout' \in 1 .. Len(log), FileInv(exe', Known),
         staged' # None => FileInv(staged', Known),
         NEW r, ProcInv(r, staged', Known),
         \/ proc' = [proc EXCEPT ![p] = r] /\ (staged # None => staged' # None)
         \/ Becomes(p, r, Kept) /\ (staged # None => staged' # None)
         \/ Becomes(p, r, Removed)
         \/ Becomes(p, r, Renamed)
  PROVE  UpdateInv'
<1>1. ASSUME NEW q \in Procs
      PROVE  proc'[q] \in Process /\ ProcInv(proc'[q], staged', Known)
  <2>1. CASE q = p
    BY <2>1 DEF UpdateInv, ProcInv, Becomes
  <2>2. CASE q # p
    <3>1. proc[q] \in Process /\ ProcInv(proc[q], staged, Known)
      BY DEF UpdateInv
    <3>2. PICK o \in {Kept(proc[q].open), Removed(proc[q].open), Renamed(proc[q].open)} :
            proc'[q] = [proc[q] EXCEPT !.open = o] /\ (o = "staged" => staged' # None)
      BY <2>2, <3>1
         DEF Becomes, Kept, Removed, Renamed, UpdateInv, ProcInv, Process
    <3>3. ProcInv([proc[q] EXCEPT !.open = o], staged', Known)
      BY <3>1, <3>2, OpenMoves
    <3>4. QED
      BY <3>2, <3>3 DEF ProcInv
  <2>3. QED
    BY <2>1, <2>2
<1>2. proc' \in [Procs -> Process]
  BY <1>1 DEF Becomes, UpdateInv
<1>3. QED
  BY <1>1, <1>2, SamePub DEF UpdateInv, pub

(* The steps of one process.                                               *)
LEMMA StepUpdate ==
  ASSUME UpdateInv, NEW p \in Procs, Step(p) PROVE UpdateInv'
<1> DEFINE r == proc[p]
<1>0. /\ r \in Process /\ ProcInv(r, staged, Known) /\ PubInv
      /\ Len(log) \in Publisher!Commits /\ Len(log) \in Nat
      /\ p # None /\ None \notin File /\ None \notin Build
      /\ None \notin Publisher!Commits
      /\ Known \subseteq Build
      /\ checkout \in 1 .. Len(log) /\ FileInv(exe, Known)
      /\ staged # None => FileInv(staged, Known)
  BY UpdateAssumption DEF UpdateInv, PubInv, Publisher!TypeOK, Known
<1>1. ASSUME NEW msg \in {"nothing", "updated", "uptodate", "failed"}, NEW stg
      PROVE  ProcInv(Done(p, msg), stg, Known)
  BY <1>0, <1>1 DEF Done, ProcInv, Process
<1>2. ASSUME NEW mode \in Modes, NEW force \in BOOLEAN, Start(p, mode, force)
      PROVE  UpdateInv'
  <2> DEFINE s == [pc |-> IF mode = "source" THEN "pull" ELSE "get", force |-> force,
                   got |-> None, open |-> "none", was |-> Installed, said |-> "nothing"]
  <2>1. Installed \in Known
    BY <1>0, BuildInOf DEF FileInv, Installed
  <2>2. ProcInv(s, staged', Known)
    BY <1>0, <2>1 DEF ProcInv, Process
  <2>3. QED
    BY <1>0, <1>2, <2>2, StepFrame DEF Start
<1>3. CASE Pull(p)
  <2> DEFINE b == [kind |-> "dev", commit |-> checkout']
             s == IF checkout' = checkout /\ ~r.force
                  THEN [r EXCEPT !.pc = "off", !.got = b, !.said = "uptodate"]
                  ELSE [r EXCEPT !.pc = "build", !.got = b]
  <2>1. checkout' \in 1 .. Len(log) /\ b \in Known
    BY <1>0, <1>3, CommitKnown DEF Pull, Publisher!Commits
  <2>2. ProcInv(s, staged', Known)
    <3>1. r.pc = "pull" /\ r.open = "none" /\ staged' = staged
      BY <1>0, <1>3 DEF Pull, At, ProcInv
    <3>2. QED
      BY <1>0, <2>1, <3>1 DEF ProcInv, Process
  <2>3. proc' = [proc EXCEPT ![p] = s]
    BY <1>3 DEF Pull
  <2>4. QED
    BY <1>0, <1>3, <2>1, <2>2, <2>3, StepFrame DEF Pull
<1>4. CASE Compile(p)
  <2> DEFINE b    == [kind |-> "dev", commit |-> checkout]
             s(x) == [r EXCEPT !.pc = x, !.got = b]
  <2>1. b \in Known /\ FileInv(WholeFile(b), Known)
    BY <1>0, CommitKnown, WholeFileInv
  <2>2. r.pc = "build" /\ UNCHANGED <<pub, checkout, exe>>
    BY <1>4 DEF Compile, At
  <2>3. ASSUME staged' = WholeFile(b), Becomes(p, s("swap"), Removed) PROVE UpdateInv'
    <3> DEFINE q == s("swap")
    <3>1. r.open = "none" /\ staged' # None
      BY <1>0, <2>1, <2>2, <2>3, FileSome DEF ProcInv
    <3>2. ProcInv(q, staged', Known)
      BY <1>0, <2>1, <3>1 DEF ProcInv, Process
    <3>3. QED
      BY <1>0, <2>1, <2>2, <2>3, <3>2, StepFrame
  <2>4. ASSUME staged' = None, Becomes(p, s("open"), Removed) PROVE UpdateInv'
    <3> DEFINE q == s("open")
    <3>1. r.open = "none"
      BY <1>0, <2>2 DEF ProcInv
    <3>2. ProcInv(q, staged', Known)
      BY <1>0, <2>1, <3>1 DEF ProcInv, Process
    <3>3. QED
      BY <1>0, <2>1, <2>2, <2>4, <3>2, StepFrame
  <2>5. QED
    BY <1>4, <2>3, <2>4 DEF Compile
<1>5. CASE Get(p)
  <2> DEFINE b == [kind |-> "release", commit |-> latest]
             s == [r EXCEPT !.pc = "open", !.got = b]
  <2>1. b \in Known
    BY <1>0, <1>5
       DEF Get, StatusOK, PubInv, Publisher!TypeOK, Known, Build
  <2>2. ProcInv(s, staged', Known)
    BY <1>0, <1>5, <2>1 DEF Get, At, ProcInv, Process
  <2>3. QED
    BY <1>0, <1>5, <2>2, StepFrame DEF Get
<1>6. CASE Open(p)
  <2> DEFINE s == [r EXCEPT !.pc = "copy", !.open = "staged"]
  <2>1. r.got \in Known
    BY <1>0, <1>6 DEF Open, At, ProcInv
  <2>2. \A q \in Procs : proc[q].open = "staged" => proc[q].got \in Known
    BY DEF UpdateInv, ProcInv
  <2>3. FileInv(staged', Known) /\ staged' # None
    <3>1. FileInv(Opened(p), Known)
      BY <1>0, <2>1, <2>2 DEF Opened, File, FileInv
    <3>2. QED
      BY <1>6, <3>1, FileSome DEF Open
  <2>4. ProcInv(s, staged', Known)
    BY <1>0, <2>1, <2>3 DEF ProcInv, Process
  <2>5. QED
    BY <1>0, <1>6, <2>3, <2>4, StepFrame DEF Open
<1>7. CASE Copy(p)
  <2> DEFINE s == Written(p)
  <2>1. ProcInv(s, staged', Known)
    BY <1>0, <1>7 DEF Copy, Written, At, ProcInv, Process
  <2>2. FileInv(exe', Known)
    BY <1>0, <1>7, FilledFile DEF Copy
  <2>3. /\ staged' # None => FileInv(staged', Known)
        /\ staged # None => staged' # None
    <3>1. staged # None => FileInv(Filled(p, staged), Known)
      BY <1>0, FilledFile
    <3>2. staged' \in {staged, Filled(p, staged)} /\ (staged = None => staged' = None)
      BY <1>0, <1>7 DEF Copy, ProcInv
    <3>3. QED
      BY <1>0, <3>1, <3>2, FileSome
  <2>4. QED
    BY <1>0, <1>7, <2>1, <2>2, <2>3, StepFrame DEF Copy, pub
<1>8. CASE CopyFails(p)
  BY <1>0, <1>1, <1>8, StepFrame DEF CopyFails
<1>9. CASE ReadVersion(p)
  <2>1. ASSUME staged' = None, Becomes(p, Done(p, "uptodate"), Removed) PROVE UpdateInv'
    BY <1>0, <1>1, <1>9, <2>1, StepFrame DEF ReadVersion
  <2>2. ASSUME UNCHANGED staged, proc' = [proc EXCEPT ![p].pc = "swap"] PROVE UpdateInv'
    <3> DEFINE s == [r EXCEPT !.pc = "swap"]
    <3>1. ProcInv(s, staged', Known)
      BY <1>0, <1>9, <2>2 DEF ReadVersion, At, ProcInv, Process
    <3>2. QED
      BY <1>0, <1>9, <2>2, <3>1, StepFrame DEF ReadVersion
  <2>3. QED
    BY <1>9, <2>1, <2>2 DEF ReadVersion
<1>10. CASE swap(p)
  BY <1>0, <1>1, <1>10, StepFrame DEF swap
<1>11. CASE SwapFails(p)
  BY <1>0, <1>1, <1>11, StepFrame DEF SwapFails
<1>12. CASE Fail(p)
  BY <1>0, <1>1, <1>12, StepFrame DEF Fail
<1>13. CASE Crash(p)
  BY <1>0, <1>1, <1>13, StepFrame DEF Crash
<1>14. QED
  BY <1>2, <1>3, <1>4, <1>5, <1>6, <1>7, <1>8, <1>9, <1>10, <1>11, <1>12, <1>13
     DEF Step, Go

(* Every step keeps the invariant.                                         *)
LEMMA NextUpdate == UpdateInv /\ [Next]_vars => UpdateInv'
<1> SUFFICES ASSUME UpdateInv, [Next]_vars PROVE UpdateInv'
  OBVIOUS
<1>1. CASE Publish
  <2>1. PubInv' /\ Len(log) <= Len(log') /\ Len(log) \in Nat /\ Len(log') \in Nat
    BY <1>1, NextPub, UpdateAssumption
       DEF Publish, UpdateInv, PubInv, Publisher!TypeOK, Publisher!Commits
  <2>2. Known \subseteq Known'
    BY <2>1 DEF Known, Build, Publisher!Commits
  <2>3. QED
    BY <1>1, <2>1, <2>2 DEF Publish, UpdateInv, FileInv, ProcInv
<1>2. ASSUME NEW p \in Procs, Step(p) PROVE UpdateInv'
  BY <1>2, StepUpdate
<1>3. CASE UNCHANGED vars
  BY <1>3, SamePub DEF UpdateInv, vars, pub
<1>4. QED
  BY <1>1, <1>2, <1>3 DEF Next

(* For any number of processes and any history, types are kept; what the   *)
(* file operations leave at the two paths is always made of builds.        *)
THEOREM UpdateTypeOK == Spec => []TypeOK
<1>1. UpdateInv => TypeOK
  BY UpdateAssumption
     DEF UpdateInv, PubInv, FileInv, TypeOK, Publisher!TypeOK, Publisher!Commits
<1>2. QED
  BY <1>1, InitUpdate, NextUpdate, PTL DEF Spec

(* Whatever is pushed, dispatched, cancelled or fails, in whatever order   *)
(* workflows start: a release that has been put up stands until a further  *)
(* workflow is started.                                                    *)
THEOREM ReleaseStands == Spec => []LatestStands
<1>1. UpdateInv => LatestStands
  BY DEF UpdateInv, PubInv
<1>2. QED
  BY <1>1, InitUpdate, NextUpdate, PTL DEF Spec
-----------------------------------------------------------------------------
(* If VERSION is only ever changed to bump it, no version is used twice.   *)
LEMMA KeepsGrowing ==
  ASSUME Edits \subseteq {"none", "bump"}, PubInv, VersionsGrow, Publisher!Next
  PROVE  VersionsGrow'
<1>0. /\ Len(log) \in Nat \ {0}
      /\ \A i \in 1 .. Len(log) : log[i][1] \in Nat /\ log[i][2] \in Nat
  <2>1. Len(log) \in 1 .. MaxCommits /\ log \in Seq(Publisher!Versions)
    BY DEF PubInv, Publisher!TypeOK, Publisher!Commits
  <2>2. \A x \in Publisher!Versions : x[1] \in Nat /\ x[2] \in Nat
    BY UpdateAssumption DEF Publisher!Versions
  <2>3. QED
    BY <2>1, <2>2, UpdateAssumption
<1>1. ASSUME NEW edit \in Edits, Publisher!Push(edit) PROVE VersionsGrow'
  <2> DEFINE n == Len(log)
             v == Publisher!NextVersion(edit)
  <2>1. /\ Len(log') = n + 1 /\ log'[n + 1] = v
        /\ \A i \in 1 .. n : log'[i] = log[i]
    BY <1>1, PushAppends
  <2>2. Publisher!Later(log[n], v) /\ v[1] \in Nat /\ v[2] \in Nat
    BY <1>0, <1>1 DEF Publisher!NextVersion, Publisher!Later
  <2>3. \A i \in 1 .. n : Publisher!Later(log[i], v)
    BY <1>0, <2>2 DEF VersionsGrow, Publisher!VersionsGrow,
       Publisher!Later
  <2>4. QED
    BY <1>0, <2>1, <2>3 DEF VersionsGrow, Publisher!VersionsGrow
<1>2. ASSUME UNCHANGED log PROVE VersionsGrow'
  BY <1>2 DEF VersionsGrow, Publisher!VersionsGrow
<1>3. QED
  BY <1>1, <1>2
     DEF Publisher!Next, Publisher!Trigger, Publisher!Built, Publisher!Delete,
         Publisher!Create, Publisher!WorkflowFails

(* A build has a version, which may be the empty one.                      *)
LEMMA KnownVersion ==
  ASSUME PubInv, NEW b \in Known PROVE VersionOf(b) # None
<1>1. b.commit \in 1 .. Len(log) /\ None \notin Publisher!Versions /\ None # <<>>
  BY UpdateAssumption DEF Known, Build, PubInv, Publisher!TypeOK, Publisher!Commits
<1>2. log[b.commit] \in Publisher!Versions
  BY <1>1 DEF PubInv, Publisher!TypeOK
<1>3. QED
  BY <1>1, <1>2 DEF VersionOf

(* Two released builds of one version are one build.                       *)
LEMMA SameVersion ==
  ASSUME PubInv, VersionsGrow, NEW b \in Known, NEW c \in Known, c.kind = "release",
         VersionOf(b) = VersionOf(c)
  PROVE  b = c
<1>1. /\ b.commit \in 1 .. Len(log) /\ c.commit \in 1 .. Len(log)
      /\ b.kind \in {"release", "dev"}
      /\ b = [kind |-> b.kind, commit |-> b.commit]
      /\ c = [kind |-> c.kind, commit |-> c.commit]
  BY UpdateAssumption DEF Known, Build, PubInv, Publisher!TypeOK, Publisher!Commits
<1>2. \A i \in 1 .. Len(log) :
        log[i] # <<>> /\ log[i][1] \in Nat /\ log[i][2] \in Nat
  <2>1. \A i \in 1 .. Len(log) : log[i] \in Publisher!Versions
    BY DEF PubInv, Publisher!TypeOK
  <2>2. \A x \in Publisher!Versions : x # <<>> /\ x[1] \in Nat /\ x[2] \in Nat
    BY UpdateAssumption DEF Publisher!Versions
  <2>3. QED
    BY <2>1, <2>2
<1>3. b.kind = "release" /\ log[b.commit] = log[c.commit]
  BY <1>1, <1>2 DEF VersionOf
<1>4. b.commit = c.commit
  <2>1. \A i, j \in 1 .. Len(log) : i < j => log[i] # log[j]
    BY <1>2 DEF VersionsGrow, Publisher!VersionsGrow,
       Publisher!Later
  <2>2. b.commit \in Int /\ c.commit \in Int
    BY <1>1
  <2>3. b.commit < c.commit \/ c.commit < b.commit \/ b.commit = c.commit
    BY <2>2
  <2>4. QED
    BY <1>1, <1>3, <2>1, <2>3
<1>5. QED
  BY <1>1, <1>3, <1>4

(* One process alone knows what is at the staged path: what it copies      *)
(* there, cut off until the copy ends, and then exactly that; and it is at *)
(* the binary that it was started from.                                    *)
SoloInv(p) ==
  LET r == proc[p]
  IN  /\ exe.whole
      /\ exe.of = {Installed}
      /\ r.pc # "copy" => r.open = "none"
      /\ r.pc = "copy" => r.open = "staged" /\ staged.of = {r.got} /\ staged.by = p
      /\ r.pc \in {"version", "swap"} =>
           staged # None /\ staged.whole /\ staged.of = {r.got}
      /\ r.pc = "version" => r.got.kind = "release"
      /\ r.pc # "off" => Installed = r.was

(* A fresh installation, and no update yet.                                *)
LEMMA InitSolo == ASSUME NEW p, Procs = {p}, Init PROVE SoloInv(p)
  BY DEF Init, SoloInv, WholeFile, Installed, BuildIn

(* What the only process holds, before a step of it.                       *)
LEMMA SoloFacts ==
  ASSUME NEW p, Procs = {p}, UpdateInv
  PROVE  /\ proc[p] \in Process /\ ProcInv(proc[p], staged, Known) /\ PubInv
         /\ DOMAIN proc = {p}
         /\ exe \in File
         /\ staged # None => staged \in File
  BY DEF UpdateInv, FileInv

(* How the process is left by an update that ends.                         *)
LEMMA SoloDone ==
  ASSUME NEW p, Procs = {p}, UpdateInv, NEW msg,
         \/ Becomes(p, Done(p, msg), Kept)
         \/ Becomes(p, Done(p, msg), Removed)
         \/ Becomes(p, Done(p, msg), Renamed)
  PROVE  /\ proc'[p].pc = "off" /\ proc'[p].open = "none" /\ proc'[p].said = msg
         /\ proc'[p].got = proc[p].got /\ proc'[p].was = proc[p].was
<1>1. proc[p] \in Process
  BY SoloFacts
<1>2. proc'[p] = Done(p, msg)
  BY DEF Becomes
<1>3. QED
  BY <1>1, <1>2 DEF Done, Process

(* A step that leaves the binary and ends the update, or reads on.         *)
LEMMA SoloLeaves ==
  ASSUME NEW p, UpdateInv, SoloInv(p), exe' = exe, proc'[p].open = "none",
         \/ proc'[p].pc = "off"
         \/ /\ proc'[p].pc \in {"build", "get", "pull", "open"}
            /\ Installed = proc'[p].was
  PROVE  SoloInv(p)'
  BY DEF SoloInv, Installed

(* The steps of the only process that updates the binary.                  *)
LEMMA StepSolo ==
  ASSUME NEW p, Procs = {p}, UpdateInv, SoloInv(p), Step(p)
  PROVE  SoloInv(p)'
<1> DEFINE r == proc[p]
<1> USE DEF At
<1>0. /\ r \in Process /\ ProcInv(r, staged, Known) /\ PubInv
      /\ DOMAIN proc = {p} /\ SoloInv(p)
      /\ exe \in File
      /\ staged # None => staged \in File
  BY SoloFacts
<1>1. ASSUME NEW mode \in Modes, NEW force \in BOOLEAN, Start(p, mode, force)
      PROVE  SoloInv(p)'
  BY <1>0, <1>1, SoloLeaves DEF Start
<1>2. CASE Pull(p)
  <2>1. r.pc = "pull" /\ r.open = "none" /\ Installed = r.was /\ exe' = exe
    BY <1>0, <1>2 DEF Pull, SoloInv
  <2>2. /\ proc'[p].open = r.open /\ proc'[p].was = r.was
        /\ proc'[p].pc \in {"off", "build"}
    BY <1>0, <1>2 DEF Pull, Process
  <2>3. QED
    BY <2>1, <2>2, SoloLeaves
<1>3. CASE Compile(p)
  <2> DEFINE b    == [kind |-> "dev", commit |-> checkout]
             s(x) == [r EXCEPT !.pc = x, !.got = b]
  <2>1. b \in Known /\ Known \subseteq Build
    BY CommitKnown DEF UpdateInv, Known
  <2>2. r.pc = "build" /\ r.open = "none" /\ Installed = r.was
    BY <1>0, <1>3 DEF Compile, SoloInv
  <2>3. exe' = exe /\ Installed' = Installed
    BY <1>3 DEF Compile, Installed
  <2>4. ASSUME staged' = WholeFile(b), Becomes(p, s("swap"), Removed)
        PROVE  SoloInv(p)'
    <3>1. staged' # None /\ staged'.whole /\ staged'.of = {b}
      BY <2>1, <2>4, WholeFileInv, FileSome DEF WholeFile
    <3>2. /\ proc'[p].pc = "swap" /\ proc'[p].open = r.open
          /\ proc'[p].got = b /\ proc'[p].was = r.was
      BY <1>0, <2>4 DEF Becomes, Process
    <3>3. QED
      BY <1>0, <2>2, <2>3, <3>1, <3>2 DEF SoloInv
  <2>5. ASSUME Becomes(p, s("open"), Removed) PROVE SoloInv(p)'
    <3>1. /\ proc'[p].pc = "open" /\ proc'[p].open = r.open
          /\ proc'[p].was = r.was
      BY <1>0, <2>5 DEF Becomes, Process
    <3>2. QED
      BY <2>2, <2>3, <3>1, SoloLeaves
  <2>6. QED
    BY <1>3, <2>4, <2>5 DEF Compile
<1>4. CASE Get(p)
  <2>1. r.pc = "get" /\ r.open = "none" /\ Installed = r.was /\ exe' = exe
    BY <1>0, <1>4 DEF Get, SoloInv
  <2>2. /\ proc'[p].open = r.open /\ proc'[p].was = r.was
        /\ proc'[p].pc = "open"
    BY <1>0, <1>4 DEF Get, Process
  <2>3. QED
    BY <2>1, <2>2, SoloLeaves
<1>5. CASE Open(p)
  BY <1>0, <1>5 DEF Open, Opened, SoloInv, Installed, Process
<1>6. CASE Copy(p)
  <2>1. staged # None /\ staged.of = {r.got} /\ staged.by = p /\ r.open = "staged"
    BY <1>0, <1>6 DEF Copy, SoloInv, ProcInv
  <2>2. Cardinality(staged.of) = 1
    BY <2>1, FS_Singleton
  <2>3. /\ staged'.whole /\ staged'.of = {r.got}
        /\ exe' = exe
    BY <1>0, <1>6, <2>1, <2>2 DEF Copy, Filled, File
  <2>4. staged' # None
    BY <1>0, <1>6, <2>1, FilledFile, FileSome DEF Copy, UpdateInv
  <2>5. /\ proc'[p].pc \in {"version", "swap"} /\ proc'[p].open = "none"
        /\ proc'[p].pc = "version" => r.got.kind = "release"
        /\ proc'[p].got = r.got /\ proc'[p].was = r.was
    BY <1>0, <1>6 DEF Copy, Written, FromRelease, Process
  <2>6. QED
    BY <1>0, <1>6, <2>3, <2>4, <2>5 DEF Copy, SoloInv, Installed
<1>7. CASE CopyFails(p)
  BY <1>0, <1>7, SoloDone, SoloLeaves DEF CopyFails
<1>8. CASE ReadVersion(p)
  <2>1. r.open = "none" /\ exe' = exe
    BY <1>0, <1>8 DEF ReadVersion, SoloInv
  <2>2. ASSUME Becomes(p, Done(p, "uptodate"), Removed) PROVE SoloInv(p)'
    BY <2>1, <2>2, SoloDone, SoloLeaves
  <2>3. ASSUME UNCHANGED staged, proc' = [proc EXCEPT ![p].pc = "swap"]
        PROVE  SoloInv(p)'
    BY <1>0, <1>8, <2>1, <2>3 DEF ReadVersion, SoloInv, Installed, Process
  <2>4. QED
    BY <1>8, <2>2, <2>3 DEF ReadVersion
<1>9. CASE swap(p)
  <2>1. staged.whole /\ staged.of = {r.got}
    BY <1>0, <1>9 DEF swap, SoloInv
  <2>2. exe'.whole /\ exe'.of = {r.got} /\ Installed' = r.got
    BY <1>9, <2>1 DEF swap, Installed, BuildIn
  <2>3. proc'[p].pc = "off" /\ proc'[p].open = "none"
    BY <1>9, SoloDone DEF swap
  <2>4. QED
    BY <2>2, <2>3 DEF SoloInv
<1>10. CASE SwapFails(p)
  BY <1>0, <1>10, SoloDone, SoloLeaves DEF SwapFails
<1>11. CASE Fail(p)
  BY <1>0, <1>11, SoloDone, SoloLeaves DEF Fail
<1>12. CASE Crash(p)
  BY <1>0, <1>12, SoloDone, SoloLeaves DEF Crash
<1>13. QED
  BY <1>1, <1>2, <1>3, <1>4, <1>5, <1>6, <1>7, <1>8, <1>9, <1>10, <1>11, <1>12
     DEF Step, Go

(* So does every step, those of the publisher included.                    *)
LEMMA NextSolo ==
  ASSUME NEW p, Procs = {p}, UpdateInv, SoloInv(p), [Next]_vars
  PROVE  SoloInv(p)'
<1>1. CASE Publish
  BY <1>1 DEF Publish, SoloInv, Installed
<1>2. CASE Step(p)
  BY <1>2, StepSolo
<1>3. CASE UNCHANGED vars
  BY <1>3 DEF vars, SoloInv, Installed
<1>4. QED
  BY <1>1, <1>2, <1>3 DEF Next

(* Crashes, cut-off downloads and failing builds included, one process     *)
(* leaves one whole build at the path of the binary, whatever the pushes   *)
(* do to the version.                                                      *)
THEOREM SoloWhole ==
  ASSUME NEW p, Procs = {p}
  PROVE  Spec => []InstalledWhole
<1>1. Init => UpdateInv /\ SoloInv(p)
  BY InitUpdate, InitSolo
<1>2. UpdateInv /\ SoloInv(p) /\ [Next]_vars => (UpdateInv /\ SoloInv(p))'
  BY NextUpdate, NextSolo
<1>3. SoloInv(p) => InstalledWhole
  BY DEF SoloInv, InstalledWhole
<1>4. QED
  BY <1>1, <1>2, <1>3, PTL DEF Spec
-----------------------------------------------------------------------------
(* If VERSION is only ever changed to bump it, no version is used twice,   *)
(* however long the history is.                                            *)
THEOREM ReleaseVersionsGrow ==
  ASSUME Edits \subseteq {"none", "bump"}
  PROVE  Spec => []VersionsGrow
<1>1. Init => UpdateInv /\ VersionsGrow
  BY InitUpdate DEF Init, Publisher!Init, VersionsGrow, Publisher!VersionsGrow
<1>2. UpdateInv /\ VersionsGrow /\ [Next]_vars => (UpdateInv /\ VersionsGrow)'
  <2> SUFFICES ASSUME UpdateInv, VersionsGrow, [Next]_vars PROVE VersionsGrow'
    BY NextUpdate
  <2>1. CASE Publish
    BY <2>1, KeepsGrowing DEF Publish, UpdateInv
  <2>2. CASE UNCHANGED log
    BY <2>2 DEF VersionsGrow, Publisher!VersionsGrow
  <2>3. ASSUME NEW p \in Procs, Step(p) PROVE UNCHANGED log
    BY <2>3 DEF Step, Go, Start, Pull, Compile, Get, Open, Copy, CopyFails,
                ReadVersion, swap, SwapFails, Fail, Crash, pub
  <2>4. QED
    BY <2>1, <2>2, <2>3 DEF Next, vars
<1>3. QED
  BY <1>1, <1>2, PTL DEF Spec
-----------------------------------------------------------------------------
(* The step after which an update says something.  A version that was read *)
(* is that of the one build staged: if it is the version of the running    *)
(* binary and no version is used twice, they are the same build.           *)
LEMMA StepHonest ==
  ASSUME NEW p, Procs = {p}, UpdateInv, SoloInv(p), VersionsGrow, HonestUpdate, Step(p)
  PROVE  HonestUpdate'
<1> DEFINE r == proc[p]
<1> USE DEF At
<1>0. /\ r \in Process /\ ProcInv(r, staged, Known) /\ PubInv
      /\ DOMAIN proc = {p} /\ SoloInv(p)
  BY SoloFacts
<1>1. ASSUME proc'[p].pc # "off" PROVE HonestUpdate'
  BY <1>1 DEF HonestUpdate
<1>2. ASSUME proc'[p].pc = "off", proc'[p].said \in {"nothing", "failed"},
             proc'[p].was = r.was, r.pc # "off", exe' = exe
      PROVE  HonestUpdate'
  BY <1>0, <1>2 DEF HonestUpdate, SoloInv, Installed
<1>3. ASSUME NEW mode \in Modes, NEW force \in BOOLEAN, Start(p, mode, force)
      PROVE  HonestUpdate'
  BY <1>0, <1>1, <1>3 DEF Start
<1>4. CASE Pull(p)
  <2>1. Installed = r.was /\ exe' = exe /\ Installed' = Installed
    BY <1>0, <1>4 DEF Pull, SoloInv, Installed
  <2>2. /\ proc'[p].was = r.was /\ proc'[p].got.kind = "dev"
        /\ \/ proc'[p].pc = "off" /\ proc'[p].said = "uptodate"
           \/ proc'[p].pc = "build"
    BY <1>0, <1>4 DEF Pull, Process
  <2>3. QED
    BY <2>1, <2>2 DEF HonestUpdate, FromRelease
<1>5. CASE Compile(p)
  BY <1>0, <1>1, <1>5 DEF Compile, Becomes, Process
<1>6. CASE Get(p)
  BY <1>0, <1>1, <1>6 DEF Get, Process
<1>7. CASE Open(p)
  BY <1>0, <1>1, <1>7 DEF Open, Process
<1>8. CASE Copy(p)
  BY <1>0, <1>1, <1>8 DEF Copy, Written, Process
<1>9. CASE CopyFails(p)
  BY <1>0, <1>2, <1>9, SoloDone DEF CopyFails
<1>10. CASE ReadVersion(p)
  <2>1. /\ staged # None /\ staged.of = {r.got} /\ r.got.kind = "release"
        /\ r.got \in Known /\ r.was \in Known /\ Installed = r.was
        /\ exe' = exe
    BY <1>0, <1>10 DEF ReadVersion, SoloInv, ProcInv
  <2>2. BuildIn(staged) = r.got
    BY <2>1 DEF BuildIn
  <2>3. VersionOf(r.was) # None
    BY <1>0, <2>1, KnownVersion
  <2>4. ASSUME VersionOf(r.was) \in Reported PROVE Installed = r.got
    BY <1>0, <2>1, <2>2, <2>3, <2>4, SameVersion DEF Reported
  <2>5. ASSUME NEW v \in Reported, v = VersionOf(r.was),
               Becomes(p, Done(p, "uptodate"), Removed)
        PROVE  HonestUpdate'
    BY <2>1, <2>4, <2>5, SoloDone DEF HonestUpdate, FromRelease, Installed
  <2>6. ASSUME proc' = [proc EXCEPT ![p].pc = "swap"] PROVE HonestUpdate'
    BY <1>0, <1>1, <2>6 DEF Process
  <2>7. QED
    BY <1>10, <2>5, <2>6 DEF ReadVersion
<1>11. CASE swap(p)
  <2>1. staged.of = {r.got}
    BY <1>0, <1>11 DEF swap, SoloInv
  <2>2. Installed' = r.got
    BY <1>11, <2>1 DEF swap, Installed, BuildIn
  <2>3. /\ proc'[p].pc = "off" /\ proc'[p].said = "updated"
        /\ proc'[p].got = r.got
    BY <1>11, SoloDone DEF swap
  <2>4. QED
    BY <2>2, <2>3 DEF HonestUpdate
<1>12. CASE SwapFails(p)
  BY <1>0, <1>2, <1>12, SoloDone DEF SwapFails
<1>13. CASE Fail(p)
  BY <1>0, <1>2, <1>13, SoloDone DEF Fail
<1>14. CASE Crash(p)
  BY <1>0, <1>2, <1>14, SoloDone DEF Crash
<1>15. QED
  BY <1>3, <1>4, <1>5, <1>6, <1>7, <1>8, <1>9, <1>10, <1>11, <1>12, <1>13, <1>14
     DEF Step, Go

(* Nor does a step of the publisher make a liar of an update: versions are *)
(* not used twice.                                                         *)
LEMMA NextHonest ==
  ASSUME NEW p, Procs = {p}, Edits \subseteq {"none", "bump"},
         UpdateInv, SoloInv(p), VersionsGrow, HonestUpdate, [Next]_vars
  PROVE  VersionsGrow' /\ HonestUpdate'
<1>1. CASE Publish
  BY <1>1, KeepsGrowing
     DEF Publish, UpdateInv, HonestUpdate, FromRelease, At, Installed
<1>2. CASE Step(p)
  <2>1. UNCHANGED log
    BY <1>2 DEF Step, Go, Start, Pull, Compile, Get, Open, Copy, CopyFails,
                ReadVersion, swap, SwapFails, Fail, Crash, pub
  <2>2. QED
    BY <1>2, <2>1, StepHonest DEF VersionsGrow, Publisher!VersionsGrow
<1>3. CASE UNCHANGED vars
  BY <1>3 DEF vars, HonestUpdate, FromRelease, At, Installed,
         VersionsGrow, Publisher!VersionsGrow
<1>4. QED
  BY <1>1, <1>2, <1>3 DEF Next

(* What one update at a time says of the binary is true if VERSION is only *)
(* ever changed to bump it; a version used twice would make "Already up to *)
(* date" wrong.                                                            *)
THEOREM SoloHonest ==
  ASSUME NEW p, Procs = {p}, Edits \subseteq {"none", "bump"}
  PROVE  Spec => []HonestUpdate
<1>1. Init => UpdateInv /\ SoloInv(p) /\ VersionsGrow /\ HonestUpdate
  BY InitUpdate, InitSolo DEF Init, Publisher!Init, HonestUpdate, At,
       VersionsGrow, Publisher!VersionsGrow
<1>2. UpdateInv /\ SoloInv(p) /\ VersionsGrow /\ HonestUpdate /\ [Next]_vars
        => (UpdateInv /\ SoloInv(p) /\ VersionsGrow /\ HonestUpdate)'
  BY NextUpdate, NextSolo, NextHonest
<1>3. QED
  BY <1>1, <1>2, PTL DEF Spec
-----------------------------------------------------------------------------
(* How the steps of the only process look from outside: it begins,         *)
LEMMA LooksBegun ==
  ASSUME NEW p, Procs = {p}, exe' = exe, At(p, "off"), ~At(p, "off")',
         proc'[p].got = None, proc'[p].said = "nothing"
  PROVE  Promised!Begin(p)
  BY DEF Promised!Begin, At, Installed, BuildIn

(* it goes on, with another build to install or with the same one,         *)
LEMMA LooksOn ==
  ASSUME NEW p, Procs = {p}, exe' = exe, ~At(p, "off"), ~At(p, "off")',
         proc'[p].said = proc[p].said,
         proc'[p].got \in Build \cup {proc[p].got}
  PROVE  [Promised!Next]_(Promised!vars)
<1>1. CASE proc'[p].got = proc[p].got
  BY <1>1 DEF Promised!vars, At, Installed, BuildIn
<1>2. CASE proc'[p].got \in Build
  <2>1. PICK b \in Build : proc'[p].got = b
    BY <1>2
  <2>2. Promised!Choose(p, b)
    BY <2>1 DEF Promised!Choose, At, Installed, BuildIn
  <2>3. QED
    BY <2>2 DEF Promised!Next
<1>3. QED
  BY <1>1, <1>2

(* it ends and has installed what it was to install,                       *)
LEMMA LooksReplaced ==
  ASSUME NEW p, Procs = {p}, exe'.whole, Installed' = proc[p].got, proc[p].got # None,
         ~At(p, "off"), At(p, "off")', proc'[p].said = "updated"
  PROVE  Promised!Replace(p)
  BY DEF Promised!Replace, Promised!Finish, At

(* or it ends and has changed nothing.                                     *)
LEMMA LooksGivenUp ==
  ASSUME NEW p, Procs = {p}, exe' = exe, ~At(p, "off"), At(p, "off")',
         proc'[p].said \in {"nothing", "uptodate", "failed"}
  PROVE  Promised!GiveUp(p)
<1>1. PICK msg \in {"nothing", "uptodate", "failed"} : proc'[p].said = msg
  OBVIOUS
<1>2. Promised!Finish(p, msg)
  BY <1>1 DEF Promised!Finish, At
<1>3. UNCHANGED (IF exe.whole THEN Installed ELSE None)
  BY DEF Installed
<1>4. QED
  BY <1>2, <1>3 DEF Promised!GiveUp

(* Every step of the only process looks like one of these: the files are   *)
(* out of sight until the swap, and it is one step.                        *)
LEMMA StepPromised ==
  ASSUME NEW p, Procs = {p}, UpdateInv, SoloInv(p), Step(p)
  PROVE  [Promised!Next]_(Promised!vars)
<1> DEFINE r == proc[p]
           s == proc'[p]
<1>0. /\ r \in Process /\ ProcInv(r, staged, Known) /\ PubInv
      /\ DOMAIN proc = {p} /\ SoloInv(p)
  BY SoloFacts
<1>b. /\ p \in Procs
      /\ Promised!Begin(p) => Promised!Next
      /\ Promised!Replace(p) => Promised!Next
      /\ Promised!GiveUp(p) => Promised!Next
  BY DEF Promised!Next
<1>1. ASSUME exe' = exe, ~At(p, "off"),
             \/ Becomes(p, Done(p, "nothing"), Kept)
             \/ Becomes(p, Done(p, "failed"), Kept)
             \/ Becomes(p, Done(p, "failed"), Removed)
             \/ Becomes(p, Done(p, "uptodate"), Removed)
      PROVE  Promised!Next
  <2>1. At(p, "off")' /\ s.said \in {"nothing", "uptodate", "failed"}
    BY <1>1, SoloDone DEF At
  <2>2. QED
    BY <1>1, <1>b, <2>1, LooksGivenUp
<1>2. ASSUME NEW mode \in Modes, NEW force \in BOOLEAN, Start(p, mode, force)
      PROVE  Promised!Next
  <2>1. /\ exe' = exe /\ At(p, "off") /\ ~At(p, "off")'
        /\ s.got = None /\ s.said = "nothing"
    BY <1>0, <1>2 DEF Start, At
  <2>2. QED
    BY <1>b, <2>1, LooksBegun
<1>3. CASE Pull(p)
  <2> DEFINE b == [kind |-> "dev", commit |-> checkout']
  <2>1. exe' = exe /\ ~At(p, "off")
    BY <1>3 DEF Pull, At
  <2>2. b \in Build
    <3>1. checkout' \in 1 .. Len(log)
      BY <1>0, <1>3, UpdateAssumption
         DEF Pull, PubInv, Publisher!TypeOK, Publisher!Commits
    <3>2. QED
      BY <1>0, <3>1, CommitKnown DEF Known
  <2>3. \/ s.pc = "off" /\ s.said = "uptodate"
        \/ s.pc = "build" /\ s.said = r.said /\ s.got = b
    BY <1>0, <1>3 DEF Pull, Process
  <2>4. CASE s.pc = "off" /\ s.said = "uptodate"
    BY <1>b, <2>1, <2>4, LooksGivenUp DEF At
  <2>5. CASE s.pc = "build" /\ s.said = r.said /\ s.got = b
    BY <2>1, <2>2, <2>5, LooksOn DEF At
  <2>6. QED
    BY <2>3, <2>4, <2>5
<1>4. CASE Compile(p)
  <2>1. checkout \in 1 .. Len(log)
    BY DEF UpdateInv
  <2>2. [kind |-> "dev", commit |-> checkout] \in Build
    BY <1>0, <2>1, CommitKnown DEF Known
  <2>3. /\ exe' = exe /\ ~At(p, "off") /\ ~At(p, "off")' /\ s.said = r.said
        /\ s.got = [kind |-> "dev", commit |-> checkout]
    BY <1>0, <1>4 DEF Compile, Becomes, At, Process
  <2>4. QED
    BY <2>2, <2>3, LooksOn
<1>5. CASE Get(p)
  <2>1. [kind |-> "release", commit |-> latest] \in Build
    BY <1>0, <1>5 DEF Get, StatusOK, PubInv, Publisher!TypeOK, Build
  <2>2. /\ exe' = exe /\ ~At(p, "off") /\ ~At(p, "off")' /\ s.said = r.said
        /\ s.got = [kind |-> "release", commit |-> latest]
    BY <1>0, <1>5 DEF Get, At, Process
  <2>3. QED
    BY <2>1, <2>2, LooksOn
<1>6. CASE Open(p)
  <2>1. /\ exe' = exe /\ ~At(p, "off") /\ ~At(p, "off")' /\ s.said = r.said
        /\ s.got = r.got
    BY <1>0, <1>6 DEF Open, At, Process
  <2>2. QED
    BY <2>1, LooksOn
<1>7. CASE Copy(p)
  <2>1. r.open = "staged"
    BY <1>0, <1>7 DEF Copy, At, SoloInv
  <2>2. /\ exe' = exe /\ ~At(p, "off") /\ ~At(p, "off")' /\ s.said = r.said
        /\ s.got = r.got
    BY <1>0, <1>7, <2>1 DEF Copy, Written, At, Process
  <2>3. QED
    BY <2>2, LooksOn
<1>8. CASE ReadVersion(p)
  <2>1. exe' = exe /\ ~At(p, "off")
    BY <1>8 DEF ReadVersion, At
  <2>2. ASSUME proc' = [proc EXCEPT ![p].pc = "swap"]
        PROVE  [Promised!Next]_(Promised!vars)
    <3>1. ~At(p, "off")' /\ s.said = r.said /\ s.got = r.got
      BY <1>0, <2>2 DEF At, Process
    <3>2. QED
      BY <2>1, <3>1, LooksOn
  <2>3. QED
    BY <1>1, <1>8, <2>1, <2>2 DEF ReadVersion
<1>9. CASE swap(p)
  <2>1. staged.whole /\ staged.of = {r.got} /\ ~At(p, "off") /\ r.got # None
    BY <1>0, <1>9 DEF swap, SoloInv, ProcInv, At
  <2>2. exe'.whole /\ Installed' = r.got
    BY <1>9, <2>1 DEF swap, Installed, BuildIn
  <2>3. At(p, "off")' /\ s.said = "updated"
    BY <1>9, SoloDone DEF swap, At
  <2>4. QED
    BY <1>b, <2>1, <2>2, <2>3, LooksReplaced
<1>10. CASE CopyFails(p) \/ SwapFails(p) \/ Fail(p) \/ Crash(p)
  BY <1>1, <1>10 DEF CopyFails, SwapFails, Fail, Crash, At
<1>11. QED
  BY <1>2, <1>3, <1>4, <1>5, <1>6, <1>7, <1>8, <1>9, <1>10 DEF Step, Go

(* One update at a time is a transaction, in either mode, wherever it      *)
(* fails or crashes and whatever is released or pushed meanwhile: what is  *)
(* installed changes exactly when it ends with "Updated", and becomes what *)
(* it had chosen.                                                          *)
THEOREM SoloTransactional ==
  ASSUME NEW p, Procs = {p}
  PROVE  Spec => Transactional
<1>1. Init => UpdateInv /\ SoloInv(p) /\ Promised!Init
  <2> SUFFICES ASSUME Init PROVE UpdateInv /\ SoloInv(p) /\ Promised!Init
    OBVIOUS
  <2>1. UpdateInv /\ SoloInv(p)
    BY InitUpdate, InitSolo
  <2>2. exe.whole /\ Installed \in Build
    BY <2>1, BuildInOf DEF UpdateInv, FileInv, SoloInv, Installed, Known
  <2>3. \A q \in Procs : At(q, "off") /\ proc[q].said = "nothing"
    BY DEF Init, At
  <2>4. QED
    BY <2>1, <2>2, <2>3 DEF Promised!Init
<1>2. UpdateInv /\ SoloInv(p) /\ [Next]_vars
        => (UpdateInv /\ SoloInv(p))' /\ [Promised!Next]_(Promised!vars)
  <2> SUFFICES ASSUME UpdateInv, SoloInv(p), [Next]_vars
               PROVE  (UpdateInv /\ SoloInv(p))' /\ [Promised!Next]_(Promised!vars)
    OBVIOUS
  <2>1. CASE Step(p)
    BY <2>1, StepPromised, NextUpdate, NextSolo
  <2>2. CASE UNCHANGED <<exe, proc>>
    BY <2>2, NextUpdate, NextSolo DEF Promised!vars, At, Installed
  <2>3. QED
    BY <2>1, <2>2 DEF Next, Publish, vars
<1>3. QED
  BY <1>1, <1>2, PTL DEF Spec, Transactional, Promised!Spec
=============================================================================
