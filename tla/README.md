# A verification of Relay in TLA+

Relay joins machines that run inference engines into one fabric: agents report
to a controller, a CLI reads the fabric from it, a scheduler places models on
nodes. This directory holds TLA+ models of that code, the TLC configurations
that check them, and proofs checked by TLAPS. Every definition is translated
from the Go source; `PROJECT.json` ("map") names the lines.

    tlc -workers 2 -config MCRegistry.cfg MCRegistry.tla
    tlapm RegistryProofs.tla

## 1. The system

| part | source | state | operations |
|---|---|---|---|
| controller registry | `controller/controller.go` | `nodes`: name to entry (registration, `lastSeen`), under one mutex | `Upsert`, `View`, `reap`; the heartbeat handler; `Serve` |
| controller HTTP API and client | `controller/controller.go`, `client.go` | requests under way; 3 s client timeout | register and heartbeat (one handler), cluster |
| agent daemon | `agent/serve.go`, `cli.cmdJoin` | place in the loop, ticker and its one-slot channel, context | register once, then inspect and post on every tick |
| host discovery | `agent/agent.go` | none | `LocalNode`, `Inspect` |
| runtime adapters | `runtime/*.go` | none (external engines) | detect, discover models, list running, run |
| store | `store/*.go` | none (reads a controller, this machine or canned data) | `Snapshot`, `Models`, `Cached` |
| scheduler | `scheduler/scheduler.go` | none | `Schedule`, `runtimeFor` |
| `relay run` | `cli.cmdRun`, `render/decision.go` | three answers, a decision | read thrice, decide, explain or hand over |
| `relay watch` | `cli.cmdWatch`, `render.Dashboard` | the screen | draw every second |
| `relay nodes`, `models`, `status` | `cli/commands.go`, `render/` | none | one read, printed |
| `relay update` | `cli/update.go` | the binary and a staged file beside it | build or download, then swap |
| installer and release workflow | `scripts/install.sh`, `.github/workflows/release.yml` | the rolling release | delete and create the release; download |

**Interaction.** Agents send heartbeats over HTTP. The controller stores each
under the host name it carries and stamps it with its own clock. Readers get a
view computed on the spot: the age of an entry makes a node online, degraded
(6 s) or not shown (12 s). Nothing persists; a restarted controller is rebuilt
from heartbeats. The CLI makes one or three reads and decides locally.

**What is hard about it.** Handlers, reaper and readers interleave. Heartbeats
are late, lost, or handled after their sender gave up; the agent's loop delays
itself and swallows ticks. Controller and agents crash independently. Maps are
walked in random order. `relay run` mixes three moments and drops two errors.
One inspection asks each engine up to three times whether it is there. Updates
share a staged file, crash between two steps and race the publisher, which takes
the release away before it puts up the next, and whose workflows need not start in
the order of their commits.
`PROJECT.json` ("hazards") lists these at their lines with the properties that
watch them, and the ones no property watches yet with the reason.

**What makes each part correct.** Registry: it implements the promise of
`NodeLiveness`, the reaper is invisible, nothing leaks. Agents and network: the dead
disappear in time, the living do not, everyone comes back. Scheduler: only eligible
nodes, best first, and a placement moves only for a reason. `relay run`: its verdict
was true of something it saw. `relay watch`: a frame is of one moment and does not
flicker. Update: the installed binary is always a whole one, what the command says
of it is true, and a machine that keeps trying catches up. Release: no workflow
touches what another has put up. Discovery: a report tells of nothing that was not
so, misses nothing that an engine told, and the same engines look the same through
either store.

## 2. Modules

    NodeLiveness   what the controller promises its readers
      ^ implemented by          ^ instantiated by
    Registry                  Fabric, Watch
    Sorting  <- Scheduler  <- extended by Placement, Run
    Release  <- instantiated by Update
    Installation   what `relay update` promises of the binary
      ^ implemented by Update, for one process at a time
    Discovery      how an agent or the local store reads a machine
    Hardware       the memory an accelerator is reported with

Proofs about `X` are in `XProofs`; the two about Hardware are at the end of
`DiscoveryProofs`. `MCX` and its `.cfg` files are the instances of `X` for TLC.
Definitions marked as mutants are plausible bugs; nothing in the models uses them.

**NodeLiveness** is the abstract specification: `shown[n]` is what a reader is
told of node `n`. Three actions: `Report` (a heartbeat takes effect), `Elapse`
(time passes and everything shown ages) and `Forget` (restart).

**Registry** is the table itself. A step is one critical section of `mu`; the
clock is read inside it (`r.now()` follows `r.mu.Lock()`), so stamping and
storing are one step. `handleHeartbeat` is what a handler does before it locks;
requests with a wrong method, a body that does not decode or an empty name stop
there. Accepted ones wait in `handlers`, are served in any order by `Upsert`,
and any number may wait. `Serve` is a stop and start. `Pass` advances the clock;
the reaper runs within one unit of its tick. `View` is a state function, since
readers do not change the table. `KeepsPromise` is the refinement:
`NodeLiveness` with `shown <- View`.

**Fabric** puts agents, a network and a controller around `NodeLiveness`. An
agent's `pc` is the place of its goroutine in `agent.Serve`:

| `pc` | code |
|---|---|
| `regInspect`, `inspect` | `registration()`: hardware, engines, models, jobs |
| `regPost`, `post` | `client.Register`, `client.Heartbeat` |
| `announce` | the `Fprintf`, which calls `LocalNode` again before the ticker is made |
| `wait` | the `select` |
| `off` | no process |

`tick` is the ticker's channel of capacity one: a tick that finds it full is
dropped, as in Go. A failed registration ends the process, a failed heartbeat
returns to `wait`. `net` holds requests; `waiting` says whether the sender still
waits, `connected` whether the controller that is running has the connection. A
request gets one from a controller that is up (`Connect`), at once or, if the host
answered nothing before, while the operating system tries again. When the sender
gives up or ends (`Orphaned`), nothing is left of a request without a connection;
one that has it goes on and may still be handled. `Handle` is the controller's
handler (lock, upsert, answer), `Lose` the network, `CtlStop` and `CtlStart` the
controller's process, which takes its connections with it. `lapsed` and `deadFor`
and the `lag` of a report are history: no guard reads them.

**Watch** is `relay watch` over `NodeLiveness`: `View` walks the map in any
order, sorts the nodes and not the jobs; `Dashboard` is what is drawn. Reading
and drawing are one step: the loop does nothing else between them and the
answer does not change on its way. A report carries the models that run on its
node in some order (`JobsOf`); `JobsAlong` strings them together along the walk,
as the `append` in `View` does.

**Sorting** is Go's `sort` for an order that leaves no two elements equal: the
one sequence of the elements in that order. **Scheduler** is the pure algorithm.
The stable sort becomes an order with the position in the snapshot as its last
key (`Before`). Scores are counted in fifths of a point so
that they are whole numbers (5 per GB of headroom, 1 per percent of idle GPU,
500 for a cached model). The code adds floating point numbers: scores that are
equal here but reached by different sums may be ranked either way by the code.
The instances use values for which such ties do not occur.
**Placement** lets one fact about one node change at a time and asks the
scheduler in every state.

**Run** is `cmdRun` over a `ControllerStore`: `ReadSnapshot`, `ReadModels`,
`ReadCached`, `Decide`, `Place`, with `Change` between any two of them. The first
read ends the command when it fails; the others fail silently into an empty
answer, as `models, _ :=` does. The catalogue keeps the first entry of a name in
a random walk, so `ReadModels` may return any size that a node lists. `views`
and `failed` are history.

**Release** is the workflow: `Push` appends a commit with the version it will be
stamped with (`NextVersion`: major.minor as one number, and the commits since the
file VERSION changed). `Trigger` starts a workflow and cancels the one under way at
whatever step it is; it may be at any commit of main, since a push run builds its own
commit, runs of two pushes start in either order, and a run may be dispatched or
repeated later. `Built`, `Delete` and `Create` are its steps, any of which may fail;
`latest` is `None` between the last two. `standing` is history: what has been
released since a workflow was last started. A dispatch at a commit that is not on
main is not modelled.

**Update** is `relay update` run by processes `Procs` from one path, against that
publisher. The two files are `exe` and `staged`; of a file the model keeps which
builds its bytes come from, who truncated it last and whether it is exactly one
build. `open` says which of them a process is writing: a rename or a removal by
one process moves or unlinks the file another has open, as in a Unix file system
(`Renamed`, `Removed`). Release mode is `Get`, `Open`, `Copy`, `ReadVersion`, `swap`;
source mode is `Pull`, `Compile`, `swap`. `Compile` is `go build -o`: it moves a
finished binary to the path, or, when it was built on another file system, takes
away what is there and then writes a copy, with the same `Open` and `Copy` as a
download. Every step has its error (`Fail`,
`CopyFails`, `SwapFails`) with the removals the code makes and no others, and
`Crash` may come between any two. `ReadVersion` compares the version of the staged
binary, if it can say one, with that of the running process (`was`). `said` is the
message the command ended with. Of the tools it is assumed that `git rev-parse`
works in a checkout that was just pulled, that `os.Remove` succeeds, and that a `go
build` that succeeds has written the whole binary, of the sources of one commit (a
pull by another process during the build is taken to come before or after it), dies
with the command, and does not take a fragment it finds at the path for up to date.
`Chmod` and `Rename` are one step, as only the second changes which file is at which
path.

**Installation** is the abstract specification of an update: it begins, chooses a
build (and may choose again), and ends either by replacing what is installed with
that build in one step, saying "updated", or by changing nothing and saying
anything else. In Update, `Promised` maps to it: `installed` is the build in `exe`,
if it is whole, `wanted` is what a running process has got, and `running` and `said`
are read off `proc`; the staged file, the checkout and the publisher are out of its
sight. `Transactional` is the refinement.

**Discovery** is a read of one machine while its engines change. What is so of a
machine is a set of facts (an engine is there, its API lists a model, Ollama has a
model loaded); `Sweeps` names the reads, the agent's `registration` and the three
of `LocalStore`, and the sweeps over `runtime.Detected` that each is made of. A
sweep is first one `Detect` per adapter and then one `Query` per engine found;
either may fail although there was an answer. `label` is what `primaryRuntime`
makes of the first sweep. `ever`, `always`, `changes` and `failed` are history.

**Hardware** is `detectAccelerator` as an operator on what `nvidia-smi`,
`/proc/meminfo` and `sysctl` say, with `None` for a number that does not parse.
`Consistent` asks of each of them that free memory is part of the total, and nothing
else.

## 3. Runs

| run | instance | what it shows |
|---|---|---|
| `registry` | 2 names, 2 reports, interval 2, clock to 12 | `NoLeak`, `RegistryInv`, `ReapUnseen`, and that the registry implements `NodeLiveness` |
| `fabric` | 1 agent; interval 3, timeout 3, inspection up to 1, delay up to 3 | `GhostBound`, `SteadyShown`, their inductive invariants, and `Rejoins` under fairness |
| `fabric_regress` | the same, delay up to 4, only behaviours of `PatientSpec` | violated: `NeverRegresses` |
| `watch` | 2 names, an idle report and one with two jobs | `FrameWhole`, `NodesStable` |
| `watch_jobs` | the same | violated: `JobsStable` |
| `placement` | 3 hosts, free memory 2, 12 or 128 GB, load 0 or 50%, model of 10 GB | `SelectsEligible`, `BestFirst`, `WinnerKeepsWinning`, `LosersDoNotMatter` |
| `run` | 2 hosts, 8 GB free, model listed with 0 GB, 40 GB or not, 2 changes | `OneMoment`, `Attested`, `Ends` |
| `placement_adapter` | 1 host with any adapter's label | violated: `AdapterOfNode` |
| `update` | 1 process, both modes, 2 commits, VERSION kept or bumped | `InstalledWhole`, `HonestUpdate`, `LatestStands`, `VersionsGrow`, that Update implements `Installation` (`Transactional`), and `CatchesUp` under fairness |
| `update_shared` | 2 processes, release mode, 1 commit | violated: `InstalledWhole` |
| `update_uptodate` | 1 process, source mode, 2 commits | violated: `UpToDateIsInstalled` |
| `discovery` | the 3 adapters, 1 model, 1 change during a read | `Attested`, `NothingMissed`, `Seam`, and `Fresh` under fairness |

**Why the bounds are enough.** `registry`: the clock passes the eviction age (8) and
the period of the reaper after it, so an entry can be degraded, expired but
unreaped, reaped and stored again; two names show interference, and the proofs cover
the rest. `fabric`: a unit is one second and interval, timeout and thresholds are
the code's own. `HeartbeatFails` may come at any moment of a post (a connection can
break early), so with a delay of 3 an abandoned request can still be handled after
the next one was sent. `fabric_regress` takes 4 and searches `PatientSpec`, in which
the machine joins a running controller, both stay, and a post fails only by its
timeout: the regress needs none of the rarer failures. One agent is enough for what
concerns one machine; that others do not disturb it, also under a shared name, is
what the theorems add, for every delay. `watch`: two nodes are the fewest that can
be in the wrong order, and two jobs in one report the fewest that could be torn
apart or turned around. `placement`: three hosts let the ranking of two be disturbed
by a third; the three sizes of free memory give a node without room, one that a
cached copy lifts above its equals, and one whose headroom outweighs another node's
cached copy. `run`: two changes put a different fabric behind each of the three
reads; sizes 0 and 40 against 8 GB make room depend on whose entry of the catalogue
is read. `update`: two commits are an old and a new one, each of which can be
installed, staged or current, and a release can be missing between them; one
process, since two of them break the property (`update_shared`). `discovery`: all
three adapters, because their two orders (of `All` and of `primaryRuntime`) differ;
one model on several engines is what the merging of names is about; a read starts in
every state of the machine, so that one change puts every pair of neighbouring
states before and after every call.

**Fairness.** Registry, Watch and Placement have only safety properties. Fabric:
`WF(Step(a))`, a running agent's goroutine is scheduled; `SF(Pass)`, time goes on
(it is blocked only by steps that are due); `SF(ConnectOf(a))` and
`SF(HandleOf(a))`, of the infinitely many requests that a machine sends a running
controller some get a connection, and of those some get through, which is the least
one may ask of the network. Nothing is assumed of `Join`, `Interrupt`, `Crash`,
`CtlStop` or `CtlStart`. Update: `WF(Go(p))`, a process that was started goes on,
and strong fairness of starting an update and of the steps of release mode (in a
source update they do not count): a user or a timer keeps trying, and of infinitely
many tries of a step that can succeed some do. Nothing is assumed of the publisher;
`CatchesUp` is about the case that it settles on a release. Discovery: `WF(Step)`,
the goroutine goes on (every probe has a timeout), and `SF` of beginning a
`registration`, since the agent's ticker never stops. Run: `WF(Step)`, one goroutine
whose requests time out. Run stops when the command has ended, hence `CHECK_DEADLOCK
FALSE` there and nowhere else.

**What the documentation says and the code does not do** (each is a run that TLC
finds violated, and a finding in `PROJECT.json`):

- `NeverRegresses`: an abandoned heartbeat that is handled after a newer one puts
  back the machine's older state, freshly stamped.
- `JobsStable`: the jobs of `relay watch` change places, as only nodes are sorted.
- `AdapterOfNode`: `runtimeFor` expects `vLLM`, agents report `vllm`; the
  scheduler then chooses `ollama` for it.
- `InstalledWhole` with two processes: the second truncates the staged file after
  the first has filled it, and the first renames the fragment over the binary.
- `UpToDateIsInstalled`: source mode compares the checkout before and after the
  pull, so after a failed build the next update reports a commit as up to date
  that is not installed.
- Without a run: the README says release binaries are stamped `main-<short-sha>`,
  the workflow stamps major.minor and a count.

## 4. Proofs

TLC checks instances; the theorems hold for every value of the constants that
satisfies the assumptions named in the modules: `RegistryAssumption` (the interval
is a positive number, absence is not an entry), `FabricAssumption` (likewise, and
every machine has a name), `WatchAssumption` (names are ordered as numbers, a report
lists its jobs in a sequence, absence is not a node), `PlacementAssumption` and
`RunAssumption` (memory and sizes are natural numbers, load is a percentage, absence
is not a node), `DiscoveryAssumption` (the adapters are a list without repetition,
Ollama is one of them, and the preferences name them all) and `UpdateAssumption`
(there is a commit; nothing is neither a file, nor a build, nor a version). Names,
machines, hosts, models and processes may be as many as one likes, and so may
commits and changes (`MaxCommits` and `MaxChanges` are any numbers). The theorems of
Update that need more say it in their hypotheses.

**RegistryProofs.** `NoLeak` is not inductive: between two runs of the reaper an
entry may pass the threshold. `RegistryInv` says by how much, namely less than
the time since the last run, and that no entry is from the future; every action
preserves it. `RegistryReapUnseen` rests on the reaper and `View` using one
comparison. `RegistryKeepsPromise` maps `Upsert` to `Report`, `Pass` to `Elapse`,
`Serve` to `Forget` and the rest to stuttering; its core is that an entry one
unit older is shown as what was shown, aged by one.

**FabricProofs.** `GhostBound` follows from `GhostInv`: a dead machine's requests
are at least as old as its death, so what is shown of it was stamped at most
`MaxDelay` after it. `SteadyShown` follows from `SteadyInv` with two
strengthenings: `WaitInv`, an agent waits for at most one request, and `Steady`,
which bounds the age of the last report at each place of the loop (`AgeLimit`).
The sum along the loop is two timeouts, two inspections and one period, and
`Prompt` says that this is less than the eviction threshold; with the code's
constants (3 s, 3 s, 12 s) it leaves less than 1.5 s for an inspection. The
property is conditional on it, because a slower machine may indeed drop out.

`FabricGhostInv` and `FabricSteadyInv` are these invariants themselves.

**SchedulerProofs, PlacementProofs.** The sort is a choice of a sequence with a
property, so that nothing is to be proved by induction over sequences: `Rank` (the
number of elements before one, plus one) is a bijection from a finite, strictly
and totally ordered set to its positions (`RankBijection`), hence a sorted
sequence exists (`SortExists`), and any sorted sequence lists every element
(`SortOnto`). `BeforeTotal` shows the candidates so ordered, and `ScheduleCorrect`
follows: what is selected is the viable node with the highest score, the first in
the snapshot of those. The placement theorems read this as "the winner is the one
node that is best" (`Best`, `WinnerIsBest`); `WinnerKeepsWinning` and
`LosersDoNotMatter` compare the best node before and after a step that moves one.

**RunProofs.** `RunInv` ties every local of the command to the views there were:
what it read of the nodes is the snapshot of some view (`NodesRead`), the size and
the copies likewise (`SizeRead`, `CopiesRead`), and a decision is what `Schedule` makes of
them (`Decided`). `SizeExact` and `CopiesExact` add what holds if the fabric stays
and answers, for `OneMoment`. Both theorems then are `ScheduleCorrect` applied to
what was read.

**UpdateProofs.** `PubInv` says that workflows are at most one, and none once a
release stands, which gives `ReleaseStands`; it needs the cancellation. That the
release never goes back to an older commit is no theorem: workflows may start in any
order. `UpdateInv` adds, for any number of processes, that every file is made
of builds of known commits. The other theorems say what they assume:

- `SoloWhole` (one process): `SoloInv` follows the staged file through the steps. It
  is cut off until the copy has ended, whole before the swap, and then made of
  nothing but what was got, in either mode. It holds however VERSION is edited. Two
  processes have no such theorem: `update_shared` refutes it.
- `ReleaseVersionsGrow` (pushes keep or bump VERSION): a push appends a version
  later than the last, hence later than all. A VERSION edited without a bump
  starts the count again and reuses a number.
- `SoloHonest` (both hypotheses): "up to date" is said when the version read from the
  staged file is that of the running binary; `VersionsGrow` makes equal versions
  equal commits.
- `SoloTransactional` (one process): every step of Update is mapped to a step of
  Installation or to a stutter (`StepPromised`), by how it looks from outside: it
  begins (`LooksBegun`), goes on (`LooksOn`), ends having replaced (`LooksReplaced`) or
  given up (`LooksGivenUp`). `SoloInv` supplies that what the swap moves is whole and
  what was chosen.

**WatchProofs.** A frame depends on a walk of the map, a permutation of the nodes
shown, which is arbitrary; `FrameWhole` is to hold for all of them. It takes four
steps. First, `FlattenSeq` is defined by recursion, so that `Flattening` says how
one more sequence is appended (that the recursion has a solution is shown by the
least number at which it would have none, `Least`). Second, of the jobs along a
walk, those of one node stay together: a node that the walk has not reached has
none (`TogetherStill` adds the jobs of another node after them, `TogetherNow` the
node's own), and `GroupedWalk` carries this along the walk. Third, the names of a
frame are the nodes shown, each once, by the lemmas on sorting (`Drawn`). Fourth,
a walk exists only of finitely many nodes: `NextLive` shows that at any moment only
finitely many are shown, although any number of names may come and go. `DrawWhole`
puts the steps together, and the other steps do not touch the frame. `NodesStable`
follows from `SamePlaces`: two ascending sequences of the same elements are equal.

**DiscoveryProofs.** `ReadInv` is the conjunction of four parts. `AttestedInv`: what
a sweep has found, and hence what it asks and reports, was so at some moment of the
read. `TypeInv`: types, and that a model or a job that was there all the while was
of an engine that was (`Closed`). `SweepInv` is about what was there all the while,
as long as no call fails: the sweep under way has found every such engine or has
yet to ask for it; a sweep that has ended (`Gone`) owes nothing (`Owed`); the one
that is asking owes at most what is in answers it does not have yet (`Dealt`); and the
label is no engine that comes after one it should have preferred (`Led`).
`NothingMissed` is this at the end of the read, where all sweeps are gone. It needs
`AttestedInv` for the label, which must be an engine at all. `MergeInv` is about the
order: engines are asked in the order of the adapters, so that the entry of a name
that is kept is the first one's. At the end of a read of a machine that stayed as it
is, `ever`, `always` and the machine are the same, and what was reported is between
them: `Seam` then compares the choices that the two stores make among the entries
of a name.

**Hardware.** `FreeWithinTotal` and `UnifiedOffersMemory` are arithmetic of floors
and cases over what the tools may print. The first says that a host whose tools are
consistent offers more free memory than it has in exactly one case (`OnlyFree`): the
driver prints a number for the free memory, 1024 MiB or more, and none for the total,
and there is no `/proc/meminfo` to fall back to; `nvidiaGPU` then keeps a total of 0.

**Only model-checked:** liveness (`Rejoins`, `Ends`, `CatchesUp`, `Fresh`), which is
out of the prover's reach, as is ENABLED. Every invariant and every action property
that a passing run checks is a theorem too; those of the `update` run that hold for one
process only are proved for any one process, as above.

## 5. What is not modelled

HTTP and JSON encoding; what the external engines and tools do beyond what Relay
reads from them; layout, colours and alignment; `MockStore` (canned data);
`install.sh`, which repeats the modes of `relay update` once and without staging;
`Run`, `Pull`, `Stop` and `Health` of the adapters, which print a line, look at a
port, or give the terminal to `ollama run`; argument parsing and dispatch. `relay
nodes`, `models` and `status` make one read, which Watch, Run and Discovery model,
and print it. The controller's two-second `Shutdown` is not waited for by `Serve`,
so stopping is modelled as the process ending. Clocks are monotonic and all run at
one rate. In Run the command's own host name is the one its agent reported. In
Update files survive a crash as they were written; loss of power is not modelled.

## 6. Plan

Done: all modules of section 2 with the proofs of section 4. What is left, in this
order:

1. A bound on how long a joined machine may be shown as degraded, beside the bound
   on when it disappears.
2. The installer as a further process of Update that writes into the live path.
3. Rendering numerics (`bar`, `latencyColor`, the totals of `Status`), if they come
   to carry decisions.
