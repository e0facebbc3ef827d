----------------------------- MODULE Discovery ------------------------------
(***************************************************************************)
(* How a machine is read, by its agent for a heartbeat (agent.registration)*)
(* and by the local store for a command (store.LocalStore): every read is  *)
(* a few sweeps over the engine adapters, a sweep first asks which engines *)
(* are there (runtime.Detected) and then something of each, one call after *)
(* the other, while engines start, stop, and gain or lose models.          *)
(*                                                                         *)
(* What is so of the machine is a set of facts: engine e is there, its API *)
(* lists model m, ollama has model m loaded.                               *)
(***************************************************************************)
EXTENDS Integers, SequencesExt, Sorting

CONSTANTS
  All,         (* the adapters, in the order of runtime.All                *)
  Preferred,   (* the order of primaryRuntime                              *)
  Models,
  MaxChanges,  (* bound on the changes during one read                     *)
  None         (* no engine                                                *)

Engines == ToSet(All)

(* The adapters are distinct, ollama is one of them, and every one has its *)
(* place among the preferred.                                              *)
ASSUME DiscoveryAssumption ==
  /\ All \in Seq(Engines) /\ IsInjective(All)
  /\ "ollama" \in Engines
  /\ Preferred \in Seq(Engines) /\ Engines \subseteq ToSet(Preferred)
  /\ MaxChanges \in Nat

Runtime(e) == <<"runtime", e>>
Model(e, m) == <<"model", e, m>>
Job(m) == <<"job", "ollama", m>>

Facts == {Runtime(e) : e \in Engines}
         \cup {Model(e, m) : e \in Engines, m \in Models}
         \cup {Job(m) : m \in Models}

(* What can be so of engine e: an API answers only for an engine that is   *)
(* there (Detect: a program on the PATH, or its port open).                *)
Of(e) == {f \in Facts : f[2] = e}
States(e) == {s \in SUBSET Of(e) : s # {} => Runtime(e) \in s}
Machines  == {s \in SUBSET Facts : \A e \in Engines : s \cap Of(e) \in States(e)}

(* Mutant: an agent leaves out its jobs. *)
SweepsJobless ==
  [registration |-> <<"label", "inspect">>, Snapshot |-> <<"label", "jobs">>,
   Models |-> <<"catalogue">>, Cached |-> <<"label", "catalogue">>]

(* The reads, and the sweeps each is made of. *)
Sweeps ==
  [registration |-> <<"label", "inspect", "jobs">>,
   Snapshot     |-> <<"label", "jobs">>,
   Models       |-> <<"catalogue">>,
   Cached       |-> <<"label", "catalogue">>]

VARIABLES
  machine,   (* what is so                                                 *)
  read,      (* the read under way, or the last one                        *)
  sweeps,    (* the sweeps it has yet to end                               *)
  asking,    (* "detect" or "query"                                        *)
  left,      (* the engines this sweep has yet to ask                      *)
  found,     (* the engines this sweep has detected                        *)
  label,     (* the engine the node leads with, or None                    *)
  report,    (* the facts the read has collected                           *)
  ever,      (* history: what was so at some moment of the read            *)
  always,    (* history: what was so at every moment of it                 *)
  changes,   (* history: how often the machine has changed during it       *)
  failed     (* history: a call failed although there was an answer        *)

vars == <<machine, read, sweeps, asking, left, found, label, report, ever,
          always, changes, failed>>

TypeOK ==
  /\ machine \in Machines
  /\ read \in DOMAIN Sweeps
  /\ IsSuffix(sweeps, Sweeps[read])
  /\ asking \in {"detect", "query"}
  /\ asking = "detect" => IsSuffix(left, All)
  /\ asking = "query" => ToSet(left) \subseteq found
  /\ found \subseteq Engines
  /\ label \in Engines \cup {None}
  /\ report \subseteq Facts
  /\ always \subseteq machine /\ machine \subseteq ever
  /\ changes \in 0 .. MaxChanges
  /\ failed \in BOOLEAN

Done == sweeps = <<>>

Init ==
  /\ machine \in Machines
  /\ read = "Models"
  /\ sweeps = <<>>
  /\ asking = "detect" /\ left = <<>> /\ found = {}
  /\ label = None
  /\ report = {}
  /\ ever = machine /\ always = machine
  /\ changes = 0
  /\ failed = TRUE
-----------------------------------------------------------------------------
(* The adapters among them, in the order of runtime.All.                   *)
InOrder(es) ==
  LET places == Sort({i \in DOMAIN All : All[i] \in es}, <)
  IN  [k \in DOMAIN places |-> All[places[k]]]

(* Mutant: the node leads with the first adapter that is detected. *)
firstRuntime(es) == IF es = {} THEN None ELSE InOrder(es)[1]

(* The first of the preference list, and "none" if nothing is detected.    *)
primaryRuntime(es) ==
  IF es = {} THEN None
  ELSE Preferred[Min({i \in DOMAIN Preferred : Preferred[i] \in es})]

(* Mutant: what the last read collected is kept. *)
KeptReport == report

NewReport == {}

Begin(r) ==
  /\ Done
  /\ read' = r
  /\ sweeps' = Sweeps[r]
  /\ asking' = "detect" /\ left' = All /\ found' = {}
  /\ label' = None
  /\ report' = NewReport
  /\ ever' = machine /\ always' = machine
  /\ changes' = 0
  /\ failed' = FALSE
  /\ UNCHANGED machine

(* One Detect: looks for the programs, then for an open port.              *)
Detect ==
  LET e == Head(left)
  IN  /\ asking = "detect" /\ left # <<>>
      /\ left' = Tail(left)
      /\ \/ /\ found' = found \cup {d \in {e} : Runtime(d) \in machine}
            /\ UNCHANGED failed
         \/ /\ Runtime(e) \in machine
            /\ failed' = TRUE
            /\ UNCHANGED found
  /\ UNCHANGED <<machine, read, sweeps, asking, label, report, ever, always,
                 changes>>

(* Mutant: every adapter is asked, detected or not. *)
QueriedAll == Engines

(* The engines a sweep asks something once it knows which there are: all   *)
(* for their models; for jobs those that are RunningListers.               *)
Queried ==
  CASE Head(sweeps) = "label" -> {}
    [] Head(sweeps) = "jobs"  -> found \cap {"ollama"}
    [] OTHER                  -> found

Detected ==
  /\ asking = "detect" /\ left = <<>> /\ ~Done
  /\ asking' = "query"
  /\ left' = InOrder(Queried)
  /\ label' = IF Head(sweeps) = "label" THEN primaryRuntime(found) ELSE label
  /\ report' = report \cup IF Head(sweeps) = "inspect"
                           THEN {Runtime(e) : e \in found} ELSE {}
  /\ UNCHANGED <<machine, read, sweeps, found, ever, always, changes, failed>>

JobsIn(fs) == {f \in fs : f[1] = "job"}
Names(fs)  == {f[3] : f \in {g \in fs : g[1] = "model"}}

(* Mutant: the local catalogue keeps the last entry of a name. *)
MergedLast(told) == {f \in report : f[3] \notin Names(told)} \cup told

(* The local catalogue keeps the first entry of a name. *)
Merged(told) == report \cup {f \in told : f[3] \notin Names(report)}

(* What is known after engine e has answered. *)
Answer(e) ==
  LET told == {f \in machine : f[2] = e /\ f[1] = "model"}
  IN  CASE Head(sweeps) = "jobs"    -> report \cup JobsIn(machine)
        [] Head(sweeps) = "inspect" -> report \cup told
        [] OTHER                    -> Merged(told)

(* DiscoverModels or Running of one engine; an error skips the engine.     *)
Query ==
  LET e == Head(left)
  IN  /\ asking = "query" /\ left # <<>>
      /\ left' = Tail(left)
      /\ \/ report' = Answer(e) /\ UNCHANGED failed
         \/ failed' = TRUE /\ UNCHANGED report
      /\ UNCHANGED <<machine, read, sweeps, asking, found, label, ever, always,
                     changes>>

EndSweep ==
  /\ asking = "query" /\ left = <<>> /\ ~Done
  /\ sweeps' = Tail(sweeps)
  /\ asking' = "detect" /\ found' = {}
  /\ left' = IF sweeps' = <<>> THEN <<>> ELSE All
  /\ UNCHANGED <<machine, read, label, report, ever, always, changes, failed>>

(* An engine starts or stops, loads a model, pulls or removes one.         *)
Change(e) ==
  /\ changes < MaxChanges
  /\ \E s \in States(e) : machine' = (machine \ Of(e)) \cup s
  /\ ever' = ever \cup machine'
  /\ always' = always \cap machine'
  /\ changes' = changes + 1
  /\ UNCHANGED <<read, sweeps, asking, left, found, label, report, failed>>

Step == (\E r \in DOMAIN Sweeps : Begin(r)) \/ Detect \/ Detected \/ Query \/ EndSweep
Next == Step \/ \E e \in Engines : Change(e)

(* The goroutine that reads goes on, and the agent reads for a heartbeat   *)
(* again and again.                                                        *)
Spec == Init /\ [][Next]_vars /\ WF_vars(Step) /\ SF_vars(Begin("registration"))
-----------------------------------------------------------------------------
Position(e) == CHOOSE i \in DOMAIN All : All[i] = e

(* The catalogue of a list of models: of every name its first entry.       *)
Catalogue(fs) ==
  {f \in fs : f[1] = "model" /\
     \A g \in fs : g[1] = "model" /\ g[3] = f[3] => Position(f[2]) <= Position(g[2])}

(* Whatever moves and whatever fails, a read reports nothing that was not  *)
(* so while it went on, and the node does not lead with an engine that was *)
(* not there.                                                              *)
Attested ==
  /\ report \subseteq ever
  /\ label # None => Runtime(label) \in ever

(* A read whose calls are all answered misses nothing that was so all the  *)
(* while, although it asks an engine only after a sweep has found it; and  *)
(* it prefers "GPU-class engines over the convenience of Ollama".          *)
NothingMissed ==
  Done /\ ~failed =>
    /\ read = "registration" => always \subseteq report
    /\ read = "Snapshot" => JobsIn(always) \subseteq report
    /\ read \in {"Models", "Cached"} => Names(always) \subseteq Names(report)
    /\ read # "Models" =>
         \A i \in DOMAIN Preferred :
           Runtime(Preferred[i]) \in always =>
             \E k \in 1 .. i : label = Preferred[k]

(* "The Store interface is the seam" (cli.New): of a machine that stays as *)
(* it is, what the local store answers is what the controller store makes  *)
(* of the machine's heartbeat.                                             *)
Seam ==
  Done /\ ~failed /\ ever = always =>
    CASE read = "registration" -> Catalogue(report) = Catalogue(machine)
                                  /\ JobsIn(report) = JobsIn(machine)
      [] read = "Snapshot"     -> report = JobsIn(machine)
      [] OTHER                 -> report = Catalogue(machine)

(* "recomputed each heartbeat so util/VRAM/jobs stay fresh": once the      *)
(* machine stays as it is and its engines answer, heartbeats tell of it    *)
(* exactly as it is, whatever failed or changed before.                    *)
Fresh ==
  <>[](changes = 0 /\ ~failed)
    => []<>(Done /\ read = "registration" /\ report = machine)
=============================================================================
