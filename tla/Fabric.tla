------------------------------- MODULE Fabric -------------------------------
(***************************************************************************)
(* Agents (`relay join`, internal/agent.Serve), the network their          *)
(* heartbeats cross, and the controller they report to, which may be       *)
(* stopped and started at any time.  The controller's registry appears as  *)
(* the specification it implements, NodeLiveness.                          *)
(*                                                                         *)
(* Time passes in units of which HeartbeatInterval and PostTimeout are     *)
(* multiples, and never past an open deadline: a goroutine whose channel   *)
(* is ready runs, the HTTP client's timeout fires, inspecting a machine    *)
(* takes at most MaxInspect and a request at most MaxDelay.  Requests that *)
(* are under way together are handled in any order, or lost.               *)
(***************************************************************************)
EXTENDS Integers

CONSTANTS
  Agents,             (* machines                                          *)
  Names,              (* host names                                        *)
  NameOf,             (* the host name of each machine                     *)
  None,               (* "not shown"                                       *)
  HeartbeatInterval,  (* period of the agents' tickers                     *)
  PostTimeout,        (* timeout of the agents' HTTP client                *)
  MaxInspect,         (* bound on what Inspect or LocalNode takes          *)
  MaxDelay            (* bound on the time from sending to the upsert      *)

degradedAfter == 2 * HeartbeatInterval
evictAfter    == 4 * HeartbeatInterval

ASSUME FabricAssumption ==
  /\ NameOf \in [Agents -> Names]
  /\ HeartbeatInterval \in Nat \ {0}
  /\ PostTimeout \in Nat
  /\ MaxInspect \in Nat
  /\ MaxDelay \in Nat
  /\ None \notin [age: Nat, health: {"online", "degraded"},
                  report: [from: Agents, lag: Nat]]

VARIABLES
  up,         (* the controller process is running                         *)
  shown,      (* what it shows of each name                                *)
  net,        (* requests sent and neither handled nor lost                *)
  pc,         (* where each agent's goroutine is                           *)
  elapsed,    (* time since it got there, where that matters               *)
  phase,      (* time since its ticker fired                               *)
  tick,       (* its ticker's channel, of capacity one, holds a tick       *)
  stopping,   (* its context is cancelled                                  *)
  answered,   (* the request it is posting has been handled                *)
  lapsed,     (* history: its last report was lost, or was forgotten       *)
  deadFor     (* history: time since its process ended, if it has          *)

loopVars == <<pc, elapsed, phase, tick, stopping, answered>>
vars == <<up, shown, net, loopVars, lapsed, deadFor>>

(* What a report carries: which machine sent it and, as history, how old   *)
(* what it says of the machine already was when it was handled.            *)
Report == [from: Agents, lag: 0 .. MaxInspect + MaxDelay]

NL == INSTANCE NodeLiveness
        WITH Reports <- Report,
             DegradedAfter <- degradedAfter, EvictAfter <- evictAfter

(* A request: its sender, whether the sender still waits for the answer,   *)
(* whether the controller that is running has the connection it goes over, *)
(* how long it has been under way, how old its content was when sent.      *)
Message == [from: Agents, waiting: BOOLEAN, connected: BOOLEAN,
            transit: 0 .. MaxDelay, sample: 0 .. MaxInspect]

GhostLimit == evictAfter + MaxDelay

TypeOK ==
  /\ up \in BOOLEAN
  /\ NL!TypeOK
  /\ net \in SUBSET Message
  /\ pc \in [Agents -> {"off", "regInspect", "regPost", "announce",
                        "wait", "inspect", "post"}]
  /\ elapsed \in [Agents -> Nat]
  /\ phase \in [Agents -> 0 .. HeartbeatInterval - 1]
  /\ tick \in [Agents -> BOOLEAN]
  /\ stopping \in [Agents -> BOOLEAN]
  /\ answered \in [Agents -> BOOLEAN]
  /\ lapsed \in [Agents -> BOOLEAN]
  /\ deadFor \in [Agents -> 0 .. GhostLimit]

Inspecting(a) == pc[a] \in {"regInspect", "inspect"}
Posting(a)    == pc[a] \in {"regPost", "post"}
Ticking(a)    == pc[a] \in {"wait", "inspect", "post"}
Joined(a)     == pc[a] \in {"announce", "wait", "inspect", "post"}

Init ==
  /\ up = FALSE
  /\ NL!Init
  /\ net = {}
  /\ pc = [a \in Agents |-> "off"]
  /\ elapsed = [a \in Agents |-> 0]
  /\ phase = [a \in Agents |-> 0]
  /\ tick = [a \in Agents |-> FALSE]
  /\ stopping = [a \in Agents |-> FALSE]
  /\ answered = [a \in Agents |-> FALSE]
  /\ lapsed = [a \in Agents |-> TRUE]
  /\ deadFor = [a \in Agents |-> 0]
-----------------------------------------------------------------------------
(* The sender of its requests has stopped waiting.  What a controller has  *)
(* the connection of may still be handled; of a connection that was        *)
(* refused or is still being opened nothing is left.                       *)
Orphaned(a) ==
  {m \in net : m.from # a}
  \cup {[m EXCEPT !.waiting = FALSE] : m \in {k \in net : k.from = a /\ k.connected}}

GoTo(a, label) ==
  /\ pc' = [pc EXCEPT ![a] = label]
  /\ elapsed' = [elapsed EXCEPT ![a] = 0]

(* The agent's process ends; nothing tells the controller.                 *)
Exit(a) ==
  /\ GoTo(a, "off")
  /\ phase' = [phase EXCEPT ![a] = 0]
  /\ tick' = [tick EXCEPT ![a] = FALSE]
  /\ stopping' = [stopping EXCEPT ![a] = FALSE]
  /\ answered' = [answered EXCEPT ![a] = FALSE]
  /\ lapsed' = [lapsed EXCEPT ![a] = TRUE]
  /\ net' = Orphaned(a)
  /\ UNCHANGED <<up, shown, deadFor>>

(* `relay join` gets as far as agent.Serve, which inspects the machine.    *)
Join(a) ==
  /\ pc[a] = "off"
  /\ GoTo(a, "regInspect")
  /\ deadFor' = [deadFor EXCEPT ![a] = 0]
  /\ UNCHANGED <<up, shown, net, phase, tick, stopping, answered, lapsed>>

(* registration() returns and its result is posted.                        *)
EndInspect(a) ==
  /\ Inspecting(a)
  /\ GoTo(a, IF pc[a] = "regInspect" THEN "regPost" ELSE "post")
  /\ answered' = [answered EXCEPT ![a] = FALSE]
  /\ net' = net \cup {[from |-> a, waiting |-> TRUE, connected |-> FALSE,
                       transit |-> 0, sample |-> elapsed[a]]}
  /\ UNCHANGED <<up, shown, phase, tick, stopping, lapsed, deadFor>>

(* Status 200 comes back.                                                  *)
PostOk(a) ==
  /\ Posting(a)
  /\ answered[a]
  /\ GoTo(a, IF pc[a] = "regPost" THEN "announce" ELSE "wait")
  /\ UNCHANGED <<up, shown, net, phase, tick, stopping, answered, lapsed,
                 deadFor>>

(* The post fails at any moment: refused, reset, timed out, or its answer  *)
(* lost.  A failed registration ends the process, a failed heartbeat is    *)
(* only logged.                                                            *)
RegisterFails(a) == pc[a] = "regPost" /\ Exit(a)

HeartbeatFails(a) ==
  /\ pc[a] = "post"
  /\ GoTo(a, "wait")
  /\ net' = Orphaned(a)
  /\ lapsed' = [lapsed EXCEPT ![a] = @ \/ ~answered[a]]
  /\ UNCHANGED <<up, shown, phase, tick, stopping, answered, deadFor>>

(* "Registered with ..." is printed, which calls LocalNode once more, and  *)
(* only then the ticker is made.                                           *)
Announce(a) ==
  /\ pc[a] = "announce"
  /\ GoTo(a, "wait")
  /\ phase' = [phase EXCEPT ![a] = 0]
  /\ tick' = [tick EXCEPT ![a] = FALSE]
  /\ UNCHANGED <<up, shown, net, stopping, answered, lapsed, deadFor>>

(* The two cases of the select; when both are ready either may be taken.   *)
Beat(a) ==
  /\ pc[a] = "wait"
  /\ tick[a]
  /\ tick' = [tick EXCEPT ![a] = FALSE]
  /\ GoTo(a, "inspect")
  /\ UNCHANGED <<up, shown, net, phase, stopping, answered, lapsed, deadFor>>

Leave(a) ==
  /\ pc[a] = "wait"
  /\ stopping[a]
  /\ Exit(a)

(* An interrupt cancels the context, which no post looks at. *)
Interrupt(a) ==
  /\ pc[a] # "off"
  /\ ~stopping[a]
  /\ stopping' = [stopping EXCEPT ![a] = TRUE]
  /\ UNCHANGED <<up, shown, net, pc, elapsed, phase, tick, answered, lapsed,
                 deadFor>>

(* The machine dies, or the process is killed. *)
Crash(a) == pc[a] # "off" /\ Exit(a)
-----------------------------------------------------------------------------
(* A request gets a connection to the controller, possibly to one that was *)
(* started since, if its host did not refuse but answered nothing: the     *)
(* operating system tries again until the client times out.                *)
Connect(m) ==
  /\ up
  /\ m \in net
  /\ ~m.connected
  /\ net' = (net \ {m}) \cup {[m EXCEPT !.connected = TRUE]}
  /\ UNCHANGED <<up, shown, loopVars, lapsed, deadFor>>

(* Mutant: only a registration may create an entry.                        *)
UpsertKnown(m) ==
  /\ shown[NameOf[m.from]] = None => pc[m.from] # "post"
  /\ NL!Report(NameOf[m.from], [from |-> m.from, lag |-> m.sample + m.transit])

Upsert(m) ==
  NL!Report(NameOf[m.from], [from |-> m.from, lag |-> m.sample + m.transit])

(* The controller handles a request: the upsert and, if the sender still   *)
(* waits, the answer.                                                      *)
Handle(m) ==
  /\ up
  /\ m \in net
  /\ m.connected
  /\ net' = net \ {m}
  /\ Upsert(m)
  /\ answered' = [answered EXCEPT ![m.from] = @ \/ m.waiting]
  /\ lapsed' = [lapsed EXCEPT ![m.from] = @ /\ ~m.waiting]
  /\ UNCHANGED <<up, pc, elapsed, phase, tick, stopping, deadFor>>

(* The network, or a controller that is not there, swallows a request.     *)
Lose(m) ==
  /\ m \in net
  /\ net' = net \ {m}
  /\ lapsed' = [lapsed EXCEPT ![m.from] = @ \/ m.waiting]
  /\ UNCHANGED <<up, shown, loopVars, deadFor>>

(* The controller process ends and takes its connections with it: of the   *)
(* requests under way only those that still connect can reach the next.    *)
CtlStop ==
  /\ up
  /\ up' = FALSE
  /\ NL!Forget
  /\ net' = {m \in net : ~m.connected}
  /\ lapsed' = [a \in Agents |-> TRUE]
  /\ UNCHANGED <<loopVars, deadFor>>

CtlStart ==
  /\ ~up
  /\ up' = TRUE
  /\ UNCHANGED <<shown, net, loopVars, lapsed, deadFor>>

(* Mutant: the HTTP client has no timeout.                                 *)
TimedOutNever(a) == FALSE

TimedOut(a) == Posting(a) /\ elapsed[a] >= PostTimeout

(* Nothing is due that must happen before time goes on. *)
MayPass ==
  /\ \A m \in net : m.transit < MaxDelay
  /\ \A a \in Agents :
       /\ Inspecting(a) \/ pc[a] = "announce" => elapsed[a] < MaxInspect
       /\ ~TimedOut(a)
       /\ pc[a] = "wait" => ~tick[a] /\ ~stopping[a]

(* Mutants: a period one unit too long, and one twice too long.            *)
FiresLate(a)  == Ticking(a) /\ phase[a] = HeartbeatInterval
FiresTwice(a) == Ticking(a) /\ phase[a] + 1 = 2 * HeartbeatInterval

(* The ticker of the agent fires, every HeartbeatInterval.                 *)
Fires(a) == Ticking(a) /\ phase[a] + 1 = HeartbeatInterval

(* A unit of time passes; a tick that finds its channel full is dropped.   *)
Pass ==
  /\ MayPass
  /\ NL!Elapse
  /\ net' = {[m EXCEPT !.transit = @ + 1] : m \in net}
  /\ elapsed' = [a \in Agents |->
                   IF pc[a] \in {"off", "wait"} THEN 0 ELSE elapsed[a] + 1]
  /\ phase' = [a \in Agents |->
                 IF ~Ticking(a) \/ Fires(a) THEN 0 ELSE phase[a] + 1]
  /\ tick' = [a \in Agents |-> tick[a] \/ Fires(a)]
  /\ deadFor' = [a \in Agents |->
                   IF pc[a] = "off" /\ deadFor[a] < GhostLimit
                   THEN deadFor[a] + 1 ELSE deadFor[a]]
  /\ UNCHANGED <<up, pc, stopping, answered, lapsed>>

Step(a) ==
  \/ EndInspect(a)
  \/ PostOk(a)
  \/ RegisterFails(a)
  \/ HeartbeatFails(a)
  \/ Announce(a)
  \/ Beat(a)
  \/ Leave(a)

Next ==
  \/ \E a \in Agents : Step(a) \/ Join(a) \/ Interrupt(a) \/ Crash(a)
  \/ \E m \in net : Connect(m) \/ Handle(m) \/ Lose(m)
  \/ CtlStop
  \/ CtlStart
  \/ Pass

(* A running agent makes its steps, time goes on, and of the infinitely    *)
(* many requests a machine sends a running controller some get a           *)
(* connection, and of those some get through.                              *)
ConnectOf(a) == \E m \in net : m.from = a /\ Connect(m)
HandleOf(a)  == \E m \in net : m.from = a /\ Handle(m)

Fairness ==
  /\ SF_vars(Pass)
  /\ \A a \in Agents :
       WF_vars(Step(a)) /\ SF_vars(ConnectOf(a)) /\ SF_vars(HandleOf(a))

Spec == Init /\ [][Next]_vars /\ Fairness
-----------------------------------------------------------------------------
(* What is shown under a's name was reported by a. *)
ShownFor(a) ==
  /\ shown[NameOf[a]] # None
  /\ shown[NameOf[a]].report.from = a

(* "nodes drop ~12s after a box dies" (README.md): a machine whose process *)
(* has ended, also one whose registration failed, is no longer shown once  *)
(* the eviction threshold and the longest delay of a request have passed.  *)
GhostBound ==
  \A a \in Agents :
    pc[a] = "off" /\ ShownFor(a) => deadFor[a] < GhostLimit

(* No deadline has been missed. *)
TimeInv ==
  /\ TypeOK
  /\ \A a \in Agents :
       /\ Inspecting(a) \/ pc[a] = "announce" => elapsed[a] <= MaxInspect
       /\ Posting(a) => elapsed[a] <= PostTimeout

(* A dead machine's requests are at least as old as its death, and what is *)
(* shown of it was sent before it died.                                    *)
GhostInv ==
  /\ TimeInv
  /\ \A m \in net : deadFor[m.from] <= m.transit
  /\ \A n \in Names :
       shown[n] # None =>
         deadFor[shown[n].report.from] <= shown[n].age + MaxDelay
  /\ \A a \in Agents : pc[a] # "off" => deadFor[a] = 0

(* The thresholds leave room for a late answer to the registration, two    *)
(* inspections, one period of the ticker and a late heartbeat.             *)
Prompt == 2 * PostTimeout + 2 * MaxInspect + HeartbeatInterval < evictAfter

(* A machine that has joined stays in the fabric as long as its reports    *)
(* arrive: if the last one was neither lost nor forgotten by a restart of  *)
(* the controller, its name is shown, however the inspections, the answers *)
(* and the ticks the agent misses meanwhile fall.                          *)
SteadyShown ==
  Prompt => \A a \in Agents :
              Joined(a) /\ ~lapsed[a] => shown[NameOf[a]] # None

(* How old the last report can be at each place of the agent's loop. *)
AgeLimit(a) ==
  CASE pc[a] = "announce" -> PostTimeout + elapsed[a]
    [] pc[a] = "wait"     -> PostTimeout + MaxInspect
                             + (IF tick[a] THEN HeartbeatInterval ELSE phase[a])
    [] pc[a] = "inspect"  -> PostTimeout + MaxInspect + HeartbeatInterval
                             + elapsed[a]
    [] OTHER              -> IF answered[a] THEN elapsed[a]
                             ELSE PostTimeout + 2 * MaxInspect
                                  + HeartbeatInterval + elapsed[a]

Steady(a) ==
  ~lapsed[a] =>
    /\ up
    /\ pc[a] \notin {"off", "regInspect"}
    /\ pc[a] = "regPost" => answered[a]
    /\ shown[NameOf[a]] # None
    /\ shown[NameOf[a]].age <= AgeLimit(a)

(* An agent waits for the answer to at most one request. *)
WaitInv ==
  /\ TimeInv
  /\ \A m \in net : m.waiting => Posting(m.from) /\ ~answered[m.from]
  /\ \A m, k \in net : m.waiting /\ k.waiting /\ m.from = k.from => m = k

SteadyInv ==
  /\ WaitInv
  /\ Prompt => \A a \in Agents : Steady(a)

(* "A blip shouldn't kill the agent ... so the node re-appears once the    *)
(* controller is back" (serve.go): as long as the controller is up and the *)
(* machine stays joined, fresh reports of it keep being shown, whatever    *)
(* was lost, evicted or forgotten before.                                  *)
Rejoins ==
  \A a \in Agents :
    <>[](up /\ Joined(a)) => []<>(ShownFor(a) /\ shown[NameOf[a]].age = 0)
-----------------------------------------------------------------------------
(* What the documentation says that the code does not do.                  *)

(* "Heartbeat refreshes this node's liveness and current state"            *)
(* (client.go): a heartbeat never puts back an older state of the machine  *)
(* than the one already shown.                                             *)
Outdated(n) == shown[n].age + shown[n].report.lag

NeverRegresses ==
  [][\A n \in Names :
       /\ shown[n] # None
       /\ shown'[n] # None
       /\ shown'[n].report.from = shown[n].report.from
       /\ shown'[n].age = 0
       => Outdated(n)' <= Outdated(n)]_vars
=============================================================================
