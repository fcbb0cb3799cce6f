------------------------------ MODULE Launcher ------------------------------
(***************************************************************************)
(* The Docker launcher of one dispatch (runner_launchers/docker.py) and    *)
(* the containers it creates.  dispatch_batch calls get_endpoint only; a   *)
(* runner that is up ends by itself, and its container is then removed     *)
(* by the engine (AutoRemove).                                             *)
(***************************************************************************)
EXTENDS Integers, Faults

CONSTANTS Networks,        \* the networks of the orchestrator's own container
          MaxContainers    \* container names in use at a time

ASSUME LauncherAssumption == Networks \in Nat \ {0} /\ MaxContainers \in Nat \ {0}

VARIABLES engine,          \* container -> what the engine has of it
          launch,          \* where start_runner is, and its container_id
          excused          \* containers the launcher could not know of or not delete

launcherVars == <<engine, launch, excused>>

Container == 1..MaxContainers
NoContainer == 0

LaunchAt == {"off", "validate", "image", "inspect", "create", "start", "connect", "delete", "up", "failed"}

LauncherType ==
  /\ engine \in [Container -> {"absent", "created", "up"}]
  /\ launch \in [at : LaunchAt, box : Container \cup {NoContainer}, networks : 0..Networks]
  /\ excused \subseteq Container

NoLaunch == [at |-> "off", box |-> NoContainer, networks |-> 0]

LauncherInit ==
  /\ engine = [c \in Container |-> "absent"]
  /\ launch = NoLaunch /\ excused = {}

\* get_endpoint: a launcher that has an endpoint keeps it.
GetEndpoint ==
  /\ launch.at = "off" /\ launch' = [launch EXCEPT !.at = "validate"]
  /\ UNCHANGED <<engine, excused, faults>>

\* What comes before the creation leaves nothing behind when it fails.
Prepare(step, next) ==
  /\ launch.at = step
  /\ \/ launch' = [launch EXCEPT !.at = next] /\ UNCHANGED faults
     \/ launch' = [launch EXCEPT !.at = "failed"] /\ Fault
  /\ UNCHANGED <<engine, excused>>

\* An unusable definition, no socket; an image that is neither there nor can be
\* pulled; an orchestrator that does not find its own mounts and networks.
Validate == Prepare("validate", "image")
EnsureImage == Prepare("image", "inspect")
DiscoverHostContext == Prepare("inspect", "create")

\* The name is fresh.  A container whose creation is not answered has no
\* container_id: the except clause cannot delete it.
Create ==
  /\ launch.at = "create"
  /\ \E c \in Container :
       /\ engine[c] = "absent" /\ \A d \in Container : engine[d] = "absent" => c <= d
       /\ \/ /\ engine' = [engine EXCEPT ![c] = "created"]
             /\ launch' = [launch EXCEPT !.at = "start", !.box = c]
             /\ UNCHANGED <<excused, faults>>
          \/ /\ engine' = [engine EXCEPT ![c] = "created"]
             /\ launch' = [launch EXCEPT !.at = "failed"]
             /\ excused' = excused \cup {c} /\ Fault
          \/ /\ launch' = [launch EXCEPT !.at = "failed"] /\ Fault
             /\ UNCHANGED <<engine, excused>>

\* Mutant: a failed start raises without the deletion.
FailedWithoutDelete == "failed"
OnError == "delete"

\* A start whose answer is lost may have happened.
Start ==
  /\ launch.at = "start"
  /\ \/ /\ engine' = [engine EXCEPT ![launch.box] = "up"]
        /\ launch' = [launch EXCEPT !.at = "connect", !.networks = 1]
        /\ UNCHANGED faults
     \/ /\ engine' \in {engine, [engine EXCEPT ![launch.box] = "up"]}
        /\ launch' = [launch EXCEPT !.at = OnError] /\ Fault
  /\ UNCHANGED excused

\* networks[1:], one call each; then the endpoint is known.
Connect ==
  /\ launch.at = "connect"
  /\ \/ launch.networks = Networks /\ launch' = [launch EXCEPT !.at = "up"] /\ UNCHANGED faults
     \/ /\ launch.networks < Networks /\ engine[launch.box] = "up"
        /\ launch' = [launch EXCEPT !.networks = @ + 1] /\ UNCHANGED faults
     \/ /\ launch.networks < Networks /\ launch' = [launch EXCEPT !.at = OnError]
        /\ IF engine[launch.box] = "up" THEN Fault ELSE UNCHANGED faults
  /\ UNCHANGED <<engine, excused>>

\* DELETE ...?force=1, whose own failure is ignored.
Delete ==
  /\ launch.at = "delete"
  /\ \/ engine' = [engine EXCEPT ![launch.box] = "absent"] /\ UNCHANGED <<excused, faults>>
     \/ /\ engine[launch.box] # "absent" /\ Fault
        /\ excused' = excused \cup {launch.box} /\ UNCHANGED engine
  /\ launch' = [launch EXCEPT !.at = "failed", !.box = NoContainer]

LaunchStep == Validate \/ EnsureImage \/ DiscoverHostContext \/ Create \/ Start \/ Connect \/ Delete

\* The batch is over: its launcher is dropped, its runner was asked to shut down.
DropLauncher == launch' = NoLaunch /\ UNCHANGED <<engine, excused, faults>>

\* A runner exits, asked to or by its watchdogs, and takes its container along.
RunnerExits(c) ==
  /\ engine[c] = "up" /\ engine' = [engine EXCEPT ![c] = "absent"]
  /\ excused' = excused \ {c}
  /\ UNCHANGED <<launch, faults>>

\* A container that was created and never started, which AutoRemove does not
\* remove, is the one being launched or one whose creation was not answered or
\* whose deletion failed: no path through start_runner forgets it.
NoForgottenContainer ==
  \A c \in Container : engine[c] = "created" => c \in excused \/ launch.box = c
=============================================================================
