------------------------------ MODULE Startup ------------------------------
(***************************************************************************)
(* The start of the program (main.rs, cmd/root.rs, the setup functions).   *)
(* Each step makes one thing available: an ID, a channel, a running loop.  *)
(* The loops run in threads and tasks of their own as soon as they are     *)
(* spawned, while the later steps are still to be made: what they take in  *)
(* meanwhile may need something that is not there yet.  A handler that     *)
(* misses something fails; the loop it runs in goes on (EventLoop).  It    *)
(* does not while its handler waits: the mesh loop of a relay runs the     *)
(* commands sent to it and awaits each child process, without a timeout    *)
(* (commands.rs:100).  Nothing here says that such a process ends.         *)
(***************************************************************************)
EXTENDS EventLoop, SequencesExt

VARIABLES done,   \* how many of Steps have been made
          ended,  \* the process has ended
          failed, \* the last handler that missed something, and when it did
          waiting \* the mesh loop awaits the child process of a command

startVars == <<done, ended, failed, waiting>>

MainSteps == <<"configuration", "log_level", "logging">>

\* proxy::setup: only a border gateway has the proxy API.
ProxySteps == IF conf.border THEN <<"EVENT_CHAN", "command_loop">> ELSE <<>>

ConcentratordSteps ==
  <<"GATEWAY_ID", "CONCENTRATORD_CMD_CHAN", "subscribed", "event_loop">>

MeshSteps ==
  <<"RELAY_ID", "MESH_CONCENTRATORD_CMD_CHAN", "mesh_subscribed", "mesh_event_loop">>

\* events::setup and commands::setup: only relays report and obey.
EventsSteps == IF conf.border THEN <<>> ELSE <<"event_commands", "report_loops">>
CommandsSteps == IF conf.border THEN <<>> ELSE <<"COMMANDS">>

\* A slip: the backend is set up before the proxy it sends events to.
StepsBackendFirst ==
  MainSteps \o ConcentratordSteps \o MeshSteps \o ProxySteps \o EventsSteps \o CommandsSteps

Steps ==
  MainSteps \o ProxySteps \o ConcentratordSteps \o MeshSteps \o EventsSteps \o CommandsSteps

Made(step) == step \in ToSet(SubSeq(Steps, 1, done))
Started == done = Len(Steps)

\* Steps that can end in an error, which main unwraps.  Setting up the log is retried.
MayFail == {"configuration", "log_level", "GATEWAY_ID", "RELAY_ID", "event_commands",
            "COMMANDS"}

\* What the handlers read, by what they were asked for.
BorderNeeds ==
  [uplink |-> {"EVENT_CHAN"}, stats |-> {"EVENT_CHAN"},
   mesh |-> {"GATEWAY_ID", "EVENT_CHAN"},
   id |-> {"GATEWAY_ID"}, config |-> {"CONCENTRATORD_CMD_CHAN"},
   downlink |-> {"CONCENTRATORD_CMD_CHAN"}, relay |-> {"MESH_CONCENTRATORD_CMD_CHAN"}]

RelayNeeds ==
  [uplink |-> {"RELAY_ID", "MESH_CONCENTRATORD_CMD_CHAN"},
   mesh |-> {"RELAY_ID", "MESH_CONCENTRATORD_CMD_CHAN"},
   unwrap |-> {"RELAY_ID", "GATEWAY_ID", "CONCENTRATORD_CMD_CHAN"},
   command |-> {"RELAY_ID", "MESH_CONCENTRATORD_CMD_CHAN", "COMMANDS"},
   report |-> {"RELAY_ID", "MESH_CONCENTRATORD_CMD_CHAN", "event_commands"}]

Needs(what) == IF conf.border THEN BorderNeeds[what] ELSE RelayNeeds[what]

OnMesh == IF conf.border THEN {"mesh"} ELSE {"mesh", "unwrap", "command"}
AtProxy == {"id", "config", "downlink", "relay"}

\* The handler runs: it fails when something it reads has not been set.  A request
\* for the gateway ID is then answered with zeros.
HasAll(what) == \A n \in Needs(what) : Made(n)

Runs(what) ==
  failed' = IF HasAll(what) THEN failed ELSE [what |-> what, started |-> Started]

StartInit ==
  /\ Init
  /\ done = 0 /\ ended = FALSE /\ waiting = FALSE
  /\ failed = [what |-> "nothing", started |-> FALSE]

Advance ==
  /\ ~ ended /\ ~ Started
  /\ done' = done + 1
  /\ UNCHANGED <<vars, ended, failed, waiting>>

Fail ==
  /\ ~ ended /\ ~ Started
  /\ Steps[done + 1] \in MayFail
  /\ ended' = TRUE
  /\ UNCHANGED <<vars, done, failed, waiting>>

\* SIGINT or SIGTERM, before or after its handler is installed.
Signal == ~ ended /\ ended' = TRUE /\ UNCHANGED <<vars, done, failed, waiting>>

\* An event reaches the loops that have subscribed.
Subscribed == {l \in Loops : Made(IF l = "event" THEN "subscribed" ELSE "mesh_subscribed")}

Publish(e) ==
  /\ ~ ended
  /\ \E loops \in Subscriptions :
       loops \cap Subscribed # {} /\ Receive(e, loops \cap Subscribed)
  /\ UNCHANGED startVars

TakeEvent ==
  /\ ~ ended /\ Made("event_loop")
  /\ HandleEvent
  /\ IF handled' # handled THEN Runs("uplink")
     ELSE IF stats' # stats THEN Runs("stats") ELSE UNCHANGED failed
  /\ UNCHANGED <<done, ended, waiting>>

\* The mesh loop takes its next event when the handler of the one before it is done.
TakeMeshEvent ==
  /\ ~ ended /\ Made("mesh_event_loop") /\ ~ waiting
  /\ HandleMeshEvent
  /\ IF handled' # handled
     THEN \E what \in OnMesh : Runs(what) /\ waiting' = (what = "command" /\ HasAll(what))
     ELSE UNCHANGED <<failed, waiting>>
  /\ UNCHANGED <<done, ended>>

\* The child process of a command ends, if it ever does, and the handler with it.
FinishCommand ==
  /\ ~ ended /\ waiting
  /\ waiting' = FALSE
  /\ UNCHANGED <<vars, done, ended, failed>>

\* A request of the server to the proxy API; a report of a relay.
TakeRequest ==
  /\ ~ ended /\ Made("command_loop")
  /\ \E what \in AtProxy : Runs(what)
  /\ UNCHANGED <<vars, done, ended, waiting>>

TakeReport ==
  /\ ~ ended /\ Made("report_loops")
  /\ Runs("report")
  /\ UNCHANGED <<vars, done, ended, waiting>>

StartNext ==
  \/ Advance \/ Fail \/ Signal
  \/ \E e \in Events : Publish(e)
  \/ TakeEvent \/ TakeMeshEvent \/ FinishCommand \/ TakeRequest \/ TakeReport

startAllVars == <<vars, startVars>>

StartSpec == StartInit /\ [][StartNext]_startAllVars

\* The steps, and both loops, are tasks of the runtime; syslog comes up some time.
\* A child process is no task of the runtime: there is no fairness of FinishCommand.
StartFairSpec ==
  /\ StartSpec
  /\ WF_startAllVars(Advance)
  /\ WF_startAllVars(TakeEvent) /\ WF_startAllVars(TakeMeshEvent)

-----------------------------------------------------------------------------
(***************************************************************************)
(* Handlers that run before the start is over may fail, but nothing fails  *)
(* for what the start leaves out, and only some can come too early: on a   *)
(* relay the frames of its own devices and commands of the border gateway, *)
(* on a border gateway the requests of the server.  A border gateway never *)
(* loses a frame it could proxy, and a relay always forwards and delivers  *)
(* (backend.rs:97, 148, root.rs:10).                                       *)
(***************************************************************************)
OnlyEarlyFails ==
  failed.what # "nothing" =>
    /\ ~ failed.started
    /\ failed.what \in (IF conf.border THEN AtProxy ELSE {"uplink", "command"})

\* A frame for a loop, in its channel, that can be formatted and whose CRC is right.
Pending(l, n) ==
  /\ n \in ToSet(channel[l])
  /\ received[n].kind = (IF l = "event" THEN "lora" ELSE "mesh")
  /\ received[n].crc /\ Formats(received[n])

(***************************************************************************)
(* Every frame that waits for its loop is handed over to handle_uplink or  *)
(* handle_mesh, unless the process ends: no event before it and no handler *)
(* that failed stops a loop (backend.rs:241, 258).  A command that never   *)
(* ends stops the mesh loop, but not the other: for mesh frames this says  *)
(* nothing when the loop awaits a command for ever (commands.rs:100).      *)
(***************************************************************************)
QueuedIsHandled ==
  \A n \in 1 .. MaxEvents :
    /\ (Pending("event", n) /\ ~ conf.ignoreDirect) ~> (<<"event", n>> \in handled \/ ended)
    /\ ([]<>~ waiting) => (Pending("mesh", n) ~> (<<"mesh", n>> \in handled \/ ended))
=============================================================================
