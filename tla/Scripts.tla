------------------------------- MODULE Scripts -------------------------------
(***************************************************************************)
(* The LXD calls that the endpoints make, in order: the methods of         *)
(* LXDClient as sequences of calls, the handlers as sequences of methods.  *)
(* Every call is awaited in a thread; what becomes of it is in Operations  *)
(* (changes) and Readings (the endpoints that only look).                  *)
(*                                                                         *)
(* Some looks are those of pylxd, within the same await: it fetches the    *)
(* network it created, and a container after a waited change of its state. *)
(* Where the handler fetches the container as well, that is one look.      *)
(***************************************************************************)
EXTENDS Integers, Sequences

ChangingOps ==
  {"create", "create and start", "delete", "start", "stop", "restart",
   "snapshot", "delete snapshot", "restore", "import", "delete image",
   "create network", "delete network", "create volume"}

\* "stats" is the stream of statistics.
ReadingOps ==
  {"list", "details", "details with stats", "state", "snapshots", "list images",
   "list networks", "list pools", "list volumes", "stats"}

\* The readings that ask the daemon of a host past LXDClient.
Probes == {"health", "host metrics"}

AllOps == ChangingOps \cup ReadingOps \cup Probes

Kinds == {"container", "snapshot", "image", "network", "pool", "volume"}

\* A call: what is done to which kind of thing.
Do(verb, kind) == [verb |-> verb, kind |-> kind]

\* LXDClient: the calls that a method of the client makes.
CreateContainer == <<Do("create", "container")>>
StartContainer == <<Do("find", "container"), Do("start", "container")>>
StopContainer == <<Do("find", "container"), Do("stop", "container")>>
RestartContainer == <<Do("find", "container"), Do("restart", "container")>>
DeleteContainer == <<Do("find", "container"), Do("delete", "container")>>
GetContainer == <<Do("find", "container")>>
CreateSnapshot == GetContainer \o <<Do("create", "snapshot"), Do("find", "snapshot")>>
DeleteSnapshot == GetContainer \o <<Do("delete", "snapshot")>>
RestoreSnapshot == GetContainer \o <<Do("restore", "snapshot")>>
ImportImage == <<Do("create", "image"), Do("alias", "image")>>
DeleteImage == <<Do("find", "image"), Do("delete", "image")>>
CreateNetwork == <<Do("create", "network"), Do("find", "network")>>
DeleteNetwork == <<Do("find", "network"), Do("delete", "network")>>
CreateVolume == <<Do("find", "pool"), Do("create", "volume")>>

\* Mutant: asks for the state without looking for the container first.
AskForState == <<Do("state", "container")>>

\* The methods that only look.
GetContainerState == GetContainer \o <<Do("state", "container")>>
ListSnapshots == GetContainer \o <<Do("all", "snapshot")>>
ListVolumes == <<Do("find", "pool"), Do("all", "volume")>>

\* Mutant: looks at the container once more, as the other handlers do.
DeleteAndLook ==
  <<Do("peek", "container")>> \o StopContainer \o DeleteContainer \o GetContainer

\* The handlers: the methods of the client that a request goes through.
create_container == CreateContainer
create_and_start == CreateContainer \o StartContainer \o GetContainer
\* "peek" reads the status, and skips the stop unless it is Running.
delete_container == <<Do("peek", "container")>> \o StopContainer \o DeleteContainer
start_container == StartContainer \o GetContainer
stop_container == StopContainer \o GetContainer
restart_container == RestartContainer \o GetContainer
create_snapshot == CreateSnapshot
delete_snapshot == DeleteSnapshot
restore_snapshot == RestoreSnapshot
import_image == ImportImage
delete_image == DeleteImage
create_network == CreateNetwork
delete_network == DeleteNetwork
create_volume == CreateVolume

\* The endpoints that look.  The stream polls with get_container_state.
list_containers == <<Do("all", "container")>>
get_container == GetContainer
get_with_stats == GetContainer \o GetContainerState
get_container_state == GetContainer \o GetContainerState
list_snapshots == ListSnapshots
list_images == <<Do("all", "image")>>
list_networks == <<Do("all", "network")>>
list_storage_pools == <<Do("all", "pool")>>
list_volumes == ListVolumes
container_stats_sse == GetContainerState

\* The probes: GET /1.0, /1.0/cluster and /1.0/resources past LXDClient.
host_health == <<Do("root", "host"), Do("cluster", "host"), Do("resources", "host")>>
host_metrics == <<Do("resources", "host")>>

Script(op) ==
  CASE op = "create" -> create_container
    [] op = "create and start" -> create_and_start
    [] op = "delete" -> delete_container
    [] op = "start" -> start_container
    [] op = "stop" -> stop_container
    [] op = "restart" -> restart_container
    [] op = "snapshot" -> create_snapshot
    [] op = "delete snapshot" -> delete_snapshot
    [] op = "restore" -> restore_snapshot
    [] op = "import" -> import_image
    [] op = "delete image" -> delete_image
    [] op = "create network" -> create_network
    [] op = "delete network" -> delete_network
    [] op = "create volume" -> create_volume
    [] op = "list" -> list_containers
    [] op = "details" -> get_container
    [] op = "details with stats" -> get_with_stats
    [] op = "state" -> get_container_state
    [] op = "snapshots" -> list_snapshots
    [] op = "list images" -> list_images
    [] op = "list networks" -> list_networks
    [] op = "list pools" -> list_storage_pools
    [] op = "list volumes" -> list_volumes
    [] op = "stats" -> container_stats_sse
    [] op = "health" -> host_health
    [] op = "host metrics" -> host_metrics

\* The calls whose LXDAPIException the client does not turn into an
\* LXDClientError, which is all the endpoints catch.
Bare(c) == c.verb = "state" \/ (c.verb = "all" /\ c.kind # "snapshot")
=============================================================================
