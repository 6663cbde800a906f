---------------------------- MODULE DockerRuntime ----------------------------
(***************************************************************************)
(* The managed sandbox containers, as DockerRuntimeProvider                *)
(* (backend/app/runtime/docker_runtime.py) sees them.  A container's name  *)
(* is derived from the session's id and create is called once per session, *)
(* so a session has at most one container in its life and the container is *)
(* named by its session.                                                   *)
(***************************************************************************)
EXTENDS Database

VARIABLE containers     \* the Docker state of each session's container

ContainerState == {"absent", "created", "starting", "healthy", "exited"}

ContainersInit == containers = [s \in Sessions |-> "absent"]

(* State.Status of the container, as list_managed and stop read it: a      *)
(* container is "running" whether or not its health check has passed.      *)
Up(c) == c \in {"starting", "healthy"}

(* container.stop, after the test of container.status. *)
StopContainer(s) ==
    containers' = [containers EXCEPT ![s] = IF Up(@) THEN "exited" ELSE @]

(* container.remove(force=True); a container that is gone is no error. *)
RemoveContainer(s) == containers' = [containers EXCEPT ![s] = "absent"]

(* The desktop inside the sandbox starts answering its health check. *)
BecomeHealthy(s) ==
    /\ containers[s] = "starting"
    /\ containers' = [containers EXCEPT ![s] = "healthy"]
    /\ UNCHANGED databaseVars

(* The container's main process ends by itself. *)
ContainerExits(s) ==
    /\ Up(containers[s])
    /\ containers' = [containers EXCEPT ![s] = "exited"]
    /\ UNCHANGED databaseVars
=============================================================================
