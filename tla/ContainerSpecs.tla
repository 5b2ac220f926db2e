--------------------------- MODULE ContainerSpecs ---------------------------
(***************************************************************************)
(* How a container is described to the engine, what the engine tells of it *)
(* afterwards, and what of it RecreateContainer therefore carries over     *)
(* into the container that takes its place.                                *)
(***************************************************************************)

CONSTANTS
    ImageEnv,       \* ImageEnv[i]: the environment image i brings along
    ImageCmd        \* ImageCmd[i]: the command image i runs if given none

NoSpec == [none |-> TRUE]
NoText == ""
NoCmd == <<>>
NoEnv == [n \in {} |-> NoText]
NoHealth == [test |-> NoText, startPeriod |-> 0, interval |-> 0]

(* driver.ContainerCreateOptions, as far as a driver reads them: config is *)
(* its ContainerConfig.                                                    *)
ContainerCreateOptions(config, mounts, privileged, networks) ==
    [hostname |-> config.hostname, image |-> config.image, env |-> config.env,
     cmd |-> config.cmd, health |-> config.health, labels |-> config.labels,
     ports |-> config.ports, mounts |-> mounts, privileged |-> privileged,
     networks |-> networks]

(* A container has the variables of its image and, over them, its own.     *)
Overlay(env, own) ==
    [n \in DOMAIN env \cup DOMAIN own |->
        IF n \in DOMAIN own THEN own[n] ELSE env[n]]

(* What an engine makes of a specification.                                *)
Made(spec) ==
    [spec EXCEPT !.env = Overlay(ImageEnv[spec.image], spec.env),
                 !.cmd = IF spec.cmd = NoCmd THEN ImageCmd[spec.image]
                         ELSE spec.cmd]

(* Of a health check, docker is told the test and the start period.        *)
newDockerContainerSpec(options) ==
    [options EXCEPT !.health.interval = 0]

(* Podman is told neither host name, health check, labels nor ports.       *)
newPodmanContainerSpec(options) ==
    [options EXCEPT !.hostname = NoText, !.health = NoHealth,
                    !.labels = {}, !.ports = {}, !.privileged = TRUE]

(* Without an image (or a root file system) podman refuses.                *)
CreateAllowed(driver, options) ==
    driver = "podman" => options.image # NoText

ContainerCreate(driver, options) ==
    Made(IF driver = "docker" THEN newDockerContainerSpec(options)
         ELSE newPodmanContainerSpec(options))

(* Variables that are set to nothing are left out.                         *)
Named(env) == [n \in {m \in DOMAIN env : env[m] # NoText} |-> env[n]]

(* Mutant: the mounts are not listed.                                      *)
InspectWithoutMounts(driver, container) ==
    [container EXCEPT !.env = Named(@), !.mounts = {}]

(* ContainerInspect of either driver: the Config that comes with it has no *)
(* command, and podman's is empty.                                         *)
ContainerInspect(driver, container) ==
    IF driver = "docker"
    THEN [container EXCEPT !.env = Named(@), !.cmd = NoCmd]
    ELSE [container EXCEPT !.hostname = NoText, !.image = NoText,
                           !.env = NoEnv, !.cmd = NoCmd, !.health = NoHealth,
                           !.labels = {}, !.ports = {}, !.mounts = {}]

(* RecreateContainer, from what it inspected to the options it creates     *)
(* with.                                                                   *)
RecreateOptions(current) == [current EXCEPT !.privileged = TRUE]

Recreated(driver, container) ==
    ContainerCreate(driver, RecreateOptions(ContainerInspect(driver, container)))
=============================================================================
