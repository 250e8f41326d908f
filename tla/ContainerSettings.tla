-------------------------- MODULE ContainerSettings --------------------------
(***************************************************************************)
(* From the calls of the builder to what the runtime is told: the setters  *)
(* of ImageExt (src/core/image/image_ext.rs), the accessors of             *)
(* ContainerRequest (src/core/containers/request.rs), the checks start     *)
(* makes before it pulls anything (src/runners/async_runner.rs), and the   *)
(* two payloads: the create body of Docker (build_container_config and     *)
(* CreateContainerBody) and the ContainerCfg of Apple container            *)
(* (build_config of src/core/client/container_cfg.rs).                     *)
(*                                                                         *)
(* The calls are kept beside the request: what the payload says is         *)
(* compared with them and never with the request.                          *)
(***************************************************************************)
EXTENDS Naturals, Sequences, FiniteSets

CONSTANTS
  HostPorts,  \* host ports that are free; a request for port 0 gets one
  MaxCalls    \* bound of the model: calls of the builder

ASSUME SettingsAssumption == 0 \notin HostPorts /\ MaxCalls \in Nat

None == "none"

(* A function on top of another: the value of the first one wins. *)
f ++ g == [x \in DOMAIN f \cup DOMAIN g |-> IF x \in DOMAIN f THEN f[x] ELSE g[x]]

(* The settings that a later call overwrites, by the part they are about,  *)
(* and the values that the code tells apart.                               *)
IdentitySettings == {"cmd", "name", "tag", "container_name", "hostname", "network"}
ProcessSettings == {"shm_size", "startup_timeout", "working_dir", "user", "open_stdin",
                    "ready_conditions", "health_check"}
FlagSettings == {"privileged", "readonly_rootfs"}
RuntimeSettings == {"init", "platform", "ssh", "masked_paths", "readonly_paths", "kernel"}
MapSettings == {"labels", "env", "hosts"}
Scalars == IdentitySettings \cup ProcessSettings \cup FlagSettings \cup RuntimeSettings

Users == {[uid |-> "1000", gid |-> g] : g \in {None, "", "10", "staff"}}
           \cup {[uid |-> "app", gid |-> None]}

NoUser == [uid |-> None, gid |-> None]

Values(s) ==
  CASE s \in {"init", "ssh"} -> {TRUE}
    [] s \in FlagSettings -> BOOLEAN
    [] s = "open_stdin" -> {"open", "closed"}
    [] s = "cmd" -> {<<>>, <<"a">>}
    [] s = "container_name" -> {"valid", "invalid"}
    [] s = "user" -> Users
    [] s = "health_check" -> {"test", "empty"}
    [] s = "platform" -> {"amd64", "linux/amd64", "linux/arm64", "windows/amd64"}
    [] s = "kernel" -> {"file", "relative", "directory"}
    [] OTHER -> {"a", "b"}

Mounts == [type : {"bind", "volume", "tmpfs"}, mode : {"ro", "rw"}]
ContainerPort == {<<80, "tcp">>, <<80, "udp">>, <<80, "sctp">>}

VARIABLES
  img,      \* what the Image says by itself
  req,      \* ContainerRequest
  calls,    \* the calls that made it
  os,       \* where start runs
  told,     \* the payload of create, and what start uses besides it
  verdict   \* building, created, or rejected by an error

settingsVars == <<img, req, calls, os, told, verdict>>

Images ==
  [env : {<<>>, [k |-> "image"]}, mounts : {<<>>, <<[type |-> "bind", mode |-> "ro"]>>},
   cmd : {<<"image">>}, entrypoint : {"image"}, copies : {<<>>, <<"image">>},
   expose : {<<>>, <<<<80, "tcp">>, <<80, "tcp">>>>, <<<<80, "udp">>, <<80, "sctp">>>>}]

(* From<Image> for ContainerRequest. *)
NewRequest ==
  [s \in Scalars |-> CASE s = "cmd" -> <<>>
                       [] s \in FlagSettings \cup {"init", "ssh"} -> FALSE
                       [] s = "user" -> NoUser
                       [] OTHER -> None]
  ++ [s \in MapSettings |-> <<>>]
  ++ [s \in {"mounts", "ports", "cap_add", "cap_drop", "copies", "consumers"} |-> <<>>]

SettingsInit ==
  /\ img \in Images /\ req = NewRequest /\ calls = <<>>
  /\ os = None /\ told = <<>> /\ verdict = "building"

Called(s, v) ==
  /\ verdict = "building" /\ Len(calls) < MaxCalls
  /\ calls' = Append(calls, [setting |-> s, value |-> v])
  /\ UNCHANGED <<img, os, told, verdict>>

Overwrite(S) ==
  \E s \in S : \E v \in Values(s) : Called(s, v) /\ req' = [req EXCEPT ![s] = v]

Push(s, v) == Called(s, v) /\ req' = [req EXCEPT ![s] = Append(@, v)]

WithIdentity == Overwrite(IdentitySettings)
WithEntry ==
  \E s \in MapSettings : \E v \in {"a", "b"} :
    Called(s, v) /\ req' = [req EXCEPT ![s] = [k |-> v] ++ @]
WithMount == \E m \in Mounts : Push("mounts", m)
WithCopyTo == \E c \in {"a"} : Push("copies", c)
WithMappedPort ==
  \E h \in HostPorts \cup {0} : \E c \in ContainerPort :
    Push("ports", [host |-> h, container |-> c])
WithFlag == Overwrite(FlagSettings)
WithCap == \E s \in {"cap_add", "cap_drop"} : \E c \in {"a"} : Push(s, c)
WithProcess == Overwrite(ProcessSettings)
WithLogConsumer == \E c \in {"a"} : Push("consumers", c)
WithRuntime == Overwrite(RuntimeSettings)
------------------------------------------------------------------------------
(* Mutant of Env: the image wins. *)
EnvOfImage == img.env ++ req["env"]

(* Accessors: the image's part and the request's. *)
Env == req["env"] ++ img.env                    \* fold_env: the request's value wins
AllMounts == img.mounts \o req["mounts"]
Cmd == IF req["cmd"] # <<>> THEN req["cmd"] ELSE img.cmd
AllCopies == img.copies \o req["copies"]
OrElse(v, default) == IF v = None THEN default ELSE v
Descriptor == <<OrElse(req["name"], "image"), OrElse(req["tag"], "image")>>

(* Checks before the pull. *)
LinuxUnsupported ==
  \/ req["ssh"]
  \/ \E s \in {"masked_paths", "readonly_paths", "kernel"} : req[s] # None

RejectDuplicateMappedPorts ==
  \E i, j \in DOMAIN req["ports"] :
    i # j /\ req["ports"][i].container = req["ports"][j].container

RejectSctpPorts ==
  \/ \E i \in DOMAIN req["ports"] : req["ports"][i].container[2] = "sctp"
  \/ \E i \in DOMAIN img.expose : img.expose[i][2] = "sctp"

InvalidKernelPath == req["kernel"] \in {"relative", "directory"}

MacRejects ==
  \/ req["health_check"] # None \/ req["container_name"] = "invalid"
  \/ RejectSctpPorts \/ RejectDuplicateMappedPorts \/ InvalidKernelPath

(* with_mapped_port, and port 0 for what the image exposes besides, once.  *)
Expose(q, c) ==
  IF \E i \in DOMAIN q : q[i].container = c THEN q
  ELSE Append(q, [host |-> 0, container |-> c])
PublishedTo(ports, expose) ==
  LET P[i \in 0..Len(expose)] == IF i = 0 THEN ports ELSE Expose(P[i - 1], expose[i]) IN P
Published == PublishedTo(req["ports"], img.expose)[Len(img.expose)]

(* What start uses of the request besides the payload.                     *)
Plan == [startup_timeout |-> OrElse(req["startup_timeout"], "60s"),
         ready_conditions |-> OrElse(req["ready_conditions"], "image"),
         copies |-> AllCopies, consumers |-> req["consumers"]]

(* On macOS entrypoint and cmd go through EffectiveCommand (ImageResolve).  *)
Common == [entrypoint |-> img.entrypoint, cmd |-> Cmd, image |-> Descriptor, env |-> Env,
           labels |-> req["labels"], hosts |-> req["hosts"], init |-> req["init"],
           shm_size |-> req["shm_size"], readonly_rootfs |-> req["readonly_rootfs"],
           cap_drop |-> req["cap_drop"]] ++ Plan

(* The host ports h by their container ports, each of which is there once. *)
ByContainerPort(h) ==
  [c \in {Published[i].container : i \in DOMAIN Published} |->
     h[CHOOSE i \in DOMAIN Published : Published[i].container = c]]

(* Healthcheck::to_docker_json: nothing to say is left out.                *)
ToDockerJson(h) == IF h = "empty" THEN None ELSE h

(* build_port_bindings: Docker chooses for port 0.                         *)
BuildPortBindings == ByContainerPort([i \in DOMAIN Published |-> Published[i].host])

(* build_container_config and from_config; then the parts of the body.     *)
Config == [container_name |-> req["container_name"], platform |-> req["platform"]]

Body == [working_dir |-> req["working_dir"], user |-> req["user"], hostname |-> req["hostname"],
         open_stdin |-> OrElse(req["open_stdin"], "closed"),
         health_check |-> ToDockerJson(req["health_check"])]

HostConfig == [privileged |-> req["privileged"], cap_add |-> req["cap_add"],
               network |-> req["network"], mounts |-> AllMounts, ports |-> BuildPortBindings]

CreateContainerBody == Common ++ Config ++ Body ++ HostConfig

StartLinux ==
  /\ verdict = "building" /\ os' = "linux"
  /\ \/ /\ LinuxUnsupported \/ RejectDuplicateMappedPorts
        /\ verdict' = "rejected" /\ told' = told
     \/ /\ ~LinuxUnsupported /\ ~RejectDuplicateMappedPorts
        /\ verdict' = "created" /\ told' = CreateContainerBody
  /\ UNCHANGED <<img, req, calls>>

NormalizePlatform ==
  CASE req["platform"] \in {"linux/amd64", "amd64"} -> [arch |-> "amd64", rosetta |-> TRUE]
    [] OTHER -> [arch |-> "arm64", rosetta |-> FALSE]

(* parse_user: numbers here, names inside the container. *)
ParseUser ==
  CASE req["user"] = NoUser -> [uid |-> "0", gid |-> "0"]
    [] req["user"].uid = "app" -> [raw |-> req["user"]]
    [] OTHER -> [uid |-> req["user"].uid,
                 gid |-> IF req["user"].gid \in {None, ""} THEN "0" ELSE req["user"].gid]
InvalidGid == req["user"].uid = "1000" /\ req["user"].gid = "staff"

(* The volumes' paths come from resolve_volumes (ImageResolve). *)
FsType(m) == CASE m.type = "bind" -> "virtiofs" [] OTHER -> m.type
MountCfg(m) ==
  [fs |-> FsType(m), options |-> m.mode,
   source |-> CASE m.type = "bind" -> "path" [] m.type = "volume" -> "image of volume"
                [] OTHER -> "tmpfs"]

(* Host ports, mapping by mapping: the one asked for, or for port 0 a free *)
(* one that no earlier mapping has.                                        *)
HostPortChoices ==
  {h \in [DOMAIN Published -> HostPorts] :
     \A i \in DOMAIN Published :
       IF Published[i].host # 0 THEN h[i] = Published[i].host
       ELSE \A j \in 1 .. i - 1 : h[j] # h[i]}

(* A fixed one that an earlier mapping has got ends in an error.           *)
Taken(h) == \E i \in DOMAIN h : Published[i].host # 0 /\ \E j \in 1 .. i - 1 : h[j] = h[i]
NoFreePort == \E i \in DOMAIN Published : Published[i].host = 0

PortCfg(h) == [ports |-> ByContainerPort(h)]

InitProcessCfg == [working_dir |-> OrElse(req["working_dir"], "/"), user |-> ParseUser,
                   open_stdin |-> OrElse(req["open_stdin"], "closed")]

NetworkCfg == [hostname |-> OrElse(req["hostname"], OrElse(req["container_name"], "id")),
               network |-> OrElse(req["network"], "default"), platform |-> NormalizePlatform]

ContainerCfg == [container_name |-> OrElse(req["container_name"], "id"), ssh |-> req["ssh"],
                 masked_paths |-> req["masked_paths"], readonly_paths |-> req["readonly_paths"]]

BuildConfig(h) ==
  Common ++ ContainerCfg ++ InitProcessCfg ++ NetworkCfg ++ PortCfg(h) ++
  [cap_add |-> IF req["privileged"] THEN <<"ALL">> ELSE req["cap_add"],
   mounts |-> [i \in DOMAIN AllMounts |-> MountCfg(AllMounts[i])],
   kernel |-> OrElse(req["kernel"], "default")]

StartMac ==
  /\ verdict = "building" /\ os' = "macos"
  /\ \/ verdict' = "rejected" /\ told' = told /\ (MacRejects \/ InvalidGid \/ NoFreePort)
     \/ /\ ~MacRejects /\ ~InvalidGid
        /\ \E h \in HostPortChoices :
             IF Taken(h) THEN verdict' = "rejected" /\ told' = told
             ELSE verdict' = "created" /\ told' = BuildConfig(h)
  /\ UNCHANGED <<img, req, calls>>

SettingsNext ==
  \/ WithIdentity \/ WithEntry \/ WithMount \/ WithCopyTo \/ WithMappedPort \/ WithFlag
  \/ WithCap \/ WithProcess \/ WithLogConsumer \/ WithRuntime \/ StartLinux \/ StartMac

SettingsSpec == SettingsInit /\ [][SettingsNext]_settingsVars
------------------------------------------------------------------------------
(* The elements of s at the places in D, in order. *)
PickTo(s, D) ==
  LET P[i \in 0..Len(s)] ==
        IF i = 0 THEN <<>>
        ELSE IF i \in D THEN Append(P[i - 1], s[i]) ELSE P[i - 1]
  IN  P
Pick(s, D) == PickTo(s, D)[Len(s)]

(* What the calls asked for, read from the calls. *)
ValuesOf(s) == LET mine == Pick(calls, {i \in DOMAIN calls : calls[i].setting = s})
               IN [i \in DOMAIN mine |-> mine[i].value]
Last(seq) == seq[Len(seq)]
Asked(s) == ValuesOf(s) # <<>>
LastOr(s, default) == IF Asked(s) THEN Last(ValuesOf(s)) ELSE default

HonouredAsIs ==
  {"hostname", "network", "container_name", "readonly_rootfs",
   "shm_size", "startup_timeout", "working_dir", "open_stdin", "ready_conditions",
   "init", "ssh", "masked_paths", "readonly_paths", "kernel"}

UserHonoured(u) ==
  \/ told["user"] = u \/ told["user"] = [raw |-> u]
  \/ told["user"] = [uid |-> u.uid, gid |-> IF u.gid = "10" THEN "10" ELSE "0"]
       /\ u.uid # "app" /\ u.gid # "staff"

MountHonoured(m) ==
  \E i \in DOMAIN told["mounts"] :
    LET t == told["mounts"][i] IN
    IF os = "linux" THEN t = m
    ELSE /\ t.options = m.mode
         /\ t.fs = IF m.type = "bind" THEN "virtiofs" ELSE m.type

PortHonoured(p) ==
  /\ p.container \in DOMAIN told["ports"]
  /\ p.host # 0 => told["ports"][p.container] = p.host

(* No setting is lost on the way: when a container is created, the payload *)
(* of either platform says the last value given for every setting, holds   *)
(* every entry, mount, capability, file and consumer that was added, says  *)
(* what the image brings where no call overrides it, the image's files     *)
(* first, adds no capability that nobody asked for (privileged is ALL on   *)
(* macOS), and publishes every mapped and exposed port, each at the host   *)
(* port asked for or at one that no other port of the payload has.  What a *)
(* platform cannot do is refused (linux_unsupported_request_reason, the    *)
(* checks of start on macOS); only an unknown platform string is ignored,  *)
(* on macOS, as normalize_platform says it is.                             *)
SettingsHonoured ==
  verdict = "created" =>
    /\ \A s \in HonouredAsIs : Asked(s) => told[s] = Last(ValuesOf(s))
    /\ told["image"] = <<LastOr("name", "image"), LastOr("tag", "image")>>
    /\ ~Asked("ready_conditions") => told["ready_conditions"] = "image"
    /\ told["entrypoint"] = img.entrypoint
    /\ told["cmd"] = IF Asked("cmd") /\ Last(ValuesOf("cmd")) # <<>>
                     THEN Last(ValuesOf("cmd")) ELSE img.cmd
    /\ Asked("user") => UserHonoured(Last(ValuesOf("user")))
    /\ os = "linux" => told["privileged"] = LastOr("privileged", FALSE)
    /\ told["cap_add"] = IF os = "macos" /\ LastOr("privileged", FALSE)
                         THEN <<"ALL">> ELSE ValuesOf("cap_add")
    /\ Asked("health_check") =>
         os = "linux" /\ (Last(ValuesOf("health_check")) = "test" => told["health_check"] = "test")
    /\ Asked("platform") =>
         IF os = "linux" THEN told["platform"] = Last(ValuesOf("platform"))
         ELSE Last(ValuesOf("platform")) # "windows/amd64" =>
                told["platform"].arch = IF Last(ValuesOf("platform")) = "linux/arm64"
                                        THEN "arm64" ELSE "amd64"
    /\ \A s \in MapSettings : Asked(s) => told[s].k = Last(ValuesOf(s))
    /\ ~Asked("env") => told["env"] = img.env
    /\ told["copies"] = img.copies \o ValuesOf("copies")
    /\ \A s \in {"consumers", "cap_drop"} : told[s] = ValuesOf(s)
    /\ \A m \in {(img.mounts \o ValuesOf("mounts"))[i] :
                   i \in 1 .. Len(img.mounts) + Len(ValuesOf("mounts"))} : MountHonoured(m)
    /\ \A i \in DOMAIN ValuesOf("ports") : PortHonoured(ValuesOf("ports")[i])
    /\ \A i \in DOMAIN img.expose : img.expose[i] \in DOMAIN told["ports"]
    /\ os = "macos" => \A c, d \in DOMAIN told["ports"] :
                         c # d => told["ports"][c] # told["ports"][d]
=============================================================================
