---------------------------- MODULE ImageResolve ----------------------------
(***************************************************************************)
(* What start settles before it creates a container: the image is looked   *)
(* up and pulled if need be (resolve_or_pull_macos, resolve_or_pull_linux  *)
(* of src/runners/async_runner.rs over the two clients), with the          *)
(* credentials of its registry (src/core/client/registry_auth.rs); on      *)
(* macOS the command comes from the manifest of the right platform         *)
(* (src/core/client/image_config.rs) and volumes get their paths.          *)
(*                                                                         *)
(* The daemon's store is shared: others remove images and volumes, and     *)
(* pull other platforms, between any two requests.                         *)
(***************************************************************************)
EXTENDS Naturals, Sequences, FiniteSetsExt

CONSTANTS
  MaxManifests,  \* bound of the model: entries of an index
  MaxMeddling,   \* bound of the model: changes by others
  VolumeNames,   \* volumes the request mounts, sorted, each once
  HOST_ARCH      \* architecture of the host

ASSUME ImageAssumption ==
  /\ MaxManifests \in Nat /\ MaxMeddling \in Nat
  /\ VolumeNames \in Seq(STRING) /\ HOST_ARCH \in {"arm64", "amd64"}

Absent_ == "absent"

(* platform of a manifest; an attestation has architecture unknown.        *)
Manifests == {[os |-> "linux", arch |-> "arm64"], [os |-> "linux", arch |-> "amd64"],
              [os |-> "linux", arch |-> Absent_], [os |-> "windows", arch |-> "amd64"],
              [os |-> Absent_, arch |-> Absent_], [os |-> "unknown", arch |-> "unknown"]}
Indexes == UNION {[1..n -> Manifests] : n \in 1..MaxManifests}

(* mediaType of the descriptor in the daemon's list. *)
Shapes == {"index", "manifest", "config", "other"}

(* First component of a reference, where there is one. *)
Firsts == {Absent_, "user", "localhost", "docker.io", "index.docker.io", "ghcr.io"}

VARIABLES
  on,        \* the platform start runs on
  platform,  \* with_platform after normalize_platform: absent, arm64, amd64
  first,     \* the reference
  shape,     \* what the descriptor of the image is
  index,     \* the manifests of the image: one, unless it is an index
  store,     \* references that the daemon lists
  blobs,     \* manifests of the index whose content the daemon has
  ipc,       \* where start is
  pulls,     \* pulls it made
  cred,      \* the credentials it sent
  chosen,    \* the manifest the command was taken from
  argv,      \* entrypoint and command of the image, and what is run
  volumes,   \* volumes the daemon has
  resolved,  \* how many of the volumes have a path by now
  meddled    \* changes by others so far

imageVars == <<on, platform, first, shape, index, store, blobs, ipc, pulls, cred,
               chosen, argv, volumes, resolved, meddled>>
given == <<on, platform, first, shape, index>>

IsHost(f) == f \in {"localhost", "docker.io", "index.docker.io", "ghcr.io"}

(* normalize_image_reference: the reference with its registry. *)
NormalizeImageReference(f) ==
  CASE f = Absent_ -> "docker.io/library" [] f = "user" -> "docker.io/user" [] OTHER -> f

(* The manifests that a pull brings: of an index those of the platform.    *)
Wanted(p) == {i \in DOMAIN index : \/ p = Absent_ \/ shape # "index"
                                   \/ index[i] = [os |-> "linux", arch |-> p]}

ImageInit ==
  /\ on \in {"linux", "macos"} /\ platform \in {Absent_, "arm64", "amd64"}
  /\ first \in Firsts /\ shape \in Shapes /\ index \in Indexes
  /\ store \in {{}, {NormalizeImageReference(first)}}
  /\ blobs \in IF store = {} THEN {{}} ELSE {DOMAIN index, Wanted("arm64"), Wanted("amd64")}
  /\ ipc = "resolve" /\ pulls = 0 /\ cred = [key |-> Absent_, from |-> Absent_]
  /\ chosen = 0 /\ argv = [image |-> <<>>, asked |-> <<>>, run |-> <<>>]
  /\ volumes \in SUBSET {VolumeNames[i] : i \in DOMAIN VolumeNames} /\ resolved = 0
  /\ meddled = 0
  /\ on = "linux" => Len(index) = 1 /\ shape = "index"
  /\ shape # "index" => Len(index) = 1
  /\ on = "macos" => first \in {Absent_, "ghcr.io"}

Fails == ipc' = "failed"
------------------------------------------------------------------------------
(* match_image_descriptor; Docker completes the reference by itself.       *)
Listed == first \in store \/ NormalizeImageReference(first) \in store

(* Looking the image up: not found is not an error. *)
ResolveImageDescriptor ==
  /\ \/ /\ ipc = "resolve" /\ ~(on = "macos" /\ platform = "amd64")
        /\ \/ Listed /\ ipc' = "found"
           \/ ~Listed /\ ipc' = "pull"
           \/ Fails
     \/ /\ ipc = "resolve again"
        /\ \/ Listed /\ ipc' = "found"
           \/ Fails
  /\ UNCHANGED <<given, store, blobs, pulls, cred, chosen, argv, volumes, resolved,
                 meddled>>

(* For amd64 a reference that is known may lack the blobs: always pull.    *)
ForcePull ==
  /\ ipc = "resolve" /\ on = "macos" /\ platform = "amd64" /\ ipc' = "pull"
  /\ UNCHANGED <<given, store, blobs, pulls, cred, chosen, argv, volumes, resolved,
                 meddled>>

(* auths_key *)
AuthsKey(f) ==
  IF IsHost(f) /\ f \notin {"docker.io", "index.docker.io"} THEN f ELSE "hub"

(* load_config_json: the first of three places, and no other. *)
LoadConfigJson(env, dir, home) ==
  CASE env -> "env"
    [] ~env /\ dir # "unset" -> IF dir = "readable" THEN "dir" ELSE Absent_
    [] OTHER -> IF home THEN "home" ELSE Absent_

(* extract_auth_entry: an entry for the key that can be decoded. *)
XRegistryAuth(from, has) ==
  IF from # Absent_ /\ AuthsKey(first) \in has
  THEN [key |-> AuthsKey(first), from |-> from] ELSE [key |-> Absent_, from |-> Absent_]

(* pull_image on macOS: the platform is named when it was asked for.       *)
PullImageMac ==
  /\ ipc = "pull" /\ on = "macos"
  /\ \/ /\ Wanted(platform) # {} /\ ipc' = "resolve again"
        /\ store' = store \cup {NormalizeImageReference(first)}
        /\ blobs' = blobs \cup Wanted(platform)
     \/ Fails /\ UNCHANGED <<store, blobs>>
  /\ pulls' = pulls + 1
  /\ UNCHANGED <<given, cred, chosen, argv, volumes, resolved, meddled>>

(* Lines of the progress stream of Docker; an error comes with status 200. *)
PullLines == {"progress", "blank", "empty error", "error", "errorDetail", "not an object"}

CheckPullStreamErrors(lines) ==
  \A i \in DOMAIN lines : lines[i] \in {"progress", "blank", "empty error"}

(* pull_image on Linux.  The daemon has the image unless it said otherwise *)
(* in its status or in a line of the stream.                               *)
PullImageLinux ==
  /\ ipc = "pull" /\ on = "linux" /\ pulls' = pulls + 1
  /\ \E env \in BOOLEAN, dir \in {"unset", "readable", "missing"}, home \in BOOLEAN :
       \E has \in SUBSET {"hub", "ghcr.io"} :
         cred' = XRegistryAuth(LoadConfigJson(env, dir, home), has)
  /\ \/ Fails /\ UNCHANGED <<store, blobs>>
     \/ \E lines \in [1..2 -> PullLines] :
          /\ IF \E i \in 1..2 : lines[i] \in {"error", "errorDetail"}
             THEN UNCHANGED <<store, blobs>>
             ELSE /\ store' = store \cup {NormalizeImageReference(first)}
                  /\ blobs' = DOMAIN index
          /\ IF CheckPullStreamErrors(lines) THEN ipc' = "resolve again" ELSE Fails
  /\ UNCHANGED <<given, chosen, argv, volumes, resolved, meddled>>
------------------------------------------------------------------------------
(* macOS: the manifest of the index to take the command from. *)
IsAttestation(m) == m.arch = "unknown"
TargetArch == IF platform = Absent_ THEN HOST_ARCH ELSE platform

(* The first of the manifests at the places I; 0 when there is none.       *)
FirstOf(I) == IF I = {} THEN 0 ELSE Min(I)
Exactly(a) == {i \in DOMAIN index : index[i] = [os |-> "linux", arch |-> a]}

(* Mutant of SelectManifest: another platform will do for the one asked for. *)
SelectAnyway ==
  CASE Exactly(TargetArch) # {} -> FirstOf(Exactly(TargetArch))
    [] Exactly(TargetArch) = {} /\ Exactly("arm64") # {} -> FirstOf(Exactly("arm64"))
    [] OTHER -> FirstOf(Exactly("amd64"))

SelectManifest ==
  LET hard == {i \in DOMAIN index : ~IsAttestation(index[i])}
      soft == {i \in hard : index[i].os = "linux"}
  IN IF Exactly(TargetArch) # {} THEN FirstOf(Exactly(TargetArch))
     ELSE IF platform # Absent_ THEN 0
     ELSE IF Exactly("arm64") # {} THEN FirstOf(Exactly("arm64"))
     ELSE IF Exactly("amd64") # {} THEN FirstOf(Exactly("amd64"))
     ELSE IF soft # {} THEN FirstOf(soft) ELSE FirstOf(hard)

(* resolve_image_config: index, manifest and config are read one by one.   *)
ReadIndex ==
  /\ ipc = "found" /\ on = "macos" /\ shape = "index"
  /\ \/ Listed /\ SelectManifest # 0 /\ chosen' = SelectManifest /\ ipc' = "manifest"
     \/ Fails /\ chosen' = chosen
  /\ UNCHANGED <<given, store, blobs, pulls, cred, argv, volumes, resolved, meddled>>

(* An image that is no index has them without a choice, and without a look *)
(* at its platform; one of another type is refused.                        *)
UseDescriptor ==
  /\ ipc = "found" /\ on = "macos"
  /\ \/ shape = "manifest" /\ chosen' = 1 /\ ipc' = "manifest"
     \/ shape = "config" /\ chosen' = 1 /\ ipc' = "config"
     \/ shape = "other" /\ Fails /\ chosen' = chosen
  /\ UNCHANGED <<given, store, blobs, pulls, cred, argv, volumes, resolved, meddled>>

ReadManifest ==
  /\ ipc = "manifest"
  /\ \/ chosen \in blobs /\ ipc' = "config"
     \/ Fails
  /\ UNCHANGED <<given, store, blobs, pulls, cred, chosen, argv, volumes, resolved,
                 meddled>>

(* effective_command.  ep and ei are the user's and the image's entrypoint, *)
(* cmd and ci the commands; absent and empty are different entrypoints.    *)
Cleared(e) == e = <<"">>
EffectiveCommand(ep, cmd, ei, ci) ==
  LET entry == IF ep # Absent_ THEN <<ep>> ELSE ei
      args == IF cmd # <<>> THEN cmd ELSE ci
  IN (IF Cleared(entry) THEN <<>> ELSE entry) \o args

(* parse_image_config; then the kernel, unless with_kernel names one.      *)
ReadConfig ==
  /\ ipc = "config"
  /\ \/ /\ chosen \in blobs /\ ipc' = "kernel"
        /\ \E ei \in {<<>>, <<"">>, <<"i">>, <<"", "sh">>}, ci \in {<<>>, <<"d">>} :
             argv' = [argv EXCEPT !.image = <<ei, ci>>]
     \/ Fails /\ argv' = argv
  /\ UNCHANGED <<given, store, blobs, pulls, cred, chosen, volumes, resolved, meddled>>

GetDefaultKernel ==
  /\ ipc = "kernel" /\ (ipc' = "volumes" \/ Fails)
  /\ UNCHANGED <<given, store, blobs, pulls, cred, chosen, argv, volumes, resolved,
                 meddled>>

Volume == VolumeNames[resolved + 1]
MoreVolumes == resolved < Len(VolumeNames)

(* resolve_volumes, resolve_volume: create the volume, or inspect the one  *)
(* that exists, which may be gone by then.                                 *)
CreateVolume ==
  /\ ipc = "volumes" /\ MoreVolumes
  /\ \/ /\ Volume \notin volumes /\ volumes' = volumes \cup {Volume}
        /\ resolved' = resolved + 1 /\ ipc' = ipc
     \/ Volume \in volumes /\ ipc' = "inspect" /\ UNCHANGED <<volumes, resolved>>
     \/ Fails /\ UNCHANGED <<volumes, resolved>>
  /\ UNCHANGED <<given, store, blobs, pulls, cred, chosen, argv, meddled>>

InspectVolume ==
  /\ ipc = "inspect"
  /\ \/ Volume \in volumes /\ resolved' = resolved + 1 /\ ipc' = "volumes"
     \/ Fails /\ resolved' = resolved
  /\ UNCHANGED <<given, store, blobs, pulls, cred, chosen, argv, volumes, meddled>>

(* build_config refuses an image without a command, its volumes made.      *)
Ready ==
  /\ \/ /\ ipc = "volumes" /\ ~MoreVolumes
        /\ \E ep \in {Absent_, "", "u"}, cmd \in {<<>>, <<"c">>} :
             LET run == EffectiveCommand(ep, cmd, argv.image[1], argv.image[2]) IN
             /\ argv' = [argv EXCEPT !.run = run, !.asked = <<ep, cmd>>]
             /\ ipc' = IF run = <<>> THEN "failed" ELSE "create"
     \/ ipc = "found" /\ on = "linux" /\ ipc' = "create" /\ argv' = argv
  /\ UNCHANGED <<given, store, blobs, pulls, cred, chosen, volumes, resolved, meddled>>

(* Another process removes the image, pulls a platform of it, or removes a *)
(* volume.                                                                 *)
Meddle ==
  /\ ipc \notin {"create", "failed"} /\ meddled < MaxMeddling /\ meddled' = meddled + 1
  /\ \/ store' = {} /\ blobs' = {} /\ volumes' = volumes
     \/ /\ store' = {NormalizeImageReference(first)} /\ volumes' = volumes
        /\ \E a \in {"arm64", "amd64"} : blobs' = blobs \cup Wanted(a)
     \/ \E v \in volumes : volumes' = volumes \ {v} /\ UNCHANGED <<store, blobs>>
  /\ UNCHANGED <<given, ipc, pulls, cred, chosen, argv, resolved>>

ImageNext ==
  \/ ResolveImageDescriptor \/ ForcePull \/ PullImageMac \/ PullImageLinux
  \/ ReadIndex \/ UseDescriptor \/ ReadManifest \/ ReadConfig \/ GetDefaultKernel
  \/ CreateVolume \/ InspectVolume \/ Ready \/ Meddle

ImageSpec == ImageInit /\ [][ImageNext]_imageVars
------------------------------------------------------------------------------
(* What Docker runs: the entrypoint asked for replaces the image's, and     *)
(* with it the image's arguments go; arguments asked for replace the       *)
(* image's; an entrypoint that is one empty string is none at all.         *)
DockerCommand(ep, cmd, ei, ci) ==
  LET e == IF ep = Absent_ THEN ei ELSE <<ep>>
      noEntry == Len(e) = 0 \/ (Len(e) = 1 /\ e[1] = "")
      a == IF ep # Absent_ \/ Len(cmd) > 0 THEN cmd ELSE ci
  IN IF noEntry THEN a ELSE e \o a

(* Where this crate departs from Docker, on purpose (closed issue 0124):   *)
(* under an entrypoint that was asked for without arguments it keeps those *)
(* of the image.                                                           *)
KeptArguments(ep, cmd, ci) == IF ep # Absent_ /\ Len(cmd) = 0 THEN ci ELSE <<>>

CommandAsked(ep, cmd, ei, ci) ==
  DockerCommand(ep, cmd, ei, ci) \o KeptArguments(ep, cmd, ci)

(* The better a manifest suits, the lower its rank. *)
Rank(m) ==
  IF m = [os |-> "linux", arch |-> TargetArch] THEN 1
  ELSE IF platform # Absent_ \/ m.arch = "unknown" THEN 9
  ELSE IF m = [os |-> "linux", arch |-> "arm64"] THEN 2
  ELSE IF m = [os |-> "linux", arch |-> "amd64"] THEN 3
  ELSE IF m.os = "linux" THEN 4 ELSE 5

(* A container is only created from the image that was asked for.  Start   *)
(* pulls at most once, and for amd64 on macOS always; the credentials it   *)
(* sends are those kept for the registry the reference leads to            *)
(* (auths_key against normalize_image_reference); of an index the command  *)
(* is taken from the manifest that suits best, never from an attestation,  *)
(* never from another platform than one asked for (select_manifest_digest).*)
(* An image that is no index is taken as it is, of whatever platform: no   *)
(* one looks (resolve_image_config).  The command is Docker's, but for the *)
(* arguments of the image that are kept under an entrypoint that was asked *)
(* for (effective_command).  All this with others at work on the store.    *)
ImageChosen ==
  /\ cred.key # Absent_ =>
       NormalizeImageReference(first) \in
         IF cred.key = "hub"
         THEN {"docker.io/library", "docker.io/user", "docker.io", "index.docker.io"}
         ELSE {cred.key}
  /\ pulls <= 1
  /\ ipc = "create" /\ on = "macos" =>
       /\ platform = "amd64" => pulls = 1
       /\ shape = "index" =>
            /\ Rank(index[chosen]) < 9
            /\ \A i \in DOMAIN index : Rank(index[chosen]) <= Rank(index[i])
       /\ argv.run = CommandAsked(argv.asked[1], argv.asked[2],
                               argv.image[1], argv.image[2])
       /\ argv.run # <<>> /\ ~MoreVolumes
=============================================================================
