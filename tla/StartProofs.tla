---------------------------- MODULE StartProofs ----------------------------
(***************************************************************************)
(* Proofs about the steps of start: the settings that the payload of       *)
(* create says (ContainerSettings), for any chain of calls of the builder, *)
(* the image (ImageResolve), for any manifests and volumes, the wait       *)
(* conditions (ReadyWait), for any sequences of them, and the copies       *)
(* (CopyFiles), for any sources, sizes and limits.                         *)
(*                                                                         *)
(* ImageChosen is about the moment of creation; ImageInv keeps what was    *)
(* decided on the way there: that the one pull is behind start, that the   *)
(* manifest is still the one the index gives, and that the command is put  *)
(* together from one the image may have.  ReadySound looks back: a         *)
(* condition was found to hold some time ago, by a strategy that read the  *)
(* container in several steps.  ReadyInv says what each strategy has seen  *)
(* so far, in particular that no round of the log wait counts a match that *)
(* was not printed on a stream it has read (CountInv), and TrueStays that  *)
(* the container does not take back what was seen.  CopyDelivered is about *)
(* what has arrived; CopyInv says the same of the archive that is built    *)
(* but not sent, and where in the sources the copying is.                  *)
(* SettingsHonoured compares the payload with the calls; RequestInv says   *)
(* what the request has of the calls, and the payload is put together from *)
(* the request in one step.                                                *)
(***************************************************************************)
EXTENDS ImageResolve, CopyFiles, ReadyWait, ContainerSettings, InductionFacts,
        SequenceTheorems, TLAPS

(* An index is a sequence of manifests. *)
LEMMA IndexType ==
  ASSUME index \in Indexes
  PROVE  /\ DOMAIN index \subseteq Nat /\ 0 \notin DOMAIN index
         /\ \A i \in DOMAIN index : index[i] \in Manifests
<1>1. PICK n \in 1..MaxManifests : index \in [1..n -> Manifests]
  BY DEF Indexes
<1>2. DOMAIN index = 1..n /\ n \in Nat
  BY <1>1, ImageAssumption
<1>3. \A i \in DOMAIN index : index[i] \in Manifests
  BY <1>1
<1> QED  BY <1>2, <1>3

(* FirstOf is one of them. *)
LEMMA FirstIsOne ==
  ASSUME NEW I, I \subseteq Nat, I # {}
  PROVE  FirstOf(I) \in I
<1>1. \E x \in I : \A y \in I : x <= y
  BY Least
<1>2. Min(I) \in I
  BY <1>1 DEF Min
<1> QED  BY <1>2 DEF FirstOf

(* A manifest is known by its two fields. *)
LEMMA ManifestIs ==
  ASSUME NEW m \in Manifests, NEW a
  PROVE  m = [os |-> "linux", arch |-> a] <=> m.os = "linux" /\ m.arch = a
BY DEF Manifests

(* What a manifest must be to be of a rank. *)
LEMMA Ranks ==
  ASSUME NEW m \in Manifests
  PROVE  /\ Rank(m) \in {1, 2, 3, 4, 5, 9}
         /\ Rank(m) = 1 <=> m = [os |-> "linux", arch |-> TargetArch]
         /\ m # [os |-> "linux", arch |-> TargetArch] /\ platform # Absent_ => Rank(m) = 9
         /\ platform = Absent_ /\ m # [os |-> "linux", arch |-> TargetArch] =>
              /\ Rank(m) = 2 <=> m = [os |-> "linux", arch |-> "arm64"]
              /\ Rank(m) = 3 <=> m = [os |-> "linux", arch |-> "amd64"]
              /\ Rank(m) = 9 <=> IsAttestation(m)
              /\ Rank(m) = 4 => m.os = "linux"
              /\ m.os = "linux" /\ ~IsAttestation(m) => Rank(m) <= 4
<1>1. \A a : m = [os |-> "linux", arch |-> a] <=> m.os = "linux" /\ m.arch = a
  BY ManifestIs
<1>2. CASE m = [os |-> "linux", arch |-> TargetArch]
  <2>1. Rank(m) = 1
    BY <1>2 DEF Rank
  <2> QED  BY <1>2, <2>1
<1>3. CASE m # [os |-> "linux", arch |-> TargetArch] /\ platform # Absent_
  <2>1. Rank(m) = 9
    BY <1>3 DEF Rank
  <2> QED  BY <1>3, <2>1
<1>4. CASE m # [os |-> "linux", arch |-> TargetArch] /\ platform = Absent_
  <2>1. CASE m.arch = "unknown"
    <3>1. Rank(m) = 9
      BY <1>4, <2>1 DEF Rank
    <3> QED  BY <1>1, <1>4, <2>1, <3>1 DEF IsAttestation
  <2>2. CASE m = [os |-> "linux", arch |-> "arm64"]
    <3>1. m.arch = "arm64" /\ Rank(m) = 2
      BY <1>4, <2>2 DEF Rank
    <3> QED  BY <1>1, <1>4, <2>2, <3>1 DEF IsAttestation
  <2>3. CASE m = [os |-> "linux", arch |-> "amd64"]
    <3>1. m.arch = "amd64" /\ Rank(m) = 3
      BY <1>4, <2>3 DEF Rank
    <3> QED  BY <1>1, <1>4, <2>3, <3>1 DEF IsAttestation
  <2>4. CASE /\ m # [os |-> "linux", arch |-> "arm64"]
             /\ m # [os |-> "linux", arch |-> "amd64"] /\ m.arch # "unknown"
    <3>1. Rank(m) = IF m.os = "linux" THEN 4 ELSE 5
      BY <1>4, <2>4 DEF Rank
    <3> QED  BY <1>4, <2>4, <3>1 DEF IsAttestation
  <2> QED  BY <2>1, <2>2, <2>3, <2>4
<1> QED  BY <1>2, <1>3, <1>4

(* select_manifest_digest takes a manifest of the lowest rank, if any is   *)
(* acceptable.                                                             *)
LEMMA SelectedSuits ==
  ASSUME index \in Indexes, SelectManifest # 0
  PROVE  /\ SelectManifest \in DOMAIN index
         /\ Rank(index[SelectManifest]) < 9
         /\ \A i \in DOMAIN index : Rank(index[SelectManifest]) <= Rank(index[i])
<1> DEFINE hard == {i \in DOMAIN index : ~IsAttestation(index[i])}
           soft == {i \in hard : index[i].os = "linux"}
           k == SelectManifest
<1>1. DOMAIN index \subseteq Nat /\ \A i \in DOMAIN index : index[i] \in Manifests
  BY IndexType
<1>2. CASE Exactly(TargetArch) # {}
  <2>1. k \in Exactly(TargetArch)
    <3>1. Exactly(TargetArch) \subseteq Nat
      BY <1>1 DEF Exactly
    <3> QED  BY <1>2, <3>1, FirstIsOne DEF SelectManifest
  <2>2. k \in DOMAIN index /\ Rank(index[k]) = 1
    BY <1>1, <2>1, Ranks DEF Exactly
  <2>3. \A i \in DOMAIN index : Rank(index[i]) \in {1, 2, 3, 4, 5, 9}
    BY <1>1, Ranks
  <2> HIDE DEF k
  <2>4. \A i \in DOMAIN index : Rank(index[k]) <= Rank(index[i])
    BY <2>2, <2>3
  <2> QED  BY <2>2, <2>4 DEF k
<1>3. CASE Exactly(TargetArch) = {}
  <2>1. platform = Absent_
    BY <1>3 DEF SelectManifest
  <2>2. \A i \in DOMAIN index : index[i] # [os |-> "linux", arch |-> TargetArch]
    BY <1>3 DEF Exactly
  <2>3. \A i \in DOMAIN index :
          /\ Rank(index[i]) \in {2, 3, 4, 5, 9}
          /\ Rank(index[i]) = 2 <=> i \in Exactly("arm64")
          /\ Rank(index[i]) = 3 <=> i \in Exactly("amd64")
          /\ Rank(index[i]) = 9 <=> i \notin hard
          /\ Rank(index[i]) = 4 => i \in soft
          /\ i \in soft => Rank(index[i]) <= 4
    <3> SUFFICES ASSUME NEW i \in DOMAIN index
                 PROVE  /\ Rank(index[i]) \in {2, 3, 4, 5, 9}
                        /\ Rank(index[i]) = 2 <=> i \in Exactly("arm64")
                        /\ Rank(index[i]) = 3 <=> i \in Exactly("amd64")
                        /\ Rank(index[i]) = 9 <=> i \notin hard
                        /\ Rank(index[i]) = 4 => i \in soft
                        /\ i \in soft => Rank(index[i]) <= 4
      OBVIOUS
    <3>1. index[i] \in Manifests /\ index[i] # [os |-> "linux", arch |-> TargetArch]
      BY <1>1, <2>2
    <3>2. /\ Rank(index[i]) \in {2, 3, 4, 5, 9}
          /\ Rank(index[i]) = 2 <=> index[i] = [os |-> "linux", arch |-> "arm64"]
          /\ Rank(index[i]) = 3 <=> index[i] = [os |-> "linux", arch |-> "amd64"]
          /\ Rank(index[i]) = 9 <=> IsAttestation(index[i])
          /\ Rank(index[i]) = 4 => index[i].os = "linux"
          /\ index[i].os = "linux" /\ ~IsAttestation(index[i]) => Rank(index[i]) <= 4
      BY <2>1, <3>1, Ranks
    <3> QED  BY <3>2 DEF Exactly
  <2>4. k = IF Exactly("arm64") # {} THEN FirstOf(Exactly("arm64"))
            ELSE IF Exactly("amd64") # {} THEN FirstOf(Exactly("amd64"))
            ELSE IF soft # {} THEN FirstOf(soft) ELSE FirstOf(hard)
    BY <1>3, <2>1 DEF SelectManifest
  <2>5. /\ Exactly("arm64") \subseteq DOMAIN index /\ Exactly("amd64") \subseteq DOMAIN index
        /\ soft \subseteq hard /\ hard \subseteq DOMAIN index /\ FirstOf({}) = 0 /\ k # 0
    BY DEF Exactly, FirstOf
  <2> HIDE DEF soft, hard, k
  <2>6. CASE Exactly("arm64") # {}
    <3>1. k \in Exactly("arm64")
      BY <1>1, <2>4, <2>5, <2>6, FirstIsOne
    <3>2. k \in DOMAIN index /\ Rank(index[k]) = 2
      BY <2>3, <2>5, <3>1
    <3>3. \A i \in DOMAIN index : 2 <= Rank(index[i])
      BY <2>3
    <3> QED  BY <3>2, <3>3 DEF k
  <2>7. CASE Exactly("arm64") = {} /\ Exactly("amd64") # {}
    <3>1. k \in Exactly("amd64")
      BY <1>1, <2>4, <2>5, <2>7, FirstIsOne
    <3>2. k \in DOMAIN index /\ Rank(index[k]) = 3
      BY <2>3, <2>5, <3>1
    <3>3. \A i \in DOMAIN index : 3 <= Rank(index[i])
      BY <2>3, <2>7
    <3> QED  BY <3>2, <3>3 DEF k
  <2>8. CASE Exactly("arm64") = {} /\ Exactly("amd64") = {} /\ soft # {}
    <3>1. k \in soft
      BY <1>1, <2>4, <2>5, <2>8, FirstIsOne
    <3>2. k \in DOMAIN index /\ Rank(index[k]) = 4
      BY <2>3, <2>5, <2>8, <3>1
    <3>3. \A i \in DOMAIN index : 4 <= Rank(index[i])
      BY <2>3, <2>8
    <3> QED  BY <3>2, <3>3 DEF k
  <2>9. CASE Exactly("arm64") = {} /\ Exactly("amd64") = {} /\ soft = {}
    <3>1. k \in hard
      BY <1>1, <2>4, <2>5, <2>9, FirstIsOne
    <3>2. k \in DOMAIN index /\ Rank(index[k]) = 5
      BY <2>3, <2>5, <2>9, <3>1
    <3>3. \A i \in DOMAIN index : 5 <= Rank(index[i])
      BY <2>3, <2>9
    <3> QED  BY <3>2, <3>3 DEF k
  <2> QED  BY <2>6, <2>7, <2>8, <2>9
<1> QED  BY <1>2, <1>3

(* What the config of an image may say. *)
EntrypointsOf == {<<>>, <<"">>, <<"i">>, <<"", "sh">>}
CommandsOf == {<<>>, <<"d">>}

(* Sequences of one, and of none. *)
LEMMA Single ==
  ASSUME NEW S, NEW a \in S
  PROVE  <<a>> \in Seq(S) /\ Len(<<a>>) = 1 /\ <<a>>[1] = a /\ <<a>> # <<>>
OBVIOUS

(* The lengths of the parts a command is put together from. *)
LEMMA Lengths ==
  /\ \A S : <<>> \in Seq(S) /\ Len(<<>>) = 0 /\ ~(0 > 0) /\ 1 > 0 /\ 1 # 0 /\ 2 # 0 /\ 2 # 1
  /\ Len(<<"", "sh">>) = 2 /\ Len(<<"">>) = 1 /\ "i" # ""
OBVIOUS

(* Nothing in front. *)
LEMMA EmptyPrefix ==
  ASSUME NEW S, NEW a \in Seq(S)
  PROVE  <<>> \o a = a
OBVIOUS

(* Nothing behind. *)
LEMMA EmptySuffix ==
  ASSUME NEW S, NEW a \in Seq(S)
  PROVE  a \o <<>> = a
OBVIOUS

(* A sequence of two. *)
LEMMA Pair ==
  ASSUME NEW S, NEW a \in S, NEW b \in S
  PROVE  <<a, b>> \in Seq(S)
OBVIOUS

(* The words of which entrypoints and commands are made. *)
Words == {"", "i", "sh", "u", "c", "d"}

(* The parts that a command is put together from. *)
LEMMA PartsOfCommands ==
  /\ <<>> \in Seq(Words) /\ <<"">> \in Seq(Words) /\ <<"i">> \in Seq(Words)
  /\ <<"", "sh">> \in Seq(Words) /\ <<"u">> \in Seq(Words)
  /\ <<"c">> \in Seq(Words) /\ <<"d">> \in Seq(Words)
  /\ \A a \in Seq(Words), b \in Seq(Words) : a \o b \in Seq(Words)
<1>1. "" \in Words /\ "i" \in Words /\ "sh" \in Words /\ "u" \in Words
      /\ "c" \in Words /\ "d" \in Words
  BY Zenon DEF Words
<1>2. <<"", "sh">> \in Seq(Words)
  BY <1>1, Pair, Zenon
<1>3. <<>> \in Seq(Words) /\ \A a \in Seq(Words), b \in Seq(Words) : a \o b \in Seq(Words)
  OBVIOUS
<1> QED  BY <1>1, <1>2, <1>3, Single, Zenon

(* effective_command gives what Docker runs, and behind it the arguments   *)
(* of the image that it keeps under an entrypoint that was asked for.      *)
LEMMA CommandFollows ==
  ASSUME NEW ei \in EntrypointsOf, NEW ci \in CommandsOf,
         NEW ep \in {Absent_, "", "u"}, NEW cmd \in {<<>>, <<"c">>}
  PROVE  EffectiveCommand(ep, cmd, ei, ci) = CommandAsked(ep, cmd, ei, ci)
<1>1. ei \in Seq(Words) /\ ci \in Seq(Words) /\ cmd \in Seq(Words)
  BY PartsOfCommands, Zenon DEF EntrypointsOf, CommandsOf
<1>2. \/ cmd = <<>> /\ Len(cmd) = 0 /\ ~(Len(cmd) > 0)
      \/ cmd = <<"c">> /\ cmd # <<>> /\ Len(cmd) # 0 /\ Len(cmd) > 0
  <2>1. Len(<<"c">>) = 1 /\ <<"c">> # <<>> /\ Len(<<>>) = 0
    OBVIOUS
  <2> QED  BY <2>1, Lengths, Zenon
<1> DEFINE args == IF cmd # <<>> THEN cmd ELSE ci
<1>3. args = (IF Len(cmd) > 0 THEN cmd ELSE ci) /\ args \in Seq(Words)
  BY <1>1, <1>2, Zenon
<1>4. /\ <<>> \o args = args /\ args \o <<>> = args /\ ei \o args \in Seq(Words)
      /\ (ei \o args) \o <<>> = ei \o args
  <2> HIDE DEF args
  <2>1. ei \o args \in Seq(Words)
    BY <1>1, <1>3, PartsOfCommands, Zenon
  <2> QED  BY <1>3, <2>1, EmptyPrefix, EmptySuffix
<1>5. CASE ep = Absent_
  <2>1. EffectiveCommand(ep, cmd, ei, ci) = (IF ei = <<"">> THEN <<>> ELSE ei) \o args
    BY <1>5, Zenon DEF EffectiveCommand, Cleared
  <2> HIDE DEF args
  <2>2. DockerCommand(ep, cmd, ei, ci) =
          IF Len(ei) = 0 \/ (Len(ei) = 1 /\ ei[1] = "") THEN args ELSE ei \o args
    BY <1>3, <1>5, Zenon DEF DockerCommand
  <2>3. CommandAsked(ep, cmd, ei, ci) = DockerCommand(ep, cmd, ei, ci)
    <3>1. DockerCommand(ep, cmd, ei, ci) \o <<>> = DockerCommand(ep, cmd, ei, ci)
      BY <1>4, <2>2, Zenon
    <3>2. KeptArguments(ep, cmd, ci) = <<>>
      BY <1>5, Zenon DEF KeptArguments
    <3> QED  BY <3>1, <3>2, Zenon DEF CommandAsked
  <2>4. CASE ei = <<"">>
    <3>1. Len(<<"">>) = 1 /\ <<"">>[1] = ""
      BY Single
    <3> QED  BY <1>4, <2>1, <2>2, <2>3, <2>4, <3>1, Zenon
  <2>5. CASE ei = <<>>
    <3>1. Len(<<>>) = 0 /\ <<>> # <<"">>
      OBVIOUS
    <3> QED  BY <1>4, <2>1, <2>2, <2>3, <2>5, <3>1, Zenon
  <2>6. CASE ei = <<"i">>
    <3>1. /\ Len(<<"i">>) = 1 /\ <<"i">>[1] = "i" /\ <<"">>[1] = "" /\ "i" # ""
      BY Single
    <3>2. ei # <<"">> /\ ~(Len(ei) = 0 \/ (Len(ei) = 1 /\ ei[1] = ""))
      BY <2>6, <3>1, Lengths, Zenon
    <3> QED  BY <2>1, <2>2, <2>3, <3>2, Zenon
  <2>7. CASE ei = <<"", "sh">>
    <3>1. ei # <<"">> /\ ~(Len(ei) = 0 \/ (Len(ei) = 1 /\ ei[1] = ""))
      BY <2>7, Lengths, Zenon
    <3> QED  BY <2>1, <2>2, <2>3, <3>1, Zenon
  <2> QED  BY <2>4, <2>5, <2>6, <2>7 DEF EntrypointsOf
<1>6. CASE ep \in {"", "u"}
  <2> DEFINE entry == IF ep = "" THEN <<>> ELSE <<ep>>
  <2>1. /\ <<"">> # <<"u">> /\ Len(<<"">>) = 1 /\ <<"">>[1] = "" /\ Len(<<"u">>) = 1
        /\ <<"u">>[1] = "u" /\ "u" # "" /\ "" # Absent_ /\ "u" # Absent_ /\ 1 # 0
    <3>1. "u" # "" /\ "" # Absent_ /\ "u" # Absent_ /\ 1 # 0
      <4>1. 1 # 0
        BY Lengths, Zenon
      <4>2. "u" # "" /\ "" # Absent_ /\ "u" # Absent_
        BY Zenon DEF Absent_
      <4> QED  BY <4>1, <4>2
    <3>2. Len(<<"">>) = 1 /\ <<"">>[1] = "" /\ Len(<<"u">>) = 1 /\ <<"u">>[1] = "u"
      BY Single
    <3> QED  BY ONLY <3>1, <3>2, Zenon
  <2>2. EffectiveCommand(ep, cmd, ei, ci) = entry \o args
    BY <1>6, <2>1, Zenon DEF EffectiveCommand, Cleared
  <2>3. entry \in Seq(Words) /\ entry \o <<>> = entry /\ entry \o cmd \in Seq(Words)
    <3>1. entry \in Seq(Words)
      BY <1>6, PartsOfCommands, Zenon
    <3> HIDE DEF entry
    <3> QED  BY <1>1, <3>1, EmptySuffix, PartsOfCommands
  <2>4. DockerCommand(ep, cmd, ei, ci) = entry \o cmd
    <3>1. CASE ep = ""
      <4>1. <<>> \o cmd = cmd
        BY <1>1, EmptyPrefix
      <4>2. DockerCommand(ep, cmd, ei, ci) = cmd
        BY <2>1, <3>1, Zenon DEF DockerCommand
      <4> QED  BY <3>1, <4>1, <4>2, Zenon
    <3>2. CASE ep = "u"
      BY <2>1, <3>2, Zenon DEF DockerCommand
    <3> QED  BY <1>6, <3>1, <3>2
  <2> HIDE DEF entry
  <2>5. CASE cmd = <<>>
    <3>1. KeptArguments(ep, cmd, ci) = ci
      BY <1>2, <1>6, <2>1, <2>5, Zenon DEF KeptArguments
    <3>2. CommandAsked(ep, cmd, ei, ci) = (entry \o <<>>) \o ci
      BY <2>4, <2>5, <3>1, Zenon DEF CommandAsked
    <3> QED  BY <2>2, <2>3, <2>5, <3>2, Zenon
  <2>6. CASE cmd # <<>>
    <3>1. KeptArguments(ep, cmd, ci) = <<>>
      BY <1>2, <2>6, Zenon DEF KeptArguments
    <3>2. CommandAsked(ep, cmd, ei, ci) = (entry \o cmd) \o <<>>
      BY <2>4, <3>1, Zenon DEF CommandAsked
    <3>3. (entry \o cmd) \o <<>> = entry \o cmd
      BY <2>3, EmptySuffix
    <3> QED  BY <2>2, <2>6, <3>2, <3>3, Zenon
  <2> QED  BY <2>5, <2>6
<1> QED  BY <1>5, <1>6
------------------------------------------------------------------------------
(* What was given, and the places of start. *)
ImageType ==
  /\ on \in {"linux", "macos"} /\ platform \in {Absent_, "arm64", "amd64"}
  /\ first \in Firsts /\ shape \in Shapes /\ index \in Indexes
  /\ ipc \in {"resolve", "pull", "resolve again", "found", "manifest", "config", "kernel",
              "volumes", "inspect", "create", "failed"}
  /\ pulls \in Nat /\ resolved \in Nat

(* The one pull is behind start once it has left "pull", and for amd64 on  *)
(* macOS there is no other way.                                            *)
PulledOnce ==
  /\ pulls <= 1 /\ (ipc \in {"resolve", "pull"} => pulls = 0)
  /\ on = "macos" /\ platform = "amd64" /\ ipc \notin {"resolve", "pull", "failed"} =>
       pulls = 1

(* Credentials are looked up under the key of the reference. *)
KeyOfReference == cred.key # Absent_ => cred.key = AuthsKey(first)

(* From an index on, the manifest is the selected one. *)
AfterIndex == {"manifest", "config", "kernel", "volumes", "inspect"}
Selected ==
  /\ ipc \in AfterIndex => on = "macos"
  /\ shape = "index" /\ (ipc \in AfterIndex \/ (ipc = "create" /\ on = "macos")) =>
       chosen = SelectManifest /\ SelectManifest # 0

(* From the config on, the image's command is one that it may have; when   *)
(* the container is created the command is the one asked for.              *)
CommandKnown ==
  /\ argv = [image |-> argv.image, asked |-> argv.asked, run |-> argv.run]
  /\ ipc \in {"kernel", "volumes", "inspect"} =>
       \E ei \in EntrypointsOf, ci \in CommandsOf : argv.image = <<ei, ci>>
  /\ ipc = "create" /\ on = "macos" =>
       /\ argv.run = CommandAsked(argv.asked[1], argv.asked[2], argv.image[1], argv.image[2])
       /\ argv.run # <<>> /\ ~MoreVolumes

(* The inductive invariant. *)
ImageInv == ImageType /\ PulledOnce /\ KeyOfReference /\ Selected /\ CommandKnown

(* It holds at first, *)
LEMMA InitImageInv == ImageInit => ImageInv
BY DEF ImageInit, ImageInv, ImageType, PulledOnce, KeyOfReference, Selected,
       AfterIndex,
       CommandKnown

(* is kept by every step of start, *)
LEMMA StepImageInv ==
  ASSUME ImageInv, [ImageNext]_imageVars
  PROVE  ImageInv'
<1> USE DEF ImageInv
<1>1. CASE ResolveImageDescriptor \/ ForcePull \/ ReadManifest \/ GetDefaultKernel
  <2>1. UNCHANGED <<given, pulls, cred, chosen, argv, resolved>>
    BY <1>1
      DEF ResolveImageDescriptor, ForcePull, ReadManifest, GetDefaultKernel
  <2>2. \/ ipc' = "failed"
        \/ ipc = "resolve" /\ ~(on = "macos" /\ platform = "amd64") /\ ipc' \in {"found", "pull"}
        \/ ipc = "resolve again" /\ ipc' = "found"
        \/ ipc = "resolve" /\ ipc' = "pull"
        \/ ipc = "manifest" /\ ipc' = "config"
        \/ ipc = "kernel" /\ ipc' = "volumes"
    BY <1>1
      DEF ResolveImageDescriptor, ForcePull, ReadManifest, GetDefaultKernel,
          Fails
  <2>3. on' = on /\ platform' = platform /\ first' = first /\ shape' = shape /\ index' = index
    BY <2>1 DEF given
  <2>4. SelectManifest' = SelectManifest /\ MoreVolumes' = MoreVolumes
    BY <2>1, <2>3 DEF SelectManifest, Exactly, TargetArch, MoreVolumes
  <2>5. ImageType' /\ PulledOnce' /\ KeyOfReference'
    BY <2>1, <2>2, <2>3 DEF ImageType, PulledOnce, KeyOfReference, AuthsKey
  <2>6. Selected'
    BY <2>1, <2>2, <2>3, <2>4 DEF Selected, AfterIndex
  <2>7. CommandKnown'
    BY <2>1, <2>2, <2>3, <2>4 DEF CommandKnown
  <2> QED  BY <2>5, <2>6, <2>7
<1>2. CASE PullImageMac \/ PullImageLinux
  <2>1. /\ UNCHANGED <<given, chosen, argv, resolved>> /\ ipc = "pull" /\ pulls' = pulls + 1
        /\ ipc' \in {"resolve again", "failed"}
    BY <1>2 DEF PullImageMac, PullImageLinux, Fails
  <2>2. on' = on /\ platform' = platform /\ first' = first /\ shape' = shape /\ index' = index
    BY <2>1 DEF given
  <2>3. ImageType' /\ PulledOnce'
    <3>1. ipc = "pull" /\ pulls' = pulls + 1 /\ resolved' = resolved
      BY <2>1
    <3>2. pulls = 0
      BY <3>1 DEF PulledOnce
    <3>3. pulls' = 1
      BY ONLY <3>1, <3>2
    <3>4. pulls' <= 1 /\ pulls' \in Nat
      BY ONLY <3>3
    <3>5. PulledOnce'
      <4>1. ipc' \notin {"resolve", "pull"}
        BY <2>1, Zenon
      <4> QED  BY <3>3, <3>4, <4>1, Zenon DEF PulledOnce
    <3>6. ipc' \in {"resolve again", "failed"} /\ resolved' \in Nat /\ pulls' \in Nat
      BY <2>1, <3>1, <3>3, <3>4 DEF ImageType
    <3> QED  BY <2>2, <3>5, <3>6 DEF ImageType
  <2>4. KeyOfReference'
    <3>1. CASE PullImageMac
      BY <2>2, <3>1 DEF PullImageMac, KeyOfReference, AuthsKey
    <3>2. CASE PullImageLinux
      <4>1. PICK from, has : cred' = XRegistryAuth(from, has)
        BY <3>2 DEF PullImageLinux
      <4>2. cred'.key \in {Absent_, AuthsKey(first)}
        BY <4>1 DEF XRegistryAuth
      <4> QED  BY <2>2, <4>2 DEF KeyOfReference, AuthsKey
    <3> QED  BY <1>2, <3>1, <3>2
  <2>5. Selected' /\ CommandKnown'
    BY <2>1 DEF Selected, AfterIndex, CommandKnown
  <2> QED  BY <2>3, <2>4, <2>5
<1>3. CASE ReadIndex
  <2>1. /\ UNCHANGED <<given, pulls, cred, argv, resolved>> /\ ipc = "found" /\ on = "macos"
        /\ \/ SelectManifest # 0 /\ chosen' = SelectManifest /\ ipc' = "manifest"
           \/ ipc' = "failed"
    BY <1>3 DEF ReadIndex, Fails
  <2>2. on' = on /\ platform' = platform /\ first' = first /\ shape' = shape /\ index' = index
    BY <2>1 DEF given
  <2>3. SelectManifest' = SelectManifest
    BY <2>2 DEF SelectManifest, Exactly, TargetArch
  <2>4. ImageType' /\ PulledOnce' /\ KeyOfReference'
    BY <2>1, <2>2 DEF ImageType, PulledOnce, KeyOfReference, AuthsKey
  <2>5. Selected' /\ CommandKnown'
    BY <2>1, <2>2, <2>3 DEF Selected, AfterIndex, CommandKnown
  <2> QED  BY <2>4, <2>5
<1>8. CASE UseDescriptor
  <2>1. /\ UNCHANGED <<given, pulls, cred, argv, resolved>> /\ ipc = "found" /\ on = "macos"
        /\ \/ shape # "index" /\ ipc' \in {"manifest", "config"}
           \/ ipc' = "failed"
    BY <1>8 DEF UseDescriptor, Fails
  <2>2. on' = on /\ platform' = platform /\ first' = first /\ shape' = shape /\ index' = index
    BY <2>1 DEF given
  <2>3. ImageType' /\ PulledOnce' /\ KeyOfReference'
    BY <2>1, <2>2 DEF ImageType, PulledOnce, KeyOfReference, AuthsKey
  <2>4. Selected' /\ CommandKnown'
    BY <2>1, <2>2 DEF Selected, AfterIndex, CommandKnown
  <2> QED  BY <2>3, <2>4
<1>4. CASE ReadConfig
  <2>1. /\ UNCHANGED <<given, pulls, cred, chosen, resolved>> /\ ipc = "config"
        /\ \/ /\ ipc' = "kernel"
              /\ \E ei \in EntrypointsOf, ci \in CommandsOf :
                   argv' = [argv EXCEPT !.image = <<ei, ci>>]
           \/ ipc' = "failed" /\ argv' = argv
    BY <1>4 DEF ReadConfig, Fails, EntrypointsOf, CommandsOf
  <2>2. on' = on /\ platform' = platform /\ first' = first /\ shape' = shape /\ index' = index
    BY <2>1 DEF given
  <2>3. SelectManifest' = SelectManifest
    BY <2>2 DEF SelectManifest, Exactly, TargetArch
  <2>4. ImageType' /\ PulledOnce' /\ KeyOfReference'
    BY <2>1, <2>2 DEF ImageType, PulledOnce, KeyOfReference, AuthsKey
  <2>5. Selected'
    BY <2>1, <2>2, <2>3 DEF Selected, AfterIndex
  <2>6. CommandKnown'
    <3>1. argv = [image |-> argv.image, asked |-> argv.asked, run |-> argv.run]
      BY DEF CommandKnown
    <3>2. CASE ipc' = "failed" /\ argv' = argv
      BY <3>1, <3>2 DEF CommandKnown
    <3>3. CASE /\ ipc' = "kernel"
               /\ \E ei \in EntrypointsOf, ci \in CommandsOf :
                    argv' = [argv EXCEPT !.image = <<ei, ci>>]
      <4>1. PICK ei \in EntrypointsOf, ci \in CommandsOf :
              argv' = [argv EXCEPT !.image = <<ei, ci>>]
        BY <3>3
      <4>2. /\ argv'.image = <<ei, ci>>
            /\ argv' = [image |-> argv'.image, asked |-> argv'.asked, run |-> argv'.run]
        BY <3>1, <4>1
      <4> QED  BY <3>3, <4>2 DEF CommandKnown
    <3> QED  BY <2>1, <3>2, <3>3
  <2> QED  BY <2>4, <2>5, <2>6
<1>5. CASE CreateVolume \/ InspectVolume
  <2>1. /\ UNCHANGED <<given, pulls, cred, chosen, argv>> /\ ipc \in {"volumes", "inspect"}
        /\ ipc' \in {"volumes", "inspect", "failed"} /\ resolved' \in {resolved, resolved + 1}
    BY <1>5 DEF CreateVolume, InspectVolume, Fails
  <2>2. on' = on /\ platform' = platform /\ first' = first /\ shape' = shape /\ index' = index
    BY <2>1 DEF given
  <2>3. SelectManifest' = SelectManifest
    BY <2>2 DEF SelectManifest, Exactly, TargetArch
  <2>4. ImageType' /\ PulledOnce' /\ KeyOfReference'
    <3>1. resolved' \in Nat
      <4>1. resolved \in Nat /\ resolved' \in {resolved, resolved + 1}
        BY <2>1 DEF ImageType
      <4> QED  BY ONLY <4>1
    <3>2. PulledOnce' /\ KeyOfReference'
      BY <2>1, <2>2 DEF PulledOnce, KeyOfReference, AuthsKey
    <3> QED  BY <2>1, <2>2, <3>1, <3>2 DEF ImageType
  <2>5. Selected'
    BY <2>1, <2>2, <2>3 DEF Selected, AfterIndex
  <2>6. CommandKnown'
    BY <2>1, <2>2 DEF CommandKnown
  <2> QED  BY <2>4, <2>5, <2>6
<1>6. CASE Ready
  <2>1. /\ UNCHANGED <<given, pulls, cred, chosen, resolved>>
        /\ \/ ipc = "volumes" /\ ipc' \in {"create", "failed"}
           \/ ipc = "found" /\ on = "linux" /\ ipc' = "create" /\ argv' = argv
    BY <1>6 DEF Ready
  <2>2. on' = on /\ platform' = platform /\ first' = first /\ shape' = shape /\ index' = index
    BY <2>1 DEF given
  <2>3. SelectManifest' = SelectManifest /\ MoreVolumes' = MoreVolumes
    BY <2>1, <2>2 DEF SelectManifest, Exactly, TargetArch, MoreVolumes
  <2>4. ImageType' /\ PulledOnce' /\ KeyOfReference'
    BY <2>1, <2>2 DEF ImageType, PulledOnce, KeyOfReference, AuthsKey
  <2>5. Selected'
    BY <2>1, <2>2, <2>3 DEF Selected, AfterIndex
  <2>6. CommandKnown'
    <3>1. argv = [image |-> argv.image, asked |-> argv.asked, run |-> argv.run]
      BY DEF CommandKnown
    <3>2. CASE ipc = "found"
      BY <2>1, <2>2, <3>1, <3>2 DEF CommandKnown
    <3>3. CASE ipc = "volumes"
      <4>1. PICK ep \in {Absent_, "", "u"}, cmd \in {<<>>, <<"c">>} :
              LET run == EffectiveCommand(ep, cmd, argv.image[1], argv.image[2]) IN
              /\ argv' = [argv EXCEPT !.run = run, !.asked = <<ep, cmd>>]
              /\ ipc' = IF run = <<>> THEN "failed" ELSE "create"
        BY <1>6, <3>3 DEF Ready
      <4>2. ~MoreVolumes
        BY <1>6, <3>3 DEF Ready
      <4>3. PICK ei \in EntrypointsOf, ci \in CommandsOf : argv.image = <<ei, ci>>
        BY <3>3 DEF CommandKnown
      <4> DEFINE ran == EffectiveCommand(ep, cmd, ei, ci)
      <4>4. ran = CommandAsked(ep, cmd, ei, ci)
        BY CommandFollows
      <4> HIDE DEF ran
      <4>0. argv.image[1] = ei /\ argv.image[2] = ci
        <5>1. <<ei, ci>>[1] = ei /\ <<ei, ci>>[2] = ci
          OBVIOUS
        <5> QED  BY <4>3, <5>1, Zenon
      <4>5. argv' = [argv EXCEPT !.run = ran, !.asked = <<ep, cmd>>]
            /\ ipc' = IF ran = <<>> THEN "failed" ELSE "create"
        BY <4>0, <4>1, Zenon DEF ran
      <4>6. argv' = [image |-> argv.image, asked |-> <<ep, cmd>>, run |-> ran]
        BY <3>1, <4>5
      <4>7. /\ argv'.image = argv.image /\ argv'.asked = <<ep, cmd>> /\ argv'.run = ran
            /\ <<ep, cmd>>[1] = ep /\ <<ep, cmd>>[2] = cmd
        BY <4>6
      <4>8. argv'.run = CommandAsked(argv'.asked[1], argv'.asked[2],
                                     argv'.image[1], argv'.image[2])
        BY <4>0, <4>4, <4>7, Zenon
      <4>9. ipc' = "create" => ran # <<>>
        BY <4>5
      <4>10. ipc' \notin {"kernel", "volumes", "inspect"}
        BY <4>5
      <4>11. argv' = [image |-> argv'.image, asked |-> argv'.asked, run |-> argv'.run]
        BY <4>6, <4>7
      <4>12. ~MoreVolumes'
        BY <2>3, <4>2
      <4> QED  BY <4>7, <4>8, <4>9, <4>10, <4>11, <4>12, Zenon DEF CommandKnown
    <3> QED  BY <2>1, <3>2, <3>3
  <2> QED  BY <2>4, <2>5, <2>6
<1>7. CASE Meddle \/ UNCHANGED imageVars
  <2>1. UNCHANGED <<given, ipc, pulls, cred, chosen, argv, resolved>>
    BY <1>7 DEF Meddle, imageVars, given
  <2>2. on' = on /\ platform' = platform /\ first' = first /\ shape' = shape /\ index' = index
    BY <2>1 DEF given
  <2>3. SelectManifest' = SelectManifest /\ MoreVolumes' = MoreVolumes
    BY <2>1, <2>2 DEF SelectManifest, Exactly, TargetArch, MoreVolumes
  <2>4. ImageType' /\ PulledOnce' /\ KeyOfReference'
    BY <2>1, <2>2 DEF ImageType, PulledOnce, KeyOfReference, AuthsKey
  <2>5. Selected' /\ CommandKnown'
    BY <2>1, <2>2, <2>3 DEF Selected, CommandKnown
  <2> QED  BY <2>4, <2>5
<1> QED  BY <1>1, <1>2, <1>3, <1>4, <1>5, <1>6, <1>7, <1>8 DEF ImageNext

(* The key under which credentials are kept leads to the same registry as  *)
(* the reference.                                                          *)
LEMMA KeyLeadsThere ==
  ASSUME NEW f \in Firsts
  PROVE  NormalizeImageReference(f) \in
           IF AuthsKey(f) = "hub"
           THEN {"docker.io/library", "docker.io/user", "docker.io", "index.docker.io"}
           ELSE {AuthsKey(f)}
<1>1. CASE f = Absent_ \/ f = "user"
  BY <1>1 DEF AuthsKey, IsHost, NormalizeImageReference, Absent_
<1>2. CASE f \in {"docker.io", "index.docker.io"}
  BY <1>2 DEF AuthsKey, IsHost, NormalizeImageReference, Absent_
<1>3. CASE f \in {"localhost", "ghcr.io"}
  BY <1>3 DEF AuthsKey, IsHost, NormalizeImageReference, Absent_
<1> QED  BY <1>1, <1>2, <1>3 DEF Firsts

(* and says what was to be shown. *)
LEMMA ImageInvSuffices ==
  ASSUME ImageInv
  PROVE  ImageChosen
<1> USE DEF ImageInv
<1>1. cred.key # Absent_ =>
        NormalizeImageReference(first) \in
          IF cred.key = "hub"
          THEN {"docker.io/library", "docker.io/user", "docker.io", "index.docker.io"}
          ELSE {cred.key}
  BY KeyLeadsThere DEF KeyOfReference, ImageType
<1>2. pulls <= 1
  BY DEF PulledOnce
<1>3. ASSUME ipc = "create", on = "macos"
      PROVE  /\ platform = "amd64" => pulls = 1
             /\ shape = "index" =>
                  /\ Rank(index[chosen]) < 9
                  /\ \A i \in DOMAIN index : Rank(index[chosen]) <= Rank(index[i])
             /\ argv.run = CommandAsked(argv.asked[1], argv.asked[2],
                                        argv.image[1], argv.image[2])
             /\ argv.run # <<>> /\ ~MoreVolumes
  <2>1. platform = "amd64" => pulls = 1
    BY <1>3 DEF PulledOnce
  <2>2. shape = "index" => chosen = SelectManifest /\ SelectManifest # 0
    BY <1>3 DEF Selected
  <2>3. shape = "index" =>
          /\ Rank(index[chosen]) < 9
          /\ \A i \in DOMAIN index : Rank(index[chosen]) <= Rank(index[i])
    BY <2>2, SelectedSuits DEF ImageType
  <2>4. /\ argv.run = CommandAsked(argv.asked[1], argv.asked[2],
                                   argv.image[1], argv.image[2])
        /\ argv.run # <<>> /\ ~MoreVolumes
    BY <1>3 DEF CommandKnown
  <2> QED  BY <2>1, <2>3, <2>4
<1> QED  BY <1>1, <1>2, <1>3 DEF ImageChosen

(* start pulls at most once, asks for credentials under a key of the same  *)
(* registry, and on macOS creates the container from the best manifest     *)
(* that an index has for the platform, with the command that Docker would  *)
(* run and, under an entrypoint that was asked for without arguments, the  *)
(* image's arguments behind it: select_manifest_digest, effective_command, *)
(* auths_key.  For any number of manifests and volumes.  Of the platform   *)
(* of an image that is no index it says nothing, as the code looks at none.*)
THEOREM ImageIsTheOneAsked == ImageSpec => []ImageChosen
<1>1. ImageInit => ImageInv
  BY InitImageInv
<1>2. ImageInv /\ [ImageNext]_imageVars => ImageInv'
  BY StepImageInv
<1>3. ImageInv => ImageChosen
  BY ImageInvSuffices
<1> QED  BY <1>1, <1>2, <1>3, PTL DEF ImageSpec
------------------------------------------------------------------------------
(* The exit codes that can be known. *)
Known == Codes \cup {Unknown}

(* Types. *)
BoxType ==
  box \in [running : BOOLEAN, code : Known,
           health : {"none", "starting", "healthy", "unhealthy"},
           healthy : BOOLEAN, served : BOOLEAN, logEnded : BOOLEAN,
           printed : [StdStreams -> Nat]]
LogsType ==
  log \in [todo : SUBSET StdStreams, count : [StdStreams -> Nat], total : Nat,
           progressed : BOOLEAN, exited : BOOLEAN]
ExecType ==
  exec \in [at : {"none", "run", "inspect", "ran", "conds", "cmd"},
            conds : Seq(WaitFor), tries : Nat, code : Known, passed : Known]
CommandType ==
  command \in [ended : BOOLEAN, code : Known, recorded : BOOLEAN]
SeqType ==
  conds \in Seq(WaitFor) /\ asked \in Seq(WaitFor) /\ held \subseteq WaitFor

(* The container: what the background wait recorded is the code of a       *)
(* container that ended, and a check that is healthy was healthy.          *)
BoxInv ==
  /\ hint # Unknown => ~box.running /\ hint = box.code
  /\ box.health = "healthy" => box.healthy

(* The command: a code that exec knows, or passed with, is the command's.  *)
CommandInv ==
  /\ command.recorded => command.ended
  /\ exec.code # Unknown => command.ended /\ command.code = exec.code
  /\ exec.passed # Unknown => command.ended /\ command.code = exec.passed

(* The strategy at work is that of the condition at hand. *)
StrategyInv ==
  /\ wait # "none" => conds # <<>> /\ (Waiting \/ phase = "failed")
  /\ wait \in {"log", "log read"} => Cond.kind = "log"
  /\ wait = "health" => Cond.kind = "health" /\ wos = "linux"
  /\ wait = "http" => Cond.kind = "http" /\ Cond.matcher
  /\ wait \in {"exit", "exit state"} => Cond.kind = "exit"
  /\ phase = "waiting" => exec.at = "none"

(* No reader counts a match that was not printed, and no round counts one  *)
(* twice: a round's total is at most what was printed on the streams it    *)
(* has read.                                                               *)
CountInv ==
  /\ \A s \in StdStreams : log.count[s] <= box.printed[s]
  /\ wait = "log read" => /\ log.todo \subseteq Cond.source
                          /\ log.total <= Printed(Cond.source \ log.todo)

(* A condition asked for is still to come or was found to hold. *)
AskedInv ==
  /\ phase = "waiting" =>
       \A i \in DOMAIN asked :
         asked[i] \in held \/ \E j \in DOMAIN conds : conds[j] = asked[i]
  /\ phase \in {"after", "ready"} => \A i \in DOMAIN asked : asked[i] \in held
(* What was found to hold is true now. *)
HeldInv == \A c \in held : TrueOf(c)

(* Only a failed wait has a reason, and EndOfStream a good one. *)
EndInv ==
  /\ phase # "failed" => why = "none"
  /\ why = "EndOfStream" => (~box.running \/ box.logEnded) /\ log.total < Cond.times

(* The inductive invariant. *)
ReadyInv ==
  /\ BoxType /\ LogsType /\ ExecType /\ CommandType /\ SeqType
  /\ BoxInv /\ CommandInv /\ StrategyInv /\ CountInv
  /\ AskedInv /\ HeldInv /\ EndInv

(* It holds at first. *)
LEMMA InitReadyInv == WaitInit => ReadyInv
<1> SUFFICES ASSUME WaitInit PROVE ReadyInv
  OBVIOUS
<1> USE DEF WaitInit
<1>1. BoxType /\ BoxInv
  BY DEF BoxType, BoxInv, Known
<1>2. LogsType /\ CountInv
  BY DEF LogsType, CountInv, NoLog
<1>3. ExecType /\ CommandType /\ CommandInv
  BY DEF ExecType, CommandType, CommandInv, NoExec, Known
<1>4. SeqType
  BY ConditionsAssumption DEF SeqType
<1>5. StrategyInv /\ AskedInv /\ HeldInv /\ EndInv
  BY DEF StrategyInv, AskedInv, HeldInv, EndInv
<1> QED BY <1>1, <1>2, <1>3, <1>4, <1>5 DEF ReadyInv

(* What the container can do to the box. *)
Later ==
  /\ BoxType'
  /\ \A s \in StdStreams : box.printed[s] <= box'.printed[s]
  /\ box.healthy => box'.healthy
  /\ box.served => box'.served
  /\ ~box.running => ~box'.running /\ box'.code = box.code
  /\ box.logEnded => box'.logEnded

(* Every step of the container is such a step. *)
LEMMA ContainerLater ==
  ASSUME ReadyInv, Container
  PROVE  Later /\ BoxInv'
<1> USE DEF ReadyInv
<1>p. box'.printed = box.printed => \A s \in StdStreams : box.printed[s] <= box'.printed[s]
  BY DEF BoxType
<1>1. CASE Prints
  <2>1. PICK t \in StdStreams : box' = [box EXCEPT !.printed[t] = @ + 1]
    BY <1>1 DEF Prints
  <2>2. BoxType'
    BY <2>1 DEF BoxType, Known
  <2>3. /\ box'.running = box.running /\ box'.code = box.code
        /\ box'.health = box.health /\ box'.healthy = box.healthy
        /\ box'.served = box.served /\ box'.logEnded = box.logEnded
        /\ hint' = hint
    BY <1>1, <2>1 DEF BoxType, Prints
  <2>4. \A s \in StdStreams : box.printed[s] <= box'.printed[s]
    BY <2>1 DEF BoxType
  <2> QED BY <2>2, <2>3, <2>4, Zenon DEF Later, BoxInv
<1>2. CASE LogEnds
  <2>1. box' = [box EXCEPT !.logEnded = TRUE]
    BY <1>2 DEF LogEnds
  <2>2. BoxType'
    BY <2>1 DEF BoxType, Known
  <2>3. /\ box'.running = box.running /\ box'.code = box.code
        /\ box'.health = box.health /\ box'.healthy = box.healthy
        /\ box'.served = box.served /\ box'.printed = box.printed
        /\ box'.logEnded = TRUE /\ hint' = hint
    BY <1>2, <2>1 DEF BoxType, LogEnds
  <2> QED BY <1>p, <2>2, <2>3, Zenon DEF Later, BoxInv
<1>3. CASE Exits
  <2>1. PICK c \in Codes : box' = [box EXCEPT !.running = FALSE, !.code = c]
    BY <1>3 DEF Exits
  <2>2. BoxType'
    BY <2>1 DEF BoxType, Known
  <2>3. /\ box'.health = box.health /\ box'.healthy = box.healthy
        /\ box'.served = box.served /\ box'.logEnded = box.logEnded
        /\ box'.printed = box.printed /\ box'.running = FALSE
        /\ box.running /\ hint' = hint
    BY <1>3, <2>1 DEF BoxType, Exits
  <2> QED BY <1>p, <2>2, <2>3, Zenon DEF Later, BoxInv
<1>4. CASE Recorded
  <2>1. box' = box /\ hint' = box.code /\ ~box.running
    BY <1>4 DEF Recorded
  <2>2. box'.printed = box.printed /\ BoxType'
    BY <2>1 DEF BoxType
  <2> QED BY <1>p, <2>1, <2>2, Zenon DEF Later, BoxInv
<1>5. CASE Serves
  <2>1. box' = [box EXCEPT !.served = TRUE]
    BY <1>5 DEF Serves
  <2>2. BoxType'
    BY <2>1 DEF BoxType, Known
  <2>3. /\ box'.running = box.running /\ box'.code = box.code
        /\ box'.health = box.health /\ box'.healthy = box.healthy
        /\ box'.logEnded = box.logEnded /\ box'.printed = box.printed
        /\ box'.served = TRUE /\ hint' = hint
    BY <1>5, <2>1 DEF BoxType, Serves
  <2> QED BY <1>p, <2>2, <2>3, Zenon DEF Later, BoxInv
<1>6. CASE HealthChanges
  <2>1. PICK h \in {"starting", "healthy", "unhealthy"} :
          box' = [box EXCEPT !.health = h, !.healthy = @ \/ h = "healthy"]
    BY <1>6 DEF HealthChanges
  <2>2. BoxType'
    BY <2>1 DEF BoxType, Known
  <2>3. /\ box'.running = box.running /\ box'.code = box.code
        /\ box'.served = box.served /\ box'.logEnded = box.logEnded
        /\ box'.printed = box.printed /\ box'.health = h
        /\ box'.healthy = (box.healthy \/ h = "healthy") /\ hint' = hint
    BY <1>6, <2>1 DEF BoxType, HealthChanges
  <2> QED BY <1>p, <2>2, <2>3, Zenon DEF Later, BoxInv
<1>7. CASE CommandEnds
  <2>1. box' = box /\ hint' = hint
    BY <1>7 DEF CommandEnds
  <2>2. box'.printed = box.printed /\ BoxType'
    BY <2>1 DEF BoxType
  <2> QED BY <1>p, <2>1, <2>2, Zenon DEF Later, BoxInv
<1> QED
  BY <1>1, <1>2, <1>3, <1>4, <1>5, <1>6, <1>7 DEF Container

(* A log condition has its streams and a number of matches. *)
LEMMA LogCondition ==
  ASSUME NEW c \in WaitFor, c.kind = "log"
  PROVE  c.source \subseteq StdStreams /\ c.times \in Nat
<1>1. c \in [kind : {"log"}, source : (SUBSET StdStreams) \ {{}}, times : 1..MaxTimes]
  <2>1. c \notin [kind : {"nothing", "empty log", "duration", "health"}]
    OBVIOUS
  <2>2. c \notin [kind : {"http"}, matcher : BOOLEAN]
    OBVIOUS
  <2>3. c \notin [kind : {"exit"}, code : Codes \cup {Unknown}]
    OBVIOUS
  <2> QED BY <2>1, <2>2, <2>3 DEF WaitFor
<1>2. c.source \in SUBSET StdStreams /\ c.times \in 1..MaxTimes
  BY <1>1
<1> QED BY <1>2, WaitAssumption

(* What was printed only grows. *)
LEMMA PrintedLater ==
  ASSUME BoxType, Later, NEW S
  PROVE  Printed(S) \in Nat /\ Printed(S)' \in Nat /\ Printed(S) <= Printed(S)'
<1>1. \A s \in StdStreams : box.printed[s] \in Nat /\ box'.printed[s] \in Nat
                             /\ box.printed[s] <= box'.printed[s]
  BY DEF BoxType, Later
<1> QED BY <1>1 DEF Printed, StdStreams

(* What was true of the container stays true: it prints more, a check was  *)
(* healthy, a request was answered, it has ended with its code.            *)
LEMMA TrueStays ==
  ASSUME BoxType, Later, wos' = wos, NEW c \in WaitFor, TrueOf(c)
  PROVE  TrueOf(c)'
<1>1. CASE c.kind = "log"
  <2>1. Printed(c.source) >= c.times
    BY <1>1 DEF TrueOf
  <2>2. c.times \in Nat
    BY <1>1, LogCondition
  <2>3. Printed(c.source)' >= c.times
    BY <2>1, <2>2, PrintedLater
  <2> QED BY <1>1, <2>3 DEF TrueOf
<1>2. CASE c.kind = "health"
  BY <1>2 DEF TrueOf, Later
<1>3. CASE c.kind = "http"
  BY <1>3 DEF TrueOf, Later
<1>4. CASE c.kind = "exit"
  BY <1>4 DEF TrueOf, Later
<1>5. CASE c.kind \notin {"log", "health", "http", "exit"}
  BY <1>5 DEF TrueOf
<1> QED BY <1>1, <1>2, <1>3, <1>4, <1>5

(* The container keeps the invariant. *)
LEMMA ContainerInv ==
  ASSUME ReadyInv, phase \notin {"ready", "failed"}, Container
  PROVE  ReadyInv'
<1> USE DEF ReadyInv
<1>0. /\ Later /\ BoxInv'
      /\ UNCHANGED <<wos, phase, why, asked, conds, held, wait, log, exec>>
  BY ContainerLater DEF Container
<1>1. BoxType' /\ LogsType' /\ ExecType' /\ SeqType'
  BY <1>0 DEF Later, LogsType, ExecType, SeqType
<1>2. CommandType' /\ CommandInv'
  <2>1. CASE command' = command
    BY <1>0, <2>1 DEF CommandType, CommandInv
  <2>2. CASE CommandEnds
    <3>1. CASE ~command.ended
      <4>1. PICK c \in Codes : command' = [command EXCEPT !.ended = TRUE, !.code = c]
        BY <2>2, <3>1 DEF CommandEnds
      <4>2. CommandType' /\ command'.ended = TRUE
        BY <4>1 DEF CommandType, Known
      <4>3. exec.code = Unknown /\ exec.passed = Unknown
        BY <3>1 DEF CommandInv
      <4> QED BY <1>0, <4>2, <4>3, Zenon DEF CommandInv
    <3>2. CASE command.ended
      <4>1. command' = [command EXCEPT !.recorded = TRUE]
        BY <2>2, <3>2 DEF CommandEnds
      <4>2. CommandType' /\ command'.ended = command.ended /\ command'.code = command.code
        BY <4>1 DEF CommandType, Known
      <4> QED BY <1>0, <3>2, <4>2, Zenon DEF CommandInv
    <3> QED BY <3>1, <3>2
  <2> QED
    BY <2>1, <2>2
      DEF Container, Prints, LogEnds, Exits, Recorded, Serves, HealthChanges
<1>3. StrategyInv' /\ AskedInv'
  BY <1>0 DEF StrategyInv, AskedInv, Waiting, Cond
<1>4. CountInv'
  <2>1. ASSUME NEW s \in StdStreams PROVE log'.count[s] <= box'.printed[s]
    <3>1. log.count[s] \in Nat /\ box.printed[s] \in Nat /\ box'.printed[s] \in Nat
      BY <1>1 DEF LogsType, BoxType
    <3>2. log.count[s] <= box.printed[s] /\ box.printed[s] <= box'.printed[s]
      BY <1>0 DEF CountInv, Later
    <3> QED BY <1>0, <3>1, <3>2
  <2>2. ASSUME wait = "log read", NEW S, S = Cond.source \ log.todo
        PROVE  log.total <= Printed(S)'
    <3>1. log.total \in Nat /\ log.total <= Printed(S)
      BY <2>2 DEF LogsType, CountInv
    <3>2. Printed(S) \in Nat /\ Printed(S)' \in Nat /\ Printed(S) <= Printed(S)'
      BY <1>0, PrintedLater
    <3> QED BY <3>1, <3>2
  <2>3. wait' = "log read" => log'.total <= Printed(Cond.source \ log.todo)'
    BY <1>0, <2>2 DEF Cond, Printed
  <2> QED BY <1>0, <2>1, <2>3 DEF CountInv, Cond
<1>5. HeldInv'
  BY <1>0, TrueStays DEF HeldInv, SeqType
<1>6. EndInv'
  BY <1>0 DEF EndInv
<1> QED BY <1>0, <1>1, <1>2, <1>3, <1>4, <1>5, <1>6

(* What a step of a strategy leaves alone. *)
LEMMA SameContainer ==
  ASSUME ReadyInv, UNCHANGED <<wos, exec, envVars>>
  PROVE  /\ BoxType' /\ BoxInv' /\ ExecType' /\ CommandType' /\ CommandInv'
         /\ \A c : TrueOf(c)' <=> TrueOf(c)
<1>1. UNCHANGED <<wos, exec, box, hint, command>>
  BY DEF envVars
<1> QED
  BY <1>1
    DEF ReadyInv, BoxType, BoxInv, ExecType, CommandType, CommandInv, TrueOf,
        Printed

(* The condition at hand is true: on with the next. *)
LEMMA HoldsInv ==
  ASSUME ReadyInv, phase # "failed", conds # <<>>, TrueOf(Cond), Holds,
         UNCHANGED <<waitOnly, phase, why>>
  PROVE  SeqType' /\ StrategyInv' /\ AskedInv' /\ HeldInv' /\ EndInv'
<1> USE DEF ReadyInv
<1>0. UNCHANGED <<wos, asked, exec, phase, why, envVars>>
  BY DEF waitOnly
<1>1. /\ conds \in Seq(WaitFor) /\ conds # <<>> /\ conds' = Tail(conds)
      /\ held' = held \cup {Cond} /\ wait' = "none" /\ Cond \in WaitFor
  BY DEF SeqType, Holds, Cond
<1>2. SeqType'
  BY <1>0, <1>1 DEF SeqType
<1>3. StrategyInv' /\ EndInv'
  BY <1>0, <1>1 DEF StrategyInv, EndInv
<1>4. \A j \in DOMAIN conds : conds[j] = Cond \/ \E k \in DOMAIN conds' : conds'[k] = conds[j]
  <2> SUFFICES ASSUME NEW j \in DOMAIN conds, j # 1
               PROVE  \E k \in DOMAIN conds' : conds'[k] = conds[j]
    BY DEF Cond
  <2>1. j - 1 \in DOMAIN conds' /\ conds'[j - 1] = conds[j]
    BY <1>1
  <2> QED BY <2>1
<1>5. AskedInv'
  BY <1>0, <1>1, <1>4 DEF AskedInv
<1>6. HeldInv'
  BY <1>0, <1>1, SameContainer DEF HeldInv
<1> QED BY <1>2, <1>3, <1>5, <1>6

(* The wait fails: nothing else happens. *)
LEMMA FailsInv ==
  ASSUME ReadyInv, NEW error, error # "EndOfStream", Fail(error),
         UNCHANGED <<waitOnly, held, conds, wait>>
  PROVE  SeqType' /\ StrategyInv' /\ AskedInv' /\ HeldInv' /\ EndInv'
<1> USE DEF ReadyInv
<1>0. UNCHANGED <<wos, asked, exec, envVars, held, conds, wait>>
      /\ phase' = "failed" /\ why' # "EndOfStream"
  BY DEF waitOnly, Fail
<1>1. SeqType' /\ StrategyInv' /\ AskedInv' /\ EndInv'
  BY <1>0 DEF SeqType, StrategyInv, AskedInv, EndInv, Waiting, Cond
<1>2. HeldInv'
  BY <1>0, SameContainer DEF HeldInv
<1> QED BY <1>1, <1>2

(* The wait goes on. *)
LEMMA GoesOnInv ==
  ASSUME ReadyInv, phase # "failed", StrategyInv',
         UNCHANGED <<waitOnly, phase, why, held, conds>>
  PROVE  SeqType' /\ AskedInv' /\ HeldInv' /\ EndInv'
<1> USE DEF ReadyInv
<1>0. UNCHANGED <<wos, asked, exec, envVars, held, conds, phase, why>>
  BY DEF waitOnly
<1>1. SeqType' /\ AskedInv' /\ EndInv'
  BY <1>0 DEF SeqType, AskedInv, EndInv
<1>2. HeldInv'
  BY <1>0, SameContainer DEF HeldInv
<1> QED BY <1>1, <1>2

(* Nothing is less than no match. *)
LEMMA ZeroLeast == \A n \in Nat : 0 <= n
OBVIOUS

(* Outside a round of the log the counts are those of the readers. *)
LEMMA NoRound ==
  ASSUME ReadyInv, box' = box, log' = log \/ log' = NoLog,
         wait' # "log read"
  PROVE  LogsType' /\ CountInv'
<1>1. CASE log' = log
  BY <1>1 DEF ReadyInv, LogsType, CountInv
<1>2. CASE log' = NoLog
  <2>1. LogsType'
    BY <1>2 DEF LogsType, NoLog
  <2>2. \A t \in StdStreams : log'.count[t] = 0 /\ box'.printed[t] \in Nat
    BY <1>2 DEF ReadyInv, BoxType, NoLog
  <2>3. ASSUME NEW t \in StdStreams PROVE log'.count[t] <= box'.printed[t]
    <3>1. log'.count[t] = 0 /\ box'.printed[t] \in Nat
      BY <2>2
    <3> QED BY <3>1, ZeroLeast, Zenon
  <2> QED BY <2>1, <2>3 DEF CountInv
<1> QED BY <1>1, <1>2

(* A strategy keeps it, action by action. *)
LEMMA StrategyStep ==
  ASSUME ReadyInv, phase # "failed", Waiting, Strategy
  PROVE  ReadyInv'
<1>e. ASSUME UNCHANGED waitOnly
      PROVE  BoxType' /\ BoxInv' /\ ExecType' /\ CommandType' /\ CommandInv' /\ box' = box
  BY <1>e, SameContainer DEF waitOnly, envVars
<1>i. ASSUME UNCHANGED waitOnly, LogsType', CountInv', SeqType', StrategyInv', AskedInv',
             HeldInv', EndInv'
      PROVE  ReadyInv'
  BY <1>e, <1>i DEF ReadyInv
<1>s. StrategyInv /\ (wait # "none" => conds # <<>>) /\ conds \in Seq(WaitFor)
  BY DEF ReadyInv, StrategyInv, SeqType
<1>c. conds # <<>> => Cond \in WaitFor
  BY <1>s DEF Cond
<1>1. CASE BeginCondition
  <2>0. UNCHANGED waitOnly /\ conds # <<>> /\ wait = "none" /\ log' = NoLog
    BY <1>1 DEF BeginCondition
  <2>1. CASE /\ Holds /\ Cond.kind \in {"nothing", "duration", "empty log"}
             /\ UNCHANGED <<phase, why>>
    <3>1. TrueOf(Cond) /\ wait' # "log read"
      BY <2>1 DEF TrueOf, Holds
    <3> QED BY <1>e, <1>i, <2>0, <2>1, <3>1, HoldsInv, NoRound
  <2>2. CASE /\ wait' = Cond.kind /\ UNCHANGED <<phase, why, held, conds>>
             /\ \/ Cond.kind = "log"
                \/ Cond.kind = "health" /\ wos = "linux"
                \/ Cond.kind = "http" /\ Cond.matcher
                \/ Cond.kind = "exit"
    <3>1. StrategyInv' /\ wait' # "log read"
      BY <1>s, <2>0, <2>2 DEF StrategyInv, Waiting, Cond, waitOnly
    <3> QED BY <1>e, <1>i, <2>0, <2>2, <3>1, GoesOnInv, NoRound
  <2>3. CASE \E error \in {"HealthCheckNotConfigured", "NoExposedPorts", "NoResponseMatcher"} :
               Fail(error) /\ UNCHANGED <<held, conds, wait>>
    BY <1>e, <1>i, <2>0, <2>3, FailsInv, NoRound
  <2> QED BY <1>1, <2>1, <2>2, <2>3 DEF BeginCondition
<1>2. CASE LogRound
  <2>0. /\ UNCHANGED <<waitOnly, phase, why, held, conds>> /\ wait = "log" /\ wait' = "log read"
        /\ log' = [log EXCEPT !.todo = Cond.source, !.total = 0, !.progressed = FALSE]
    BY <1>2 DEF LogRound
  <2>1. StrategyInv'
    BY <1>s, <2>0 DEF StrategyInv, Waiting, Cond, waitOnly
  <2>2. Cond.source \subseteq StdStreams
    BY <1>s, <1>c, <2>0, LogCondition DEF StrategyInv
  <2>3. LogsType' /\ log'.count = log.count /\ log'.total = 0 /\ log'.todo = Cond.source
    BY <2>0, <2>2 DEF ReadyInv, LogsType
  <2>4. CountInv'
    <3>1. Cond' = Cond /\ Cond.source \ log'.todo = {}
      BY <2>0, <2>3 DEF Cond
    <3>2. Printed(Cond.source \ log.todo)' = 0
      BY <3>1 DEF Printed
    <3>3. log'.total <= Printed(Cond.source \ log.todo)'
      BY <2>3, <3>2
    <3>4. \A t \in StdStreams : log'.count[t] <= box'.printed[t]
      BY <1>e, <2>0, <2>3, Zenon DEF CountInv, ReadyInv
    <3> QED BY <2>3, <3>1, <3>3, <3>4, Zenon DEF CountInv
  <2> QED BY <1>i, <2>0, <2>1, <2>3, <2>4, GoesOnInv
<1>3. CASE LogRead
  <2>0. /\ UNCHANGED <<waitOnly, held, conds, wait>> /\ wait = "log read" /\ log.todo # {}
    BY <1>3 DEF LogRead
  <2>1. CASE Fail("Io") /\ log' = log
    <3>1. LogsType' /\ CountInv'
      BY <1>e, <2>0, <2>1 DEF ReadyInv, LogsType, CountInv, Cond, Printed
    <3> QED BY <1>i, <2>0, <2>1, <3>1, FailsInv
  <2>2. CASE \E t \in log.todo : ReadStream(t, log.total) /\ UNCHANGED <<phase, why>>
    <3>0. PICK t \in log.todo : ReadStream(t, log.total) /\ UNCHANGED <<phase, why>>
      BY <2>2
    <3>1. PICK n \in 0 .. box.printed[t] - log.count[t] :
            log' = [log EXCEPT !.todo = @ \ {t}, !.count[t] = @ + n,
                               !.total = log.total + log.count[t] + n,
                               !.progressed = @ \/ n > 0]
      BY <3>0 DEF ReadStream
    <3>t. /\ t \in StdStreams /\ log.count[t] \in Nat /\ box.printed[t] \in Nat
          /\ log.total \in Nat /\ n \in Nat /\ log.count[t] + n <= box.printed[t]
      BY <3>1 DEF ReadyInv, LogsType, BoxType
    <3>2. /\ LogsType' /\ log'.todo = log.todo \ {t}
          /\ log'.total = log.total + log.count[t] + n
          /\ log'.count = [log.count EXCEPT ![t] = log.count[t] + n]
      <4>1. /\ log'.todo = log.todo \ {t}
            /\ log'.total = log.total + log.count[t] + n
            /\ log'.count = [log.count EXCEPT ![t] = @ + n]
            /\ log'.progressed = (log.progressed \/ n > 0)
            /\ log'.exited = log.exited
        BY <3>1 DEF ReadyInv, LogsType
      <4>2. /\ log'.todo \in SUBSET StdStreams /\ log'.count \in [StdStreams -> Nat]
            /\ log'.total \in Nat
        BY <3>t, <4>1 DEF ReadyInv, LogsType
      <4>3. log'.progressed \in BOOLEAN /\ log'.exited \in BOOLEAN
        BY <4>1 DEF ReadyInv, LogsType
      <4>4. log' = [todo |-> log'.todo, count |-> log'.count, total |-> log'.total,
                    progressed |-> log'.progressed, exited |-> log'.exited]
        BY <3>1 DEF ReadyInv, LogsType
      <4>5. LogsType'
        BY <4>2, <4>3, <4>4 DEF LogsType
      <4> QED BY <4>1, <4>5
    <3>3. StrategyInv'
      BY <1>s, <2>0, <3>0 DEF StrategyInv, Waiting, Cond, waitOnly
    <3>4. CountInv'
      <4>0. /\ log.total <= Printed(Cond.source \ log.todo)
            /\ log.todo \subseteq Cond.source /\ Cond.source \subseteq StdStreams
        BY <1>s, <1>c, <2>0, LogCondition DEF ReadyInv, CountInv, StrategyInv
      <4>1. \A u \in StdStreams : log'.count[u] <= box'.printed[u]
        BY <1>e, <2>0, <3>t, <3>2 DEF ReadyInv, CountInv, LogsType
      <4>2. \A u \in StdStreams : box.printed[u] \in Nat
        BY DEF ReadyInv, BoxType
      <4>3. Printed(Cond.source \ (log.todo \ {t}))
              = Printed(Cond.source \ log.todo) + box.printed[t]
        BY <3>t, <4>0, <4>2 DEF Printed, StdStreams
      <4>4. Printed(Cond.source \ log.todo) \in Nat
        BY <4>2 DEF Printed, StdStreams
      <4>5. log'.total <= Printed(Cond.source \ (log.todo \ {t}))
        BY <3>t, <3>2, <4>0, <4>3, <4>4
      <4>6. Printed(Cond.source \ log.todo)' = Printed(Cond.source \ (log.todo \ {t}))
        BY <1>e, <2>0, <3>2 DEF Printed, Cond
      <4> QED BY <2>0, <3>2, <4>0, <4>1, <4>5, <4>6 DEF CountInv, Cond
    <3> QED BY <1>i, <2>0, <3>0, <3>2, <3>3, <3>4, GoesOnInv
  <2>3. (IF "stdout" \in log.todo THEN "stdout" ELSE "stderr") \in log.todo
    BY <2>0 DEF ReadyInv, LogsType, StdStreams
  <2> QED BY <1>3, <2>1, <2>2, <2>3 DEF LogRead
<1>4. CASE LogCheck
  <2>0. /\ UNCHANGED waitOnly /\ wait = "log read" /\ log.todo = {}
        /\ conds # <<>> /\ Cond.kind = "log"
    BY <1>4, <1>s DEF LogCheck, StrategyInv
  <2>1. CASE log.total >= Cond.times /\ Holds /\ log' = NoLog /\ UNCHANGED <<phase, why>>
    <3>1. Cond.times \in Nat /\ log.total \in Nat /\ log.total <= Printed(Cond.source \ {})
      BY <1>c, <2>0, LogCondition DEF ReadyInv, LogsType, CountInv
    <3>2. \A u \in StdStreams : box.printed[u] \in Nat
      BY DEF ReadyInv, BoxType
    <3>3. Printed(Cond.source \ {}) = Printed(Cond.source) /\ Printed(Cond.source) \in Nat
      BY <3>2 DEF Printed, StdStreams
    <3>4. TrueOf(Cond) /\ wait' # "log read"
      <4>1. Printed(Cond.source) >= Cond.times
        BY <2>1, <3>1, <3>3
      <4> QED BY <2>0, <2>1, <4>1 DEF TrueOf, Holds
    <3> QED BY <1>e, <1>i, <2>0, <2>1, <3>4, HoldsInv, NoRound
  <2>2. CASE /\ wait' = "log" /\ UNCHANGED <<phase, why>> /\ Stays
             /\ log' = [log EXCEPT !.exited = @ \/ (~log.progressed /\ Gone)]
    <3>1. LogsType' /\ log'.count = log.count
      BY <2>2 DEF ReadyInv, LogsType
    <3>2. CountInv'
      BY <1>e, <2>0, <2>2, <3>1 DEF ReadyInv, CountInv
    <3>3. StrategyInv'
      BY <1>s, <2>0, <2>2 DEF StrategyInv, Waiting, Cond, waitOnly, Stays
    <3> QED BY <1>i, <2>0, <2>2, <3>1, <3>2, <3>3, GoesOnInv DEF Stays
  <2>3. CASE /\ log.total < Cond.times /\ Gone /\ Fail("EndOfStream")
             /\ Stays /\ UNCHANGED <<wait, log>>
    <3>1. LogsType' /\ CountInv'
      BY <1>e, <2>0, <2>3
        DEF ReadyInv, LogsType, CountInv, Cond, Printed, Stays
    <3>2. SeqType' /\ StrategyInv' /\ AskedInv'
      BY <2>0, <2>3
        DEF ReadyInv, SeqType, StrategyInv, AskedInv, Waiting, Cond, Stays,
            Fail, waitOnly
    <3>3. HeldInv'
      BY <2>0, <2>3, SameContainer DEF ReadyInv, HeldInv, Stays, waitOnly
    <3>4. EndInv'
      BY <1>e, <2>0, <2>3 DEF ReadyInv, BoxInv, EndInv, Gone, Fail, Cond, Stays
    <3> QED BY <1>i, <2>0, <3>1, <3>2, <3>3, <3>4
  <2> QED BY <1>4, <2>1, <2>2, <2>3 DEF LogCheck
<1>5. CASE HealthPoll
  <2>0. /\ UNCHANGED <<waitOnly, log>> /\ wait = "health" /\ conds # <<>>
        /\ Cond.kind = "health" /\ wos = "linux"
    BY <1>5, <1>s DEF HealthPoll, StrategyInv
  <2>1. CASE box.health = "healthy" /\ Holds /\ UNCHANGED <<phase, why>>
    <3>1. TrueOf(Cond) /\ wait' # "log read"
      BY <2>0, <2>1 DEF TrueOf, Holds, ReadyInv, BoxInv
    <3> QED BY <1>e, <1>i, <2>0, <2>1, <3>1, HoldsInv, NoRound
  <2>2. CASE \E error \in {"Unhealthy", "HealthCheckNotConfigured", "inspect"} :
               Fail(error) /\ UNCHANGED <<held, conds, wait>>
    BY <1>e, <1>i, <2>0, <2>2, FailsInv, NoRound
  <2>3. CASE UNCHANGED <<phase, why, held, conds, wait>>
    <3>1. StrategyInv'
      BY <1>s, <2>0, <2>3 DEF StrategyInv, Waiting, Cond, waitOnly
    <3> QED BY <1>e, <1>i, <2>0, <2>3, <3>1, GoesOnInv, NoRound
  <2> QED BY <1>5, <2>1, <2>2, <2>3 DEF HealthPoll
<1>6. CASE HttpPoll
  <2>0. /\ UNCHANGED <<waitOnly, phase, why, log>> /\ wait = "http" /\ conds # <<>>
        /\ Cond.kind = "http" /\ Cond.matcher
    BY <1>6, <1>s DEF HttpPoll, StrategyInv
  <2>1. CASE box.served /\ Holds
    <3>1. TrueOf(Cond) /\ wait' # "log read"
      BY <2>0, <2>1 DEF TrueOf, Holds
    <3> QED BY <1>e, <1>i, <2>0, <2>1, <3>1, HoldsInv, NoRound
  <2>3. CASE UNCHANGED <<held, conds, wait>>
    <3>1. StrategyInv'
      BY <1>s, <2>0, <2>3 DEF StrategyInv, Waiting, Cond, waitOnly
    <3> QED BY <1>e, <1>i, <2>0, <2>3, <3>1, GoesOnInv, NoRound
  <2> QED BY <1>6, <2>1, <2>3 DEF HttpPoll
<1>v. ASSUME NEW actual, Verdict(actual), UNCHANGED <<waitOnly, log>>, ~box.running,
             conds # <<>>, Cond.kind = "exit", wait \in {"exit", "exit state"},
             Cond.code = actual => actual \in {Unknown, box.code}
      PROVE  ReadyInv'
  <2>1. CASE Cond.code \in {Unknown, actual}
    <3>1. Holds /\ UNCHANGED <<phase, why>>
      BY <1>v, <2>1 DEF Verdict
    <3>2. TrueOf(Cond) /\ wait' # "log read"
      BY <1>v, <2>1, <3>1 DEF TrueOf, Holds
    <3> QED BY <1>e, <1>i, <1>v, <3>1, <3>2, HoldsInv, NoRound
  <2>2. CASE Cond.code \notin {Unknown, actual}
    <3>1. Fail("UnexpectedExitCode") /\ UNCHANGED <<held, conds, wait>>
      BY <1>v, <2>2 DEF Verdict
    <3> QED BY <1>e, <1>i, <1>v, <3>1, FailsInv, NoRound
  <2> QED BY <2>1, <2>2
<1>7. CASE ExitHint
  <2>0. UNCHANGED <<waitOnly, log>> /\ wait = "exit" /\ conds # <<>> /\ Cond.kind = "exit"
    BY <1>7, <1>s DEF ExitHint, StrategyInv
  <2>1. CASE hint # Unknown
    <3>1. Verdict(hint) /\ ~box.running /\ hint = box.code
      BY <1>7, <2>1 DEF ExitHint, ReadyInv, BoxInv
    <3> QED BY <1>v, <2>0, <3>1
  <2>2. CASE hint = Unknown
    <3>1. wait' = "exit state" /\ UNCHANGED <<phase, why, held, conds>>
      BY <1>7, <2>2 DEF ExitHint
    <3>2. StrategyInv'
      BY <1>s, <2>0, <3>1 DEF StrategyInv, Waiting, Cond, waitOnly
    <3> QED BY <1>e, <1>i, <2>0, <3>1, <3>2, GoesOnInv, NoRound
  <2> QED BY <2>1, <2>2
<1>8. CASE ExitState
  <2>0. /\ UNCHANGED <<waitOnly, log>> /\ wait = "exit state" /\ conds # <<>>
        /\ Cond.kind = "exit"
    BY <1>8, <1>s DEF ExitState, StrategyInv
  <2>1. CASE wait' = "exit" /\ UNCHANGED <<phase, why, held, conds>>
    <3>2. StrategyInv'
      BY <1>s, <2>0, <2>1 DEF StrategyInv, Waiting, Cond, waitOnly
    <3> QED BY <1>e, <1>i, <2>0, <2>1, <3>2, GoesOnInv, NoRound
  <2>2. CASE ~box.running /\ Cond.code = Unknown /\ Holds /\ UNCHANGED <<phase, why>>
    <3>1. TrueOf(Cond) /\ wait' # "log read"
      BY <2>0, <2>2 DEF TrueOf, Holds
    <3> QED BY <1>e, <1>i, <2>0, <2>2, <3>1, HoldsInv, NoRound
  <2>3. CASE ~box.running /\ \E actual \in {box.code, Unknown} : Verdict(actual)
    BY <1>v, <2>0, <2>3
  <2>4. CASE Fail("state") /\ UNCHANGED <<held, conds, wait>>
    BY <1>e, <1>i, <2>0, <2>4, FailsInv, NoRound
  <2> QED BY <1>8, <2>1, <2>2, <2>3, <2>4 DEF ExitState
<1> QED
  BY <1>1, <1>2, <1>3, <1>4, <1>5, <1>6, <1>7, <1>8 DEF Strategy

(* A step of the sequence between two waits: the container is not read.    *)
LEMMA BetweenWaits ==
  ASSUME ReadyInv, UNCHANGED <<execOnly, conds>>, phase # "failed"
  PROVE  /\ BoxType' /\ BoxInv' /\ LogsType' /\ CountInv' /\ SeqType' /\ HeldInv'
         /\ wait = "none" => wait' = "none"
<1>1. UNCHANGED <<wos, asked, held, wait, log, box, hint, conds>>
  BY DEF execOnly
<1> USE DEF ReadyInv
<1>2. BoxType' /\ BoxInv' /\ LogsType' /\ SeqType'
  BY <1>1 DEF BoxType, BoxInv, LogsType, SeqType
<1>3. CountInv'
  BY <1>1 DEF CountInv, Cond, Printed
<1>4. HeldInv'
  BY <1>1 DEF HeldInv, TrueOf, Printed
<1> QED BY <1>1, <1>2, <1>3, <1>4

(* A step of exec. *)
LEMMA ExecStep ==
  ASSUME ReadyInv, phase \notin {"ready", "failed"},
         BeginExec \/ ExecRun \/ ExecInspect \/ CmdReady
  PROVE  ReadyInv'
<1> USE DEF ReadyInv
<1>0. UNCHANGED <<execOnly, conds>>
  BY DEF BeginExec, ExecRun, ExecInspect, CmdReady
<1>1. UNCHANGED <<wos, asked, held, wait, log, box, hint, conds>>
  BY <1>0 DEF execOnly
<1>2. exec.at \in {"none", "run", "inspect", "cmd"} /\ phase # "waiting" /\ wait = "none"
  BY DEF BeginExec, ExecRun, ExecInspect, CmdReady, StrategyInv, Waiting
<1>3. \/ phase' = phase /\ why' = why
      \/ phase' = "failed" /\ why' # "EndOfStream"
  <2>1. UNCHANGED <<phase, why>>
          \/ \E e \in {"no log source", "exec", "inspect exec", "command"} : Fail(e)
    BY Zenon DEF BeginExec, ExecRun, ExecInspect, CmdReady
  <2>2. ASSUME NEW e \in {"no log source", "exec", "inspect exec", "command"}, Fail(e)
        PROVE  phase' = "failed" /\ why' # "EndOfStream"
    BY <2>2 DEF Fail
  <2> QED BY <2>1, <2>2
<1>4. StrategyInv' /\ AskedInv' /\ EndInv'
  BY <1>1, <1>2, <1>3 DEF StrategyInv, AskedInv, EndInv
<1>5. ASSUME ExecType', CommandType', CommandInv' PROVE ReadyInv'
  BY <1>0, <1>4, <1>5, BetweenWaits
<1>6. CASE UNCHANGED <<exec, command>>
  BY <1>5, <1>6 DEF ExecType, CommandType, CommandInv
<1>7. CASE BeginExec /\ ~UNCHANGED <<exec, command>>
  <2>1. PICK cs \in CmdConditions :
          /\ exec' = [NoExec EXCEPT !.at = "run", !.conds = cs]
          /\ command' = [ended |-> FALSE, code |-> Unknown, recorded |-> FALSE]
    BY <1>7 DEF BeginExec
  <2>2. exec' = [at |-> "run", conds |-> cs, tries |-> 0, code |-> Unknown,
                 passed |-> Unknown] /\ cs \in Seq(WaitFor)
    BY <2>1, ConditionsAssumption DEF NoExec
  <2>3. ExecType' /\ CommandType'
    BY <2>1, <2>2 DEF ExecType, CommandType, Known
  <2>4. exec'.code = Unknown /\ exec'.passed = Unknown
    BY <2>2
  <2>5. command'.recorded = FALSE
    BY <2>1
  <2> QED BY <1>5, <2>3, <2>4, <2>5, Zenon DEF CommandInv
<1>8. CASE ExecRun \/ ExecInspect
  <2>1. CASE \E a \in {"inspect", "ran"} : exec' = [exec EXCEPT !.at = a]
    <3>1. ExecType' /\ exec'.code = exec.code /\ exec'.passed = exec.passed
      BY <2>1 DEF ExecType
    <3>2. command' = command
      BY <1>8 DEF ExecRun, ExecInspect
    <3> QED BY <1>5, <3>1, <3>2 DEF CommandType, CommandInv
  <2>2. CASE exec' = [exec EXCEPT !.tries = @ + 1]
    <3>1. ExecType' /\ exec'.code = exec.code /\ exec'.passed = exec.passed
      BY <2>2 DEF ExecType
    <3>2. command' = command
      BY <1>8 DEF ExecRun, ExecInspect
    <3> QED BY <1>5, <3>1, <3>2 DEF CommandType, CommandInv
  <2>3. CASE /\ command.ended
             /\ \E c \in {command.code, Unknown} : exec' = [exec EXCEPT !.at = "ran", !.code = c]
    <3>0. PICK c \in {command.code, Unknown} : exec' = [exec EXCEPT !.at = "ran", !.code = c]
      BY <2>3
    <3>1. ExecType' /\ exec'.code = c /\ exec'.passed = exec.passed
      BY <3>0 DEF ExecType, CommandType, Known
    <3>2. command' = command
      BY <1>8 DEF ExecRun, ExecInspect
    <3> QED BY <1>5, <2>3, <3>1, <3>2 DEF CommandType, CommandInv
  <2>4. command' = command
    BY <1>8 DEF ExecRun, ExecInspect
  <2>5. command.recorded => command.ended
    BY DEF CommandInv
  <2> QED BY <1>6, <1>8, <2>1, <2>2, <2>3, <2>4, <2>5 DEF ExecRun, ExecInspect
<1>9. CASE CmdReady
  <2>1. PICK ready \in CmdWaitFor :
          \E required \in {IF ready.kind = "exit" THEN ready.code ELSE Unknown} :
          \/ required \in {Unknown, exec.code} /\ exec' = [NoExec EXCEPT !.passed = required]
          \/ exec' = exec
    BY <1>9 DEF CmdReady
  <2>2. command' = command
    BY <1>9 DEF CmdReady
  <2>3. CASE exec' = exec
    BY <1>6, <2>2, <2>3
  <2>4. CASE \E required \in {Unknown, exec.code} : exec' = [NoExec EXCEPT !.passed = required]
    <3>0. PICK required \in {Unknown, exec.code} : exec' = [NoExec EXCEPT !.passed = required]
      BY <2>4
    <3>1. exec' = [at |-> "none", conds |-> <<>>, tries |-> 0, code |-> Unknown,
                   passed |-> required]
      BY <3>0 DEF NoExec
    <3>2. ExecType' /\ exec'.code = Unknown /\ exec'.passed = required
      BY <3>1 DEF ExecType, Known
    <3> QED BY <1>5, <2>2, <3>0, <3>2 DEF CommandType, CommandInv
  <2> QED BY <2>1, <2>3, <2>4
<1> QED BY <1>6, <1>7, <1>8, <1>9

(* The other steps of the sequence, which set what is to be waited for.    *)
LEMMA SequenceStep ==
  ASSUME ReadyInv, phase \notin {"ready", "failed"},
         ConditionsHold \/ ExecConditions \/ NextPhase \/ StartupTimeout
  PROVE  ReadyInv'
<1> USE DEF ReadyInv
<1>w. /\ conds = <<>> => wait = "none"
      /\ ~Waiting => wait = "none"
      /\ phase = "waiting" => exec.at = "none"
  BY DEF StrategyInv
<1>1. CASE ConditionsHold
  <2>0. /\ UNCHANGED <<wos, why, asked, conds, held, wait, log, box, hint, command>>
        /\ conds = <<>> /\ Waiting
    BY <1>1 DEF ConditionsHold, envVars
  <2>1. BoxType' /\ BoxInv' /\ LogsType' /\ CommandType' /\ SeqType'
    BY <2>0 DEF BoxType, BoxInv, LogsType, CommandType, SeqType
  <2>2. CountInv' /\ HeldInv'
    BY <2>0 DEF CountInv, HeldInv, TrueOf, Printed, Cond
  <2>3. CASE exec.at = "conds"
    <3>0. phase' = phase /\ exec' = [exec EXCEPT !.at = "cmd"] /\ phase # "waiting"
      BY <1>1, <1>w, <2>3 DEF ConditionsHold
    <3>1. ExecType' /\ exec'.code = exec.code /\ exec'.passed = exec.passed
      BY <3>0 DEF ExecType
    <3>2. CommandInv'
      BY <2>0, <3>1 DEF CommandInv
    <3>3. StrategyInv' /\ AskedInv' /\ EndInv'
      BY <1>w, <2>0, <3>0 DEF StrategyInv, AskedInv, EndInv
    <3> QED BY <2>1, <2>2, <3>1, <3>2, <3>3
  <2>4. CASE exec.at # "conds"
    <3>0. phase = "waiting" /\ phase' = "after" /\ exec' = exec
      BY <1>1, <2>0, <2>4 DEF ConditionsHold, Waiting
    <3>1. ExecType' /\ CommandInv'
      BY <2>0, <3>0 DEF ExecType, CommandInv
    <3>2. AskedInv'
      BY <2>0, <3>0 DEF AskedInv
    <3>3. StrategyInv' /\ EndInv'
      BY <1>w, <2>0, <3>0 DEF StrategyInv, EndInv
    <3> QED BY <2>1, <2>2, <3>1, <3>2, <3>3
  <2> QED BY <2>3, <2>4
<1>2. CASE ExecConditions
  <2>0. /\ UNCHANGED <<wos, why, asked, held, wait, log, box, hint, command, phase>>
        /\ exec.at = "ran" /\ exec' = [exec EXCEPT !.at = "conds"] /\ conds' = exec.conds
    BY <1>2 DEF ExecConditions, execOnly
  <2>1. BoxType' /\ BoxInv' /\ LogsType' /\ CommandType'
    BY <2>0 DEF BoxType, BoxInv, LogsType, CommandType
  <2>2. SeqType'
    BY <2>0 DEF SeqType, ExecType
  <2>3. ExecType' /\ exec'.code = exec.code /\ exec'.passed = exec.passed
    BY <2>0 DEF ExecType
  <2>4. CommandInv'
    BY <2>0, <2>3 DEF CommandInv
  <2>5. wait = "none" /\ phase # "waiting"
    BY <1>w, <2>0 DEF Waiting
  <2>6. CountInv' /\ HeldInv'
    BY <2>0, <2>5 DEF CountInv, HeldInv, TrueOf, Printed
  <2>7. StrategyInv' /\ AskedInv' /\ EndInv'
    BY <2>0, <2>5 DEF StrategyInv, AskedInv, EndInv
  <2> QED BY <2>1, <2>2, <2>3, <2>4, <2>6, <2>7
<1>3. CASE NextPhase
  <2>0. /\ UNCHANGED <<wos, asked, held, wait, log, box, hint, command, exec>>
        /\ exec.at = "none" /\ phase \in {"before", "after"}
        /\ \/ phase' = "waiting" /\ conds' = asked /\ why' = why
           \/ phase = "after" /\ phase' = "ready" /\ UNCHANGED <<conds, why>>
           \/ phase' = "failed" /\ why' = "state" /\ conds' = conds
    BY <1>3 DEF NextPhase, execOnly, Fail
  <2>1. BoxType' /\ BoxInv' /\ LogsType' /\ CommandType' /\ ExecType' /\ CommandInv'
    BY <2>0 DEF BoxType, BoxInv, LogsType, CommandType, ExecType, CommandInv
  <2>2. SeqType'
    BY <2>0 DEF SeqType
  <2>5. wait = "none"
    BY <1>w, <2>0 DEF Waiting
  <2>6. CountInv' /\ HeldInv'
    BY <2>0, <2>5 DEF CountInv, HeldInv, TrueOf, Printed
  <2>7. StrategyInv' /\ EndInv'
    BY <2>0, <2>5 DEF StrategyInv, EndInv
  <2>8. AskedInv'
    BY <2>0 DEF AskedInv
  <2> QED BY <2>1, <2>2, <2>6, <2>7, <2>8
<1>4. CASE StartupTimeout
  <2>0. /\ UNCHANGED <<wos, asked, held, box, hint, command, exec>>
        /\ phase' = "failed" /\ why' = "StartupTimeout"
        /\ conds' = <<>> /\ wait' = "none" /\ log' = NoLog
    BY <1>4 DEF StartupTimeout, waitOnly, envVars, Fail
  <2>1. BoxType' /\ BoxInv' /\ CommandType' /\ ExecType' /\ CommandInv'
    BY <2>0 DEF BoxType, BoxInv, CommandType, ExecType, CommandInv
  <2>2. SeqType' /\ HeldInv'
    BY <2>0 DEF SeqType, HeldInv, TrueOf, Printed
  <2>3. LogsType' /\ CountInv'
    BY <2>0, NoRound
  <2>4. StrategyInv' /\ EndInv' /\ AskedInv'
    BY <2>0 DEF StrategyInv, EndInv, AskedInv
  <2> QED BY <2>1, <2>2, <2>3, <2>4
<1> QED BY <1>1, <1>2, <1>3, <1>4

(* So every step keeps it. *)
LEMMA NextReadyInv == ReadyInv /\ [WaitNext]_waitVars => ReadyInv'
<1> SUFFICES ASSUME ReadyInv, [WaitNext]_waitVars PROVE ReadyInv'
  OBVIOUS
<1>1. CASE WaitNext
  BY <1>1, ContainerInv, StrategyStep, ExecStep, SequenceStep
    DEF WaitNext, Sequence
<1>2. CASE UNCHANGED waitVars
  <2>1. UNCHANGED <<wos, phase, why, asked, conds, held, wait, log, exec, box, hint, command>>
    BY <1>2 DEF waitVars
  <2>2. BoxType' /\ BoxInv' /\ LogsType' /\ CommandType' /\ ExecType' /\ CommandInv' /\ SeqType'
    BY <2>1
      DEF ReadyInv, BoxType, BoxInv, LogsType, CommandType, ExecType,
          CommandInv, SeqType
  <2>3. StrategyInv' /\ CountInv' /\ AskedInv' /\ HeldInv' /\ EndInv'
    BY <2>1
      DEF ReadyInv, StrategyInv, CountInv, AskedInv, HeldInv, EndInv, Waiting,
          Cond, TrueOf, Printed
  <2> QED BY <2>2, <2>3 DEF ReadyInv
<1> QED BY <1>1, <1>2

(* start and exec return Ready only when every condition they were given,  *)
(* in whatever order and number, was met by the container, and fail with   *)
(* EndOfStream only when the log did end without the matches               *)
(* (wait_until_ready of the strategies, block_until_ready,                 *)
(* wait_cmd_ready). For any sequences of conditions.                       *)
THEOREM ReadyMeansReady == WaitSpec => []ReadySound
<1>1. ReadyInv => ReadySound
  BY DEF ReadyInv, ReadySound, HeldInv, AskedInv, CommandInv, EndInv
<1> QED BY <1>1, InitReadyInv, NextReadyInv, PTL DEF WaitSpec
------------------------------------------------------------------------------
(* The sums of a sequence can be computed from the first one up. *)
LEMMA SumsExist ==
  ASSUME NEW s, NEW m \in Nat
  PROVE  \E g : g = [i \in 0..m |-> IF i = 0 THEN 0 ELSE g[i - 1] + s[i]]
<1> DEFINE T(g, i) == IF i = 0 THEN 0 ELSE g[i - 1] + s[i]
           S == {x \in 0..m : \E g : g = [i \in 0..x |-> T(g, i)]}
<1>1. 0 \in S
  <2> DEFINE g == [i \in 0..0 |-> 0]
  <2>1. g = [i \in 0..0 |-> T(g, i)]
    OBVIOUS
  <2>2. 0 \in 0..m
    OBVIOUS
  <2> HIDE DEF g
  <2> QED  BY <2>1, <2>2
<1>2. ASSUME NEW x \in 0..m, x # m, x \in S PROVE x + 1 \in S
  <2>1. PICK h : h = [i \in 0..x |-> T(h, i)]
    BY <1>2
  <2> DEFINE g == [i \in 0 .. x + 1 |-> IF i = x + 1 THEN h[x] + s[x + 1] ELSE h[i]]
  <2>2. ASSUME NEW i \in 0 .. x + 1 PROVE g[i] = T(g, i)
    <3>1. CASE i = x + 1
      <4>1. i # 0 /\ i - 1 = x /\ x \in 0 .. x + 1 /\ x # x + 1
        BY <3>1
      <4>2. g[x] = h[x]
        BY <4>1
      <4> QED  BY <3>1, <4>1, <4>2
    <3>2. CASE i # x + 1 /\ i # 0
      <4>1. i \in 0..x /\ i - 1 \in 0 .. x + 1 /\ i - 1 # x + 1 /\ i - 1 \in 0..x
        BY <3>2
      <4>2. g[i] = h[i] /\ g[i - 1] = h[i - 1]
        BY <4>1
      <4>3. h[i] = T(h, i)
        BY <2>1, <4>1
      <4> QED  BY <3>2, <4>2, <4>3
    <3>3. CASE i # x + 1 /\ i = 0
      <4>1. g[0] = h[0] /\ h[0] = T(h, 0)
        BY <2>1, <3>3
      <4> QED  BY <3>3, <4>1
    <3> QED  BY <3>1, <3>2, <3>3
  <2>3. g = [i \in 0 .. x + 1 |-> T(g, i)]
    BY <2>2
  <2>4. x + 1 \in 0..m
    BY <1>2
  <2> HIDE DEF g
  <2> QED  BY <2>3, <2>4
<1>3. 0..m \subseteq S
  <2> HIDE DEF S
  <2> QED  BY <1>1, <1>2, Upwards
<1>4. m \in S
  BY <1>3
<1> QED  BY <1>4

(* So the sums are what their definition says. *)
LEMMA SumUnfolds ==
  ASSUME NEW s, Len(s) \in Nat
  PROVE  /\ SumTo(s)[0] = 0
         /\ \A i \in 1..Len(s) : SumTo(s)[i] = SumTo(s)[i - 1] + s[i]
<1>1. SumTo(s) = [i \in 0..Len(s) |-> IF i = 0 THEN 0 ELSE SumTo(s)[i - 1] + s[i]]
  BY SumsExist DEF SumTo
<1> QED  BY <1>1

(* They are numbers, and grow. *)
LEMMA SumGrows ==
  ASSUME NEW s \in Seq(Nat)
  PROVE  /\ \A i \in 0..Len(s) : SumTo(s)[i] \in Nat /\ SumTo(s)[i] <= Total(s)
         /\ \A i \in 1..Len(s) : s[i] <= SumTo(s)[i]
<1> DEFINE n == Len(s)
<1>1. n \in Nat /\ \A i \in 1..n : s[i] \in Nat
  OBVIOUS
<1>2. SumTo(s)[0] = 0 /\ \A i \in 1..n : SumTo(s)[i] = SumTo(s)[i - 1] + s[i]
  BY <1>1, SumUnfolds
<1> HIDE DEF n
<1>3. \A i \in 0..n : SumTo(s)[i] \in Nat
  <2> DEFINE S == {x \in 0..n : SumTo(s)[x] \in Nat}
  <2>1. 0 \in S
    BY <1>1, <1>2
  <2>2. ASSUME NEW x \in 0..n, x # n, x \in S PROVE x + 1 \in S
    <3>1. x + 1 \in 1..n /\ (x + 1) - 1 = x
      BY <1>1, <2>2
    <3>2. SumTo(s)[x + 1] = SumTo(s)[x] + s[x + 1]
      BY <1>2, <3>1
    <3> QED  BY <1>1, <2>2, <3>1, <3>2
  <2> QED
    <3> HIDE DEF S
    <3>1. 0..n \subseteq S
      BY <1>1, <2>1, <2>2, Upwards
    <3> QED  BY <3>1 DEF S
<1>4. \A i \in 1..n : s[i] <= SumTo(s)[i]
  <2> SUFFICES ASSUME NEW i \in 1..n PROVE s[i] <= SumTo(s)[i]
    OBVIOUS
  <2>1. i - 1 \in 0..n
    BY <1>1
  <2>2. SumTo(s)[i - 1] \in Nat /\ s[i] \in Nat /\ SumTo(s)[i] = SumTo(s)[i - 1] + s[i]
    BY <1>1, <1>2, <1>3, <2>1
  <2> QED  BY <2>2
<1>5. \A i \in 0..n : SumTo(s)[i] <= SumTo(s)[n]
  <2> DEFINE S == {x \in 0..n : SumTo(s)[x] <= SumTo(s)[n]}
  <2>1. ASSUME NEW x \in 0..n, \A y \in x + 1 .. n : y \in S PROVE x \in S
    <3>1. CASE x = n
      <4>1. SumTo(s)[n] \in Nat
        BY <1>1, <1>3
      <4> QED  BY <3>1, <4>1
    <3>2. CASE x # n
      <4>1. x + 1 \in 1..n /\ x + 1 \in 0..n /\ (x + 1) - 1 = x /\ x + 1 \in x + 1 .. n
            /\ n \in 0..n
        BY <1>1, <3>2
      <4>2. /\ SumTo(s)[x + 1] = SumTo(s)[x] + s[x + 1] /\ s[x + 1] \in Nat
            /\ SumTo(s)[x] \in Nat /\ SumTo(s)[x + 1] \in Nat /\ SumTo(s)[n] \in Nat
        BY <1>1, <1>2, <1>3, <4>1
      <4>3. SumTo(s)[x + 1] <= SumTo(s)[n]
        BY <2>1, <4>1
      <4> QED  BY <4>2, <4>3
    <3> QED  BY <3>1, <3>2
  <2> QED
    <3> HIDE DEF S
    <3>1. 0..n \subseteq S
      BY <1>1, <2>1, Downwards
    <3> QED  BY <3>1 DEF S
<1> QED  BY <1>3, <1>4, <1>5 DEF n, Total

(* The sum of a slice. *)
LEMMA SumOfSlice ==
  ASSUME NEW s \in Seq(Nat), NEW a \in 0..Len(s), NEW b \in a..Len(s)
  PROVE  Total(SubSeq(s, a + 1, b)) = SumTo(s)[b] - SumTo(s)[a]
<1> DEFINE t == SubSeq(s, a + 1, b)
           n == b - a
<1>1. /\ t \in Seq(Nat) /\ Len(t) = n /\ n \in Nat
      /\ \A i \in 1..n : t[i] = s[a + i]
  OBVIOUS
<1>2. SumTo(t)[0] = 0 /\ \A i \in 1..n : SumTo(t)[i] = SumTo(t)[i - 1] + t[i]
  <2> HIDE DEF t
  <2> QED  BY <1>1, SumUnfolds
<1>3. \A i \in 1..Len(s) : SumTo(s)[i] = SumTo(s)[i - 1] + s[i]
  BY SumUnfolds
<1>4. \A i \in 0..Len(s) : SumTo(s)[i] \in Nat
  BY SumGrows
<1>5. \A i \in 1..Len(s) : s[i] \in Nat
  OBVIOUS
<1>6. Len(s) \in Nat /\ a \in Nat /\ b \in Nat /\ a <= b /\ b <= Len(s)
  OBVIOUS
<1> HIDE DEF t
<1> DEFINE S == {x \in 0..n : SumTo(t)[x] = SumTo(s)[a + x] - SumTo(s)[a]}
<1>7. 0 \in S
  BY <1>1, <1>2, <1>4, <1>6
<1>8. ASSUME NEW x \in 0..n, x # n, x \in S PROVE x + 1 \in S
  <2>1. /\ x + 1 \in 1..n /\ (x + 1) - 1 = x /\ a + x + 1 \in 1..Len(s)
        /\ (a + x + 1) - 1 = a + x /\ a + x \in 0..Len(s) /\ a \in 0..Len(s)
        /\ a + (x + 1) = a + x + 1
    BY <1>6, <1>8
  <2>2. SumTo(t)[x + 1] = SumTo(t)[x] + s[a + x + 1]
    BY <1>1, <1>2, <2>1
  <2>3. SumTo(s)[a + x + 1] = SumTo(s)[a + x] + s[a + x + 1]
    BY <1>3, <2>1
  <2>4. /\ SumTo(s)[a + x] \in Nat /\ SumTo(s)[a] \in Nat /\ s[a + x + 1] \in Nat
        /\ SumTo(t)[x] = SumTo(s)[a + x] - SumTo(s)[a]
    BY <1>4, <1>5, <1>8, <2>1
  <2>5. SumTo(t)[x + 1] = SumTo(s)[a + x + 1] - SumTo(s)[a]
    BY <2>2, <2>3, <2>4
  <2> QED  BY <1>8, <2>1, <2>5
<1>9. n \in S
  <2> HIDE DEF S
  <2>1. 0..n \subseteq S
    BY <1>1, <1>7, <1>8, Upwards
  <2> QED  BY <1>1, <2>1
<1> QED  BY <1>1, <1>6, <1>9 DEF Total, t

------------------------------------------------------------------------------
(* Numbers of whole blocks. *)
Blocks == {n \in Nat : n % BLOCK_SIZE = 0}

(* Remainders. *)
LEMMA ModOfProduct ==
  ASSUME NEW B \in Nat, B # 0, NEW k \in Nat
  PROVE  (B * k) % B = 0
OBVIOUS

(* A multiple of the block size. *)
LEMMA Quotient ==
  ASSUME NEW B \in Nat, B # 0, NEW a \in Nat, a % B = 0
  PROVE  \E k \in Nat : a = B * k
OBVIOUS

(* Two multiples make a multiple. *)
LEMMA ModOfSum ==
  ASSUME NEW B \in Nat, B # 0, NEW a \in Nat, NEW b \in Nat, a % B = 0, b % B = 0
  PROVE  (a + b) % B = 0
<1>1. PICK k \in Nat : a = B * k
  BY Quotient
<1>2. PICK l \in Nat : b = B * l
  BY Quotient
<1>3. a + b = B * (k + l) /\ k + l \in Nat
  BY <1>1, <1>2
<1> QED  BY <1>3, ModOfProduct

(* Padding fills up a block. *)
LEMMA ModOfPadded ==
  ASSUME NEW B \in Nat, B # 0, NEW n \in Nat
  PROVE  (n + ((B - (n % B)) % B)) % B = 0
OBVIOUS

(* Whole blocks in a row are whole blocks. *)
LEMMA BlocksAdd ==
  ASSUME NEW a \in Blocks, NEW b \in Blocks PROVE a + b \in Blocks
<1>1. BLOCK_SIZE \in Nat /\ BLOCK_SIZE # 0
  BY CopyAssumption
<1>2. a \in Nat /\ b \in Nat /\ a % BLOCK_SIZE = 0 /\ b % BLOCK_SIZE = 0
  BY DEF Blocks
<1>3. (a + b) % BLOCK_SIZE = 0
  BY <1>1, <1>2, ModOfSum
<1>4. a + b \in Nat
  BY <1>2
<1> QED  BY <1>3, <1>4 DEF Blocks

(* append_file pads to whole blocks, behind the data. *)
LEMMA EntryInBlocks ==
  ASSUME NEW n \in Nat PROVE Entry(n) \in Blocks /\ n <= Entry(n)
<1> DEFINE B == BLOCK_SIZE
           pad == (B - (n % B)) % B
<1>1. B \in Nat /\ B # 0
  BY CopyAssumption
<1>2. pad \in Nat
  BY <1>1
<1>3. n + pad \in Blocks
  <2>1. (n + pad) % B = 0
    BY <1>1, ModOfPadded
  <2> HIDE DEF pad
  <2>2. n + pad \in Nat
    BY <1>2
  <2> QED  BY <2>1, <2>2 DEF Blocks
<1>4. B \in Blocks
  <2>1. B * 1 = B
    BY <1>1
  <2> QED  BY <1>1, <2>1, ModOfProduct DEF Blocks
<1>5. Entry(n) = B + (n + pad)
  <2> HIDE DEF pad
  <2>1. Entry(n) = B + n + pad
    BY DEF Entry, pad
  <2> QED  BY <1>1, <1>2, <2>1
<1> HIDE DEF pad, B
<1>6. Entry(n) \in Blocks
  BY <1>3, <1>4, <1>5, BlocksAdd
<1> QED  BY <1>1, <1>2, <1>5, <1>6

(* A sum of whole blocks. *)
LEMMA SumInBlocks ==
  ASSUME NEW s \in Seq(Nat), \A i \in 1..Len(s) : s[i] \in Blocks
  PROVE  Total(s) \in Blocks
<1> DEFINE n == Len(s)
           S == {x \in 0..n : SumTo(s)[x] \in Blocks}
<1>1. n \in Nat
  OBVIOUS
<1>2. SumTo(s)[0] = 0 /\ \A i \in 1..n : SumTo(s)[i] = SumTo(s)[i - 1] + s[i]
  BY SumUnfolds
<1>3. 0 \in S
  <2>1. 0 \in Blocks
    BY CopyAssumption DEF Blocks
  <2> QED  BY <1>1, <1>2, <2>1
<1>4. ASSUME NEW x \in 0..n, x # n, x \in S PROVE x + 1 \in S
  <2>1. x + 1 \in 1..n /\ (x + 1) - 1 = x /\ x + 1 \in 0..n
    BY <1>1, <1>4
  <2>2. SumTo(s)[x + 1] = SumTo(s)[x] + s[x + 1]
    BY <1>2, <2>1
  <2>3. s[x + 1] \in Blocks /\ SumTo(s)[x] \in Blocks
    BY <1>4, <2>1
  <2> QED  BY <2>1, <2>2, <2>3, BlocksAdd
<1>5. 0..n \subseteq S
  <2> HIDE DEF S, n
  <2> QED  BY <1>1, <1>3, <1>4, Upwards
<1>6. n \in 0..n
  BY <1>1
<1> QED  BY <1>5, <1>6 DEF Total

(* What the builder holds is whole blocks, and each file is in it.         *)
LEMMA BufferedBlocks ==
  ASSUME NEW src \in Sources, NEW sizes \in Seq(Nat)
  PROVE  /\ Buffered(src, sizes) \in Blocks
         /\ \A i \in DOMAIN sizes : sizes[i] <= Buffered(src, sizes)
<1> DEFINE e == [i \in DOMAIN sizes |-> Entry(sizes[i])]
           h == Headers(src)
<1>1. /\ Len(sizes) \in Nat /\ DOMAIN sizes = 1..Len(sizes)
      /\ \A i \in DOMAIN sizes : sizes[i] \in Nat
  OBVIOUS
<1>2. \A i \in DOMAIN sizes : Entry(sizes[i]) \in Blocks /\ sizes[i] <= Entry(sizes[i])
  BY <1>1, EntryInBlocks
<1>3. e \in Seq(Nat) /\ Len(e) = Len(sizes) /\ \A i \in 1..Len(e) : e[i] = Entry(sizes[i])
  <2>1. e \in [1..Len(sizes) -> Nat]
    BY <1>1, <1>2 DEF Blocks
  <2> QED  BY <1>1, <2>1
<1> HIDE DEF e
<1>4. Total(e) \in Blocks
  BY <1>1, <1>2, <1>3, SumInBlocks
<1>5. h \in Blocks
  <2> DEFINE dir == IF src.kind = "dir" THEN 1 ELSE 0
             k == Len(src.target) - 1 + dir
  <2>1. src.target \in Seq(Nat \ {0}) /\ src.target # <<>>
    BY CopyAssumption DEF Sources
  <2>2. k \in Nat
    <3>1. Len(src.target) - 1 \in Nat
      BY <2>1
    <3>2. dir \in {0, 1}
      OBVIOUS
    <3> HIDE DEF dir
    <3> QED  BY <3>1, <3>2
  <2>3. h = BLOCK_SIZE * k
    BY DEF Headers
  <2> HIDE DEF k, h
  <2>4. h \in Nat /\ h % BLOCK_SIZE = 0
    BY <2>2, <2>3, CopyAssumption, ModOfProduct
  <2> QED  BY <2>4 DEF Blocks
<1> HIDE DEF h
<1>6. Buffered(src, sizes) = h + Total(e)
  BY DEF Buffered, e, h
<1>7. ASSUME NEW i \in DOMAIN sizes PROVE sizes[i] <= Buffered(src, sizes)
  <2>1. i \in 1..Len(e) /\ i \in 0..Len(e)
    BY <1>1, <1>3
  <2>2. e[i] <= SumTo(e)[i] /\ SumTo(e)[i] <= Total(e) /\ SumTo(e)[i] \in Nat
    BY <1>3, <2>1, SumGrows
  <2>3. sizes[i] \in Nat /\ e[i] \in Nat /\ sizes[i] <= e[i]
    BY <1>1, <1>2, <1>3, <2>1
  <2>4. h \in Nat /\ Total(e) \in Nat
    BY <1>4, <1>5 DEF Blocks
  <2> QED  BY <1>6, <2>2, <2>3, <2>4
<1> QED  BY <1>4, <1>5, <1>6, <1>7, BlocksAdd
------------------------------------------------------------------------------
(* Lengths of components. *)
Positive == Nat \ {0}

(* What split_ustar_path may do: prefix and name at the i-th slash.        *)
Prefix(path, i) == PathLen(SubSeq(path, 1, i), 0)
Name(path, slash, i) == PathLen(path, slash) - Prefix(path, i) - 1
Cuts(path, slash) ==
  {i \in 1 .. Len(path) - 1 :
     Name(path, slash, i) \in 1..NAME_MAX /\ Prefix(path, i) \in 1..PREFIX_LEN}

(* split_ustar_path by its cuts. *)
LEMMA SplitIs ==
  ASSUME NEW path, NEW slash, PathLen(path, slash) \in Int
  PROVE  SplitUstarPath(path, slash) =
           IF PathLen(path, slash) <= NAME_MAX
           THEN [fits |-> TRUE, prefix |-> <<>>, name |-> path]
           ELSE IF PathLen(path, slash) > NAME_MAX /\ Cuts(path, slash) # {}
           THEN [fits |-> TRUE, prefix |-> SubSeq(path, 1, Min(Cuts(path, slash))),
                 name |-> SubSeq(path, Min(Cuts(path, slash)) + 1, Len(path))]
           ELSE [fits |-> FALSE, prefix |-> <<>>, name |-> <<>>]
<1> USE DEF SplitUstarPath, Cuts, Name, Prefix
<1>1. CASE PathLen(path, slash) <= NAME_MAX /\ ~(PathLen(path, slash) > NAME_MAX)
  BY <1>1
<1>2. CASE PathLen(path, slash) > NAME_MAX /\ Cuts(path, slash) # {}
           /\ ~(PathLen(path, slash) <= NAME_MAX)
  BY <1>2
<1>3. CASE PathLen(path, slash) > NAME_MAX /\ Cuts(path, slash) = {}
           /\ ~(PathLen(path, slash) <= NAME_MAX)
  BY <1>3
<1>4. PathLen(path, slash) > NAME_MAX <=> ~(PathLen(path, slash) <= NAME_MAX)
  BY CopyAssumption
<1> QED  BY <1>1, <1>2, <1>3, <1>4

(* The lengths at a cut: the name without its slash is what is behind it,  *)
(* and is not empty.                                                       *)
LEMMA CutLengths ==
  ASSUME NEW path \in Seq(Positive), NEW slash \in {0, 1}, NEW i \in 1 .. Len(path) - 1
  PROVE  /\ PathLen(path, slash) = PathLen(path, 0) + slash /\ PathLen(path, 0) \in Nat
         /\ Prefix(path, i) \in Nat
         /\ Name(path, slash, i) = Name(path, 0, i) + slash
         /\ Name(path, 0, i) = PathLen(SubSeq(path, i + 1, Len(path)), 0)
         /\ Name(path, 0, i) \in Positive
<1> DEFINE n == Len(path)
           T == Total(path)
           p == SumTo(path)[i]
<1>1. /\ n \in Nat /\ i \in Nat /\ 1 <= i /\ i < n /\ path \in Seq(Nat)
      /\ \A j \in 1..n : path[j] \in Nat /\ path[j] # 0
  BY DEF Positive
<1>2. T \in Nat /\ p \in Nat /\ p <= T
  <2>1. i \in 0..n /\ n \in 0..n
    BY <1>1
  <2> QED  BY <1>1, <2>1, SumGrows DEF Total
<1>3. Total(SubSeq(path, 1, i)) = p /\ Len(SubSeq(path, 1, i)) = i
  <2>1. 0 \in 0..Len(path) /\ i \in 0..Len(path) /\ 0 + 1 = 1
    BY <1>1
  <2>2. Total(SubSeq(path, 0 + 1, i)) = SumTo(path)[i] - SumTo(path)[0]
    BY <1>1, <2>1, SumOfSlice
  <2>3. SumTo(path)[0] = 0
    BY <1>1, SumUnfolds
  <2>4. Len(SubSeq(path, 1, i)) = i
    BY <1>1
  <2> QED  BY <1>2, <2>1, <2>2, <2>3, <2>4
<1>4. /\ Total(SubSeq(path, i + 1, n)) = T - p
      /\ Len(SubSeq(path, i + 1, n)) = n - i
  <2>1. i \in 0..Len(path) /\ Len(path) \in i..Len(path)
    BY <1>1
  <2>2. Total(SubSeq(path, i + 1, n)) = SumTo(path)[n] - SumTo(path)[i]
    BY <1>1, <2>1, SumOfSlice
  <2>3. Len(SubSeq(path, i + 1, n)) = n - i
    BY <1>1
  <2> QED  BY <2>2, <2>3 DEF Total
<1>5. (n - i = 1) => T - p > 0
  <2> SUFFICES ASSUME n - i = 1 PROVE T - p > 0
    OBVIOUS
  <2>1. n - 1 = i /\ n \in 1..n
    BY <1>1
  <2>2. SumTo(path)[n] = SumTo(path)[n - 1] + path[n]
    BY <1>1, <2>1, SumUnfolds
  <2>3. T = p + path[n] /\ path[n] \in Nat /\ path[n] # 0
    BY <1>1, <2>1, <2>2 DEF Total
  <2> HIDE DEF T, p
  <2> QED  BY <1>2, <2>3
<1>6. /\ PathLen(path, slash) = T + n - 1 + slash /\ PathLen(path, 0) = T + n - 1 + 0
      /\ Prefix(path, i) = p + i - 1 + 0
      /\ PathLen(SubSeq(path, i + 1, n), 0) = (T - p) + (n - i) - 1 + 0
  BY <1>3, <1>4 DEF PathLen, Prefix
<1> HIDE DEF T, p, n
<1>7. /\ Name(path, slash, i) = (T + n - 1 + slash) - (p + i - 1 + 0) - 1
      /\ Name(path, 0, i) = (T + n - 1 + 0) - (p + i - 1 + 0) - 1
  BY <1>6 DEF Name
<1>8. /\ PathLen(path, slash) = PathLen(path, 0) + slash /\ PathLen(path, 0) \in Nat
      /\ Prefix(path, i) \in Nat
      /\ Name(path, slash, i) = Name(path, 0, i) + slash
      /\ Name(path, 0, i) = PathLen(SubSeq(path, i + 1, n), 0)
      /\ Name(path, 0, i) \in Nat /\ Name(path, 0, i) > 0
  <2>1. Name(path, 0, i) = (T - p) + (n - i) - 1
    BY <1>1, <1>2, <1>7
  <2>2. Name(path, 0, i) \in Nat /\ Name(path, 0, i) > 0
    <3> DEFINE d == T - p
               e == n - i
    <3>1. d \in Nat /\ e \in Nat /\ e >= 1 /\ (e = 1 => d > 0)
      BY <1>1, <1>2, <1>5
    <3>2. Name(path, 0, i) = d + e - 1
      BY <2>1
    <3> HIDE DEF d, e
    <3> QED  BY <3>1, <3>2
  <2>3. Name(path, slash, i) = Name(path, 0, i) + slash
    BY <1>1, <1>2, <1>7
  <2>4. PathLen(path, slash) = PathLen(path, 0) + slash /\ PathLen(path, 0) \in Nat
    BY <1>1, <1>2, <1>6
  <2>5. Prefix(path, i) \in Nat
    BY <1>1, <1>2, <1>6
  <2>6. Name(path, 0, i) = PathLen(SubSeq(path, i + 1, n), 0)
    BY <1>1, <1>2, <1>6, <2>1
  <2> QED  BY <2>2, <2>3, <2>4, <2>5, <2>6
<1> QED  BY <1>8 DEF n, Positive

(* A path whose name fits unpacks to itself, from a prefix and a name      *)
(* within their fields; a directory's slash makes no difference.           *)
LEMMA CutUnpacks ==
  ASSUME NEW path \in Seq(Positive), path # <<>>, NEW slash \in {0, 1},
         SplitUstarPath(path, slash).fits
  PROVE  LET cut == SplitUstarPath(path, 0) IN
         /\ cut.prefix \o cut.name = path /\ PathLen(cut.name, 0) <= NAME_MAX
         /\ cut.prefix = <<>> \/ PathLen(cut.prefix, 0) <= PREFIX_LEN
<1> DEFINE cut == SplitUstarPath(path, 0)
           C == Cuts(path, 0)
<1>0. /\ PathLen(path, 0) \in Int /\ PathLen(path, slash) \in Int
      /\ PathLen(path, slash) = PathLen(path, 0) + slash
  <2>1. path \in Seq(Nat) /\ Len(path) \in Nat /\ Len(path) \in 0..Len(path)
    BY DEF Positive
  <2>2. Total(path) \in Nat
    BY <2>1, SumGrows DEF Total
  <2> QED  BY <2>1, <2>2 DEF PathLen
<1>1. CASE PathLen(path, 0) <= NAME_MAX
  <2>1. cut = [fits |-> TRUE, prefix |-> <<>>, name |-> path]
    BY <1>0, <1>1, SplitIs
  <2>2. cut.prefix = <<>> /\ cut.name = path
    BY <2>1
  <2>3. <<>> \o path = path
    OBVIOUS
  <2> HIDE DEF cut
  <2>4. /\ cut.prefix \o cut.name = path /\ PathLen(cut.name, 0) <= NAME_MAX
        /\ cut.prefix = <<>> \/ PathLen(cut.prefix, 0) <= PREFIX_LEN
    BY <1>1, <2>2, <2>3
  <2> QED  BY <2>4 DEF cut
<1>2. CASE ~(PathLen(path, 0) <= NAME_MAX)
  <2>1. ~(PathLen(path, slash) <= NAME_MAX)
    BY <1>0, <1>2, CopyAssumption
  <2>2. Cuts(path, slash) # {}
    <3>1. SUFFICES ASSUME Cuts(path, slash) = {} PROVE FALSE
      OBVIOUS
    <3>2. SplitUstarPath(path, slash) = [fits |-> FALSE, prefix |-> <<>>, name |-> <<>>]
      BY <1>0, <2>1, <3>1, SplitIs
    <3> QED  BY <3>2
  <2>3. PICK i \in Cuts(path, slash) : TRUE
    BY <2>2
  <2>4. i \in 1 .. Len(path) - 1 /\ Name(path, slash, i) \in 1..NAME_MAX
        /\ Prefix(path, i) \in 1..PREFIX_LEN
    BY DEF Cuts
  <2>5. Name(path, 0, i) \in 1..NAME_MAX
    <3>1. /\ Name(path, slash, i) = Name(path, 0, i) + slash
          /\ Name(path, 0, i) \in Nat /\ Name(path, 0, i) # 0
      BY <2>4, CutLengths DEF Positive
    <3> QED  BY <2>4, <3>1, CopyAssumption
  <2>6. i \in C
    BY <2>4, <2>5 DEF Cuts
  <2>7. Min(C) \in C
    <3>1. C \subseteq Nat
      BY DEF Cuts
    <3> HIDE DEF C
    <3>2. \E x \in C : \A y \in C : x <= y
      BY <2>6, <3>1, Least
    <3> QED  BY <3>2 DEF Min
  <2> DEFINE k == Min(C)
  <2>8. cut = [fits |-> TRUE, prefix |-> SubSeq(path, 1, k),
               name |-> SubSeq(path, k + 1, Len(path))]
    <3>1. PathLen(path, 0) > NAME_MAX /\ C # {}
      BY <1>0, <1>2, <2>6, CopyAssumption
    <3> QED  BY <1>0, <1>2, <3>1, SplitIs
  <2>9. cut.prefix = SubSeq(path, 1, k) /\ cut.name = SubSeq(path, k + 1, Len(path))
    BY <2>8
  <2>10. k \in 1 .. Len(path) - 1 /\ Name(path, 0, k) \in 1..NAME_MAX
         /\ Prefix(path, k) \in 1..PREFIX_LEN
    BY <2>7 DEF Cuts
  <2> HIDE DEF k, cut, C
  <2>11. PathLen(cut.name, 0) <= NAME_MAX
    <3>1. Name(path, 0, k) = PathLen(SubSeq(path, k + 1, Len(path)), 0)
      BY <2>10, CutLengths
    <3> QED  BY <2>9, <2>10, <3>1, CopyAssumption
  <2>12. PathLen(cut.prefix, 0) <= PREFIX_LEN
    BY <2>9, <2>10, CopyAssumption DEF Prefix
  <2>13. cut.prefix \o cut.name = path
    <3>1. SubSeq(path, 1, k) \o SubSeq(path, k + 1, Len(path)) = path
      BY <2>10
    <3> QED  BY <2>9, <3>1
  <2> QED  BY <2>11, <2>12, <2>13 DEF cut
<1> QED  BY <1>1, <1>2
------------------------------------------------------------------------------
(* What is said of a source i whose files are in the container, or in the  *)
(* archive for it, with the sizes p.                                       *)
Whole(i, p) ==
  /\ p \in Seq(Nat) /\ Len(p) = Len(sources[i].sizes)
  /\ \A j \in DOMAIN p : p[j] >= sources[i].sizes[j]
ShortData(i, p) == sources[i].kind = "data" /\ p[1] < sources[i].sizes[1]
OnLinux(i, p) ==
  /\ Whole(i, p) /\ \A j \in DOMAIN p : p[j] <= LIMIT
  /\ sources[i].flaw = "none"
  /\ LET cut == SplitUstarPath(sources[i].target, 0) IN
     /\ cut.prefix \o cut.name = sources[i].target /\ PathLen(cut.name, 0) <= NAME_MAX
     /\ cut.prefix = <<>> \/ PathLen(cut.prefix, 0) <= PREFIX_LEN
OnMac(i, p) ==
  /\ p \in Seq(Nat) /\ Len(p) = Len(sources[i].sizes)
  /\ Whole(i, p) \/ (Len(p) = 1 /\ ShortData(i, p))
Arrived(i, p) == (cos = "linux" => OnLinux(i, p)) /\ (cos = "macos" => OnMac(i, p))

(* The temporary file of a data source. *)
TempType == [at : {"none", "opening", "there", "refused"}, bytes : Nat, guard : BOOLEAN]

(* Types, and what is said of an archive. *)
CopyType ==
  /\ cos \in {"linux", "macos"} /\ sources \in Seq(Sources) /\ next \in Nat \ {0}
  /\ cpc \in {"request", "source", "put", "open", "copy in", "chown", "copied",
              "failed", "dropped"}
  /\ archive.bytes \in Blocks /\ archive.bytes <= LIMIT
  /\ temp \in TempType

(* The sources are copied one by one. *)
CopyOrder ==
  /\ cpc = "request" => next = 1 /\ placed = <<>> /\ chowned = {}
  /\ cpc \in {"source", "put", "open", "copy in", "chown"} => next <= Len(sources)
  /\ cpc \in {"source", "put", "open", "copy in"} => Len(placed) = next - 1
  /\ cpc = "chown" => Len(placed) = next
  /\ cpc = "copied" => Len(placed) = Len(sources)
  /\ cpc = "put" => cos = "linux" /\ OnLinux(next, archive.sizes)
  /\ cpc \in {"open", "copy in", "chown"} => cos = "macos"
  /\ cpc \in {"open", "copy in"} => Source.kind = "data"
  /\ cos = "linux" /\ cpc \in {"source", "put"} => chowned = 1 .. next - 1
  /\ cos = "linux" /\ cpc = "copied" => chowned = 1..Len(sources)

(* Everything that has arrived is right. *)
CopyArrived ==
  /\ placed \in Seq(Seq(Nat)) /\ Len(placed) <= Len(sources)
  /\ \A i \in 1..Len(placed) : Arrived(i, placed[i])

(* A temporary file has its guard while it is copied; before, open() is    *)
(* under way, awaited or abandoned.                                        *)
TempOwned ==
  /\ temp.guard => temp.at = "there" /\ cpc \in {"copy in", "chown"}
  /\ temp.at # "none" => temp.guard \/ cpc \in {"open", "dropped"}

(* Who still needs a temporary file. *)
CopyTemps ==
  /\ TempOwned
  /\ outTemp => out \in {"reading", "removing", "dropped"} \/ outResult = "copy_out failed"
  /\ outTemp => cos = "macos"

(* No more of a file is in memory than it takes to refuse it. *)
BuffersBounded == \A n \in buffers : n <= LIMIT + 1

(* The inductive invariant. *)
CopyInv == CopyType /\ CopyOrder /\ CopyArrived /\ CopyTemps /\ BuffersBounded

(* Facts about sequences, and about the fields of a source. *)
LEMMA SourceAt ==
  ASSUME NEW s \in Seq(Sources), NEW i \in Nat, i # 0, i <= Len(s)
  PROVE  s[i] \in Sources
OBVIOUS

(* The length of a sequence is a number. *)
LEMMA LenNat == ASSUME NEW S, NEW s \in Seq(S) PROVE Len(s) \in Nat
OBVIOUS

(* The sequence of one number. *)
LEMMA SingleNat ==
  ASSUME NEW n \in Nat
  PROVE  <<n>> \in Seq(Nat) /\ Len(<<n>>) = 1 /\ <<n>>[1] = n /\ DOMAIN <<n>> = {1}
OBVIOUS

(* What a source is made of. *)
LEMMA SourceFields ==
  ASSUME NEW src \in Sources
  PROVE  /\ src.sizes \in Seq(Nat) /\ src.target \in Seq(Positive) /\ src.target # <<>>
         /\ src.kind # "dir" => Len(src.sizes) = 1
<1>1. /\ src.sizes \in UNION {[1..n -> Sizes] : n \in 0..2} /\ src.target \in Targets
      /\ src.kind # "dir" => Len(src.sizes) = 1
  BY DEF Sources
<1>2. PICK n \in 0..2 : src.sizes \in [1..n -> Sizes]
  BY <1>1
<1>3. src.sizes \in [1..n -> Nat]
  BY <1>2, CopyAssumption
<1>4. src.sizes \in Seq(Nat)
  BY <1>2, <1>3
<1> QED  BY <1>1, <1>4, CopyAssumption DEF Positive

(* There is no temporary file. *)
LEMMA NoTempIs ==
  NoTemp \in TempType /\ NoTemp.at = "none" /\ NoTemp.bytes = 0 /\ NoTemp.guard = FALSE
<1>1. 0 \in Nat
  OBVIOUS
<1> QED  BY <1>1, Zenon DEF NoTemp, TempType

(* The invariant holds at first. *)
LEMMA InitCopyInv == CopyInit => CopyInv
<1> SUFFICES ASSUME CopyInit PROVE CopyInv
  OBVIOUS
<1> USE DEF CopyInit
<1>1. 0 \in Blocks /\ 0 <= LIMIT
  BY CopyAssumption DEF Blocks
<1>2. CopyType
  BY <1>1, NoTempIs DEF CopyType, NoArchive
<1>3. CopyOrder /\ CopyArrived
  BY DEF CopyOrder, CopyArrived
<1>4. CopyTemps /\ BuffersBounded
  BY NoTempIs DEF CopyTemps, TempOwned, BuffersBounded
<1> QED  BY <1>2, <1>3, <1>4 DEF CopyInv

(* What is said of the sources that have arrived stays true. *)
LEMMA ArrivedStays ==
  ASSUME CopyArrived, UNCHANGED <<cos, sources, placed>>
  PROVE  CopyArrived'
BY DEF CopyArrived, Arrived, OnLinux, OnMac, Whole, ShortData

(* One more arrives. *)
LEMMA OneMoreArrives ==
  ASSUME CopyArrived, UNCHANGED <<cos, sources>>, NEW p \in Seq(Nat),
         placed' = Append(placed, p), Len(placed) < Len(sources),
         Arrived(Len(placed) + 1, p)
  PROVE  CopyArrived' /\ Len(placed') = Len(placed) + 1
<1>1. /\ placed' \in Seq(Seq(Nat)) /\ Len(placed') = Len(placed) + 1 /\ Len(placed) \in Nat
      /\ \A i \in 1..Len(placed) : placed'[i] = placed[i]
      /\ placed'[Len(placed) + 1] = p
  BY DEF CopyArrived
<1>2. \A i, q : Arrived(i, q)' <=> Arrived(i, q)
  BY DEF Arrived, OnLinux, OnMac, Whole, ShortData
<1>3. ASSUME NEW i \in 1..Len(placed') PROVE Arrived(i, placed'[i])
  <2>1. CASE i = Len(placed) + 1
    BY <1>1, <2>1
  <2>2. CASE i # Len(placed) + 1
    <3>1. i \in 1..Len(placed)
      BY <1>1, <2>2
    <3> QED  BY <1>1, <3>1 DEF CopyArrived
  <2> QED  BY <2>1, <2>2
<1>4. Len(placed') <= Len(sources')
  BY <1>1
<1> QED  BY <1>1, <1>2, <1>3, <1>4 DEF CopyArrived

(* Files that have grown. *)
LEMMA GrownSizes ==
  ASSUME NEW sizes \in Seq(Nat), NEW grow \in Nat,
         NEW now, now = [i \in DOMAIN sizes |-> sizes[i] + grow]
  PROVE  /\ now \in Seq(Nat) /\ Len(now) = Len(sizes) /\ DOMAIN now = DOMAIN sizes
         /\ \A j \in DOMAIN now : now[j] >= sizes[j]
<1>1. DOMAIN sizes = 1..Len(sizes) /\ Len(sizes) \in Nat
      /\ \A i \in 1..Len(sizes) : sizes[i] \in Nat
  OBVIOUS
<1>2. now \in [1..Len(sizes) -> Nat]
  BY <1>1
<1>3. now \in Seq(Nat) /\ Len(now) = Len(sizes) /\ DOMAIN now = DOMAIN sizes
  BY <1>1, <1>2
<1>4. ASSUME NEW j \in DOMAIN now PROVE now[j] >= sizes[j]
  <2>1. sizes[j] \in Nat /\ now[j] = sizes[j] + grow
    BY <1>1, <1>3
  <2> QED  BY <2>1
<1> QED  BY <1>3, <1>4

(* The source that is being copied. *)
LEMMA TheSource ==
  ASSUME CopyType, next <= Len(sources)
  PROVE  Source \in Sources /\ Source = sources[next]
<1>1. sources \in Seq(Sources) /\ next \in Nat /\ next # 0
  BY DEF CopyType
<1> QED  BY <1>1, SourceAt DEF Source

(* read_file_limited reads no more than a byte over the limit. *)
LEMMA BuffersAreSmall ==
  ASSUME NEW src, NEW sizes \in Seq(Nat), NEW n \in 0..Len(sizes)
  PROVE  \A b \in BuffersOf(src, sizes, n) : b <= LIMIT + 1
<1> SUFFICES ASSUME NEW i \in 1..n PROVE ReadFileLimited(sizes[i]) <= LIMIT + 1
  BY DEF BuffersOf
<1>1. sizes[i] \in Nat /\ LIMIT \in Nat
  BY CopyAssumption
<1> QED  BY <1>1 DEF ReadFileLimited

(* BuildArchive: what fits is whole blocks within the limit, holds every   *)
(* file as large as it is by then, and unpacks to the target.              *)
LEMMA ArchiveIsRight ==
  ASSUME CopyType, next <= Len(sources), cos = "linux", NEW grow \in Nat,
         Source.kind = "data" => grow = 0,
         NEW now, now = [i \in DOMAIN Source.sizes |-> Source.sizes[i] + grow],
         Source.flaw = "none", NamesFit(Source), ArchiveFits(Source, now)
  PROVE  /\ OnLinux(next, now)
         /\ Buffered(Source, now) + 2 * BLOCK_SIZE \in Blocks
         /\ Buffered(Source, now) + 2 * BLOCK_SIZE <= LIMIT
<1> DEFINE src == Source
           all == Buffered(src, now) + 2 * BLOCK_SIZE
<1>1. src \in Sources /\ src = sources[next]
  BY TheSource
<1>2. /\ src.sizes \in Seq(Nat) /\ src.target \in Seq(Positive) /\ src.target # <<>>
  BY <1>1, SourceFields
<1>3. /\ now \in Seq(Nat) /\ Len(now) = Len(src.sizes) /\ DOMAIN now = DOMAIN src.sizes
      /\ \A j \in DOMAIN now : now[j] >= src.sizes[j]
  BY <1>2, GrownSizes
<1>4. Buffered(src, now) \in Blocks /\ \A j \in DOMAIN now : now[j] <= Buffered(src, now)
  BY <1>1, <1>3, BufferedBlocks
<1>5. 2 * BLOCK_SIZE \in Blocks
  <2>1. BLOCK_SIZE \in Nat /\ BLOCK_SIZE # 0 /\ 2 * BLOCK_SIZE = BLOCK_SIZE * 2
    BY CopyAssumption
  <2>2. (BLOCK_SIZE * 2) % BLOCK_SIZE = 0 /\ 2 * BLOCK_SIZE \in Nat
    BY <2>1, ModOfProduct
  <2> QED  BY <2>1, <2>2 DEF Blocks
<1>6. all \in Blocks /\ all <= LIMIT
  BY <1>4, <1>5, BlocksAdd DEF ArchiveFits
<1>7. \A j \in DOMAIN now : now[j] <= LIMIT
  <2> SUFFICES ASSUME NEW j \in DOMAIN now PROVE now[j] <= LIMIT
    OBVIOUS
  <2>0. now[j] <= Buffered(src, now)
    BY <1>4, Zenon
  <2>1. now[j] \in Nat /\ now[j] <= Buffered(src, now)
    <3>1. now \in Seq(Nat)
      BY <1>3, Zenon
    <3>2. now[j] \in Nat
      BY ONLY <3>1, j \in DOMAIN now
    <3> QED  BY <2>0, <3>2, Zenon
  <2>2. Buffered(src, now) \in Nat /\ 2 * BLOCK_SIZE \in Nat /\ LIMIT \in Nat
    BY <1>4, <1>5, CopyAssumption DEF Blocks
  <2>3. Buffered(src, now) + 2 * BLOCK_SIZE <= LIMIT
    BY <1>6
  <2> QED  BY ONLY <2>1, <2>2, <2>3
<1>8. \E slash \in {0, 1} : SplitUstarPath(src.target, slash).fits
  BY DEF NamesFit
<1>9. LET cut == SplitUstarPath(src.target, 0) IN
      /\ cut.prefix \o cut.name = src.target /\ PathLen(cut.name, 0) <= NAME_MAX
      /\ cut.prefix = <<>> \/ PathLen(cut.prefix, 0) <= PREFIX_LEN
  BY <1>2, <1>8, CutUnpacks
<1>10. OnLinux(next, now)
  BY <1>1, <1>3, <1>7, <1>9 DEF OnLinux, Whole
<1> QED  BY <1>6, <1>10

(* Every step of the copying keeps the invariant. *)
LEMMA StepCopyIn ==
  ASSUME CopyInv,
         WithSource \/ StartCopy \/ BuildArchive \/ PutArchive \/ OpenCopyDataTemp
         \/ BackgroundOpen \/ GuardCopyDataTemp \/ BackgroundWrite \/ CopyIn
         \/ ChownAfterCopy \/ DropStart
  PROVE  CopyInv'
<1> USE DEF CopyInv
<1>0. TempOwned' => CopyTemps'
  <2>1. UNCHANGED <<cos, out, outTemp, outResult>>
    BY DEF WithSource, StartCopy, BuildArchive, PutArchive, OpenCopyDataTemp,
           BackgroundOpen, GuardCopyDataTemp, BackgroundWrite, CopyIn, ChownAfterCopy,
           DropStart, outVars
  <2> QED  BY <2>1 DEF CopyTemps
<1>b. BuildArchive \/ BuffersBounded'
  <2>1. BuildArchive \/ buffers' = buffers
    BY DEF WithSource, StartCopy, PutArchive, OpenCopyDataTemp, BackgroundOpen,
           GuardCopyDataTemp, BackgroundWrite, CopyIn, ChownAfterCopy, DropStart
  <2> QED  BY <2>1 DEF BuffersBounded
<1>t. temp' = temp /\ cpc \in {"request", "source", "put"} => TempOwned'
  BY DEF CopyTemps, TempOwned
<1>n. temp' = NoTemp => TempOwned'
  BY NoTempIs DEF TempOwned
<1>s. sources \in Seq(Sources) /\ Len(sources) \in Nat /\ next \in Nat /\ next # 0
  <2>1. sources \in Seq(Sources) /\ next \in Nat /\ next # 0
    BY DEF CopyType
  <2> QED  BY <2>1, LenNat
<1>1. CASE WithSource
  <2>1. PICK src \in Sources : sources' = Append(sources, src)
    BY <1>1 DEF WithSource
  <2>2. /\ UNCHANGED <<cos, next, cpc, archive, temp, placed, chowned>>
        /\ cpc = "request" /\ placed = <<>> /\ next = 1 /\ chowned = {}
    BY <1>1 DEF WithSource, CopyOrder
  <2>3. CopyType' /\ CopyOrder'
    BY <2>1, <2>2 DEF CopyType, CopyOrder
  <2>4. CopyArrived'
    BY <2>1, <2>2, <2>3 DEF CopyArrived, CopyType
  <2>5. CopyTemps' /\ BuffersBounded'
    <3>1. buffers' = buffers
      BY <1>1 DEF WithSource
    <3> QED  BY <1>0, <1>t, <2>2, <3>1 DEF BuffersBounded
  <2> QED  BY <2>3, <2>4, <2>5
<1>2. CASE StartCopy
  <2>1. /\ UNCHANGED <<cos, sources, next, archive, temp, placed, chowned>>
        /\ cpc = "request" /\ cpc' = "source" /\ sources # <<>>
        /\ placed = <<>> /\ next = 1 /\ chowned = {}
    BY <1>2 DEF StartCopy, CopyOrder
  <2>2. Len(sources) >= 1 /\ Len(placed) = 0 /\ 1 .. 1 - 1 = {}
    BY <2>1 DEF CopyType
  <2>3. CopyType' /\ CopyOrder'
    BY <2>1, <2>2 DEF CopyType, CopyOrder
  <2>4. CopyTemps' /\ BuffersBounded'
    <3>1. buffers' = buffers
      BY <1>2 DEF StartCopy
    <3> QED  BY <1>0, <1>t, <2>1, <3>1 DEF BuffersBounded
  <2> QED  BY <2>1, <2>3, <2>4, ArrivedStays
<1>3. CASE BuildArchive
  <2>1. /\ UNCHANGED <<cos, sources, next, temp, placed, chowned>>
        /\ cpc = "source" /\ cos = "linux"
    BY <1>3 DEF BuildArchive
  <2>2. CopyArrived'
    BY <2>1, ArrivedStays
  <2>3. PICK grow \in IF Source.kind = "data" THEN {0} ELSE {0} \cup Growth :
          LET now == [i \in DOMAIN Source.sizes |-> Source.sizes[i] + grow] IN
          IF /\ Source.flaw = "none" /\ NamesFit(Source)
             /\ ReadLimited(Source, now) /\ ArchiveFits(Source, now)
          THEN /\ cpc' = "put" /\ buffers' = BuffersOf(Source, now, Len(now))
               /\ archive' = [sizes |-> now, bytes |-> Buffered(Source, now) + 2 * BLOCK_SIZE]
          ELSE /\ CopyFails /\ archive' = archive
               /\ \E n \in 0..Len(now) : buffers' = BuffersOf(Source, now, n)
    BY <1>3 DEF BuildArchive
  <2> DEFINE now == [i \in DOMAIN Source.sizes |-> Source.sizes[i] + grow]
  <2>6. grow \in Nat /\ (Source.kind = "data" => grow = 0)
    BY CopyAssumption
  <2>7. next <= Len(sources)
    BY <2>1 DEF CopyOrder
  <2>8. now \in Seq(Nat)
    <3>1. Source.sizes \in Seq(Nat)
      BY <2>7, TheSource, SourceFields
    <3> QED  BY <2>6, <3>1, GrownSizes
  <2>9. BuffersBounded'
    <3> HIDE DEF now
    <3>1. Len(now) \in Nat /\ Len(now) \in 0..Len(now)
      BY <2>8
    <3>2. \E n \in 0..Len(now) : buffers' = BuffersOf(Source, now, n)
      BY <2>3, <3>1, Zenon DEF now
    <3> QED  BY <2>8, <3>2, BuffersAreSmall DEF BuffersBounded
  <2>10. CopyTemps'
    BY <1>0, <1>t, <2>1
  <2>4. CASE /\ Source.flaw = "none" /\ NamesFit(Source)
             /\ ReadLimited(Source, now) /\ ArchiveFits(Source, now)
    <3>1. cpc' = "put" /\ archive'.sizes = now
          /\ archive'.bytes = Buffered(Source, now) + 2 * BLOCK_SIZE
      BY <2>3, <2>4
    <3>3. /\ OnLinux(next, now)
          /\ Buffered(Source, now) + 2 * BLOCK_SIZE \in Blocks
          /\ Buffered(Source, now) + 2 * BLOCK_SIZE <= LIMIT
      BY <2>1, <2>4, <2>6, <2>7, ArchiveIsRight
    <3> HIDE DEF now
    <3>4. CopyType'
      BY <2>1, <3>1, <3>3 DEF CopyType
    <3>5. OnLinux(next, archive.sizes)'
      BY <2>1, <3>1, <3>3 DEF OnLinux, Whole
    <3>6. CopyOrder'
      BY <2>1, <3>1, <3>5 DEF CopyOrder
    <3> QED  BY <2>2, <2>9, <2>10, <3>4, <3>6
  <2>5. CASE ~(/\ Source.flaw = "none" /\ NamesFit(Source)
               /\ ReadLimited(Source, now) /\ ArchiveFits(Source, now))
    <3>1. cpc' = "failed" /\ archive' = archive
      BY <2>3, <2>5 DEF CopyFails
    <3>2. CopyType' /\ CopyOrder'
      BY <2>1, <3>1 DEF CopyType, CopyOrder
    <3> QED  BY <2>2, <2>9, <2>10, <3>2
  <2> QED  BY <2>4, <2>5
<1>4. CASE PutArchive
  <2>1. /\ UNCHANGED <<cos, sources, temp>> /\ cpc = "put" /\ cos = "linux"
        /\ archive' = NoArchive /\ next <= Len(sources) /\ Len(placed) = next - 1
        /\ OnLinux(next, archive.sizes) /\ chowned = 1 .. next - 1
    BY <1>4 DEF PutArchive, CopyOrder
  <2>2. archive'.bytes \in Blocks /\ archive'.bytes <= LIMIT
    BY <2>1, CopyAssumption DEF NoArchive, Blocks
  <2>3. CopyTemps' /\ BuffersBounded'
    <3>1. buffers' = buffers
      BY <1>4 DEF PutArchive
    <3> QED  BY <1>0, <1>t, <2>1, <3>1 DEF BuffersBounded
  <2>4. CASE /\ NextSource /\ placed' = Append(placed, archive.sizes)
             /\ chowned' = chowned \cup {next}
    <3>1. archive.sizes \in Seq(Nat) /\ Arrived(Len(placed) + 1, archive.sizes)
      <4>1. Len(placed) + 1 = next
        BY <1>s, <2>1
      <4> QED  BY <2>1, <4>1 DEF Arrived, OnLinux, Whole
    <3>2. CopyArrived' /\ Len(placed') = next
      BY <1>s, <2>1, <2>4, <3>1, OneMoreArrives
    <3>3. chowned' = 1..next
      BY <1>s, <2>1, <2>4
    <3>4. /\ next' = next + 1 /\ next' - 1 = next /\ next' \in Nat /\ next' # 0
          /\ cpc' = IF next = Len(sources) THEN "copied" ELSE "source"
      BY <1>s, <2>4 DEF NextSource
    <3>5. CopyType'
      BY <2>1, <2>2, <3>4 DEF CopyType
    <3>6. CopyOrder'
      <4>1. CASE next = Len(sources)
        BY <2>1, <3>2, <3>3, <3>4, <4>1 DEF CopyOrder
      <4>2. CASE next # Len(sources)
        <5>1. next' <= Len(sources') /\ cpc' = "source"
          BY <1>s, <2>1, <3>4, <4>2
        <5> QED  BY <2>1, <3>2, <3>3, <3>4, <5>1 DEF CopyOrder
      <4> QED  BY <4>1, <4>2
    <3> QED  BY <2>3, <3>2, <3>5, <3>6
  <2>5. CASE CopyFails /\ UNCHANGED <<next, placed, chowned>>
    <3>1. CopyArrived'
      BY <2>1, <2>5, ArrivedStays
    <3>2. CopyType' /\ CopyOrder'
      BY <2>1, <2>2, <2>5 DEF CopyType, CopyOrder, CopyFails
    <3> QED  BY <2>3, <3>1, <3>2
  <2> QED  BY <1>4, <2>4, <2>5 DEF PutArchive
<1>5. CASE OpenCopyDataTemp \/ BackgroundOpen \/ GuardCopyDataTemp
  <2>1. /\ UNCHANGED <<cos, sources, next, archive, placed, chowned>>
        /\ buffers' = buffers /\ Source' = Source
    BY <1>5 DEF OpenCopyDataTemp, BackgroundOpen, GuardCopyDataTemp, Source
  <2>2. CopyArrived' /\ BuffersBounded'
    BY <2>1, ArrivedStays DEF BuffersBounded
  <2>3. CASE OpenCopyDataTemp
    <3>1. /\ cpc = "source" /\ cos = "macos" /\ Source.kind = "data" /\ cpc' = "open"
          /\ temp' = [at |-> "opening", bytes |-> 0, guard |-> FALSE]
      BY <2>3 DEF OpenCopyDataTemp, NoTemp
    <3>2. temp' \in TempType /\ temp'.guard = FALSE
      <4>1. 0 \in Nat
        OBVIOUS
      <4> QED  BY <3>1, <4>1, Zenon DEF TempType
    <3>3. TempOwned'
      BY <3>1, <3>2, Zenon DEF TempOwned
    <3>4. CopyType' /\ CopyOrder'
      BY <2>1, <3>1, <3>2 DEF CopyType, CopyOrder
    <3> QED  BY <1>0, <2>2, <3>3, <3>4
  <2>4. CASE BackgroundOpen
    <3>1. temp.at = "opening" /\ cpc' = cpc /\ temp \in TempType
      BY <2>4 DEF BackgroundOpen, CopyType
    <3>2. PICK a \in {"there", "refused"} : temp' = [temp EXCEPT !.at = a]
      BY <2>4 DEF BackgroundOpen
    <3>3. temp' = [at |-> a, bytes |-> temp.bytes, guard |-> temp.guard]
      BY <3>1, <3>2 DEF TempType
    <3>4. temp.guard \in BOOLEAN /\ temp.bytes \in Nat
      BY <3>1, Zenon DEF TempType
    <3>5. temp' \in TempType /\ temp'.guard = temp.guard
      BY <3>3, <3>4, Zenon DEF TempType
    <3>6. ~temp.guard /\ cpc \in {"open", "dropped"}
      BY <3>1 DEF CopyTemps, TempOwned
    <3>7. TempOwned'
      BY <3>1, <3>5, <3>6 DEF TempOwned
    <3>8. CopyType' /\ CopyOrder'
      BY <2>1, <3>1, <3>5 DEF CopyType, CopyOrder, OnLinux, Whole
    <3> QED  BY <1>0, <2>2, <3>7, <3>8
  <2>5. CASE GuardCopyDataTemp
    <3>1. /\ cpc = "open" /\ temp \in TempType
          /\ \/ /\ temp.at = "there" /\ cpc' = "copy in"
                /\ temp' = [temp EXCEPT !.guard = TRUE]
             \/ cpc' = "failed" /\ temp' = NoTemp
      BY <2>5 DEF GuardCopyDataTemp, CopyFails, CopyType
    <3>2. CASE /\ temp.at = "there" /\ cpc' = "copy in"
               /\ temp' = [temp EXCEPT !.guard = TRUE]
      <4>1. temp' = [at |-> temp.at, bytes |-> temp.bytes, guard |-> TRUE]
        BY <3>1, <3>2 DEF TempType
      <4>2. temp.bytes \in Nat /\ temp.at \in {"none", "opening", "there", "refused"}
        BY <3>1, Zenon DEF TempType
      <4>3. temp' \in TempType /\ temp'.at = temp.at /\ temp'.guard
        BY <4>1, <4>2, Zenon DEF TempType
      <4>4. TempOwned'
        BY <3>2, <4>3 DEF TempOwned
      <4>5. CopyType' /\ CopyOrder'
        BY <2>1, <3>1, <3>2, <4>3 DEF CopyType, CopyOrder
      <4> QED  BY <1>0, <2>2, <4>4, <4>5
    <3>3. CASE cpc' = "failed" /\ temp' = NoTemp
      <4>1. CopyType' /\ CopyOrder'
        BY <2>1, <3>3, NoTempIs DEF CopyType, CopyOrder
      <4> QED  BY <1>0, <1>n, <2>2, <3>3, <4>1
    <3> QED  BY <3>1, <3>2, <3>3
  <2> QED  BY <1>5, <2>3, <2>4, <2>5
<1>6. CASE BackgroundWrite
  <2>1. /\ UNCHANGED <<cos, sources, next, cpc, archive, placed, chowned>>
        /\ temp' = [temp EXCEPT !.bytes = @ + 1] /\ buffers' = buffers
    BY <1>6 DEF BackgroundWrite
  <2>2. CopyArrived' /\ BuffersBounded'
    BY <2>1, ArrivedStays DEF BuffersBounded
  <2>3. temp \in TempType
    BY DEF CopyType
  <2>4. temp' = [at |-> temp.at, bytes |-> temp.bytes + 1, guard |-> temp.guard]
    BY <2>1, <2>3 DEF TempType
  <2>5. /\ temp.at \in {"none", "opening", "there", "refused"} /\ temp.guard \in BOOLEAN
        /\ temp.bytes \in Nat
    BY <2>3, Zenon DEF TempType
  <2>6. temp.bytes + 1 \in Nat
    BY ONLY <2>5
  <2>7. temp' \in TempType /\ temp'.at = temp.at /\ temp'.guard = temp.guard
    BY <2>4, <2>5, <2>6, Zenon DEF TempType
  <2>8. TempOwned'
    BY <2>1, <2>7 DEF CopyTemps, TempOwned
  <2>9. CopyType' /\ CopyOrder'
    BY <2>1, <2>7 DEF CopyType, CopyOrder, Source, OnLinux, Whole
  <2> QED  BY <1>0, <2>2, <2>8, <2>9
<1>7. CASE CopyIn
  <2>1. /\ UNCHANGED <<cos, sources, next, archive, chowned>> /\ cos = "macos"
        /\ cpc \in {"source", "copy in"} /\ next <= Len(sources) /\ Len(placed) = next - 1
        /\ cpc = "copy in" => Source.kind = "data"
        /\ cpc = "source" => Source.kind # "data"
    BY <1>7 DEF CopyIn, CopyOrder
  <2>b. BuffersBounded'
    <3>1. buffers' = buffers
      BY <1>7 DEF CopyIn
    <3> QED  BY <3>1 DEF BuffersBounded
  <2>2. CASE /\ cpc' = "chown" /\ temp' = temp
             /\ placed' = Append(placed, IF Source.kind = "data" THEN <<temp.bytes>>
                                         ELSE Source.sizes)
    <3> DEFINE p == IF Source.kind = "data" THEN <<temp.bytes>> ELSE Source.sizes
    <3>1. Source \in Sources /\ Source = sources[next] /\ Len(placed) + 1 = next
      <4>0. Len(placed) = next - 1
        BY <2>1, Zenon
      <4>1. Len(placed) + 1 = next
        BY ONLY <1>s, <4>0
      <4>2. sources[next] \in Sources
        BY <1>s, <2>1, SourceAt
      <4> QED  BY <4>1, <4>2 DEF Source
    <3>2. Source.sizes \in Seq(Nat) /\ (Source.kind # "dir" => Len(Source.sizes) = 1)
      BY <3>1, SourceFields
    <3>3. p \in Seq(Nat) /\ OnMac(next, p)
      <4>1. CASE Source.kind = "data"
        <5>1. temp.bytes \in Nat /\ p = <<temp.bytes>>
          BY <4>1, Zenon DEF CopyType, TempType
        <5>2. p \in Seq(Nat) /\ Len(p) = 1 /\ p[1] = temp.bytes /\ DOMAIN p = {1}
          BY <5>1, SingleNat
        <5>3. Len(Source.sizes) = 1 /\ Source.sizes[1] \in Nat
          BY <3>2, <4>1
        <5> HIDE DEF p
        <5>4. p[1] < Source.sizes[1] \/ p[1] >= Source.sizes[1]
          BY <5>1, <5>2, <5>3
        <5> QED
          BY <3>1, <4>1, <5>2, <5>3, <5>4 DEF OnMac, Whole, ShortData
      <4>2. CASE Source.kind # "data"
        <5>1. p = Source.sizes /\ \A j \in DOMAIN p : p[j] >= p[j]
          BY <3>2, <4>2
        <5> HIDE DEF p
        <5> QED  BY <3>1, <3>2, <5>1 DEF OnMac, Whole
      <4> QED  BY <4>1, <4>2
    <3> HIDE DEF p
    <3>4. /\ placed' = Append(placed, p) /\ Arrived(Len(placed) + 1, p)
          /\ Len(placed) < Len(sources)
      <4>1. placed' = Append(placed, p)
        BY <2>2 DEF p
      <4>2. Arrived(Len(placed) + 1, p)
        BY <2>1, <3>1, <3>3 DEF Arrived
      <4>3. Len(placed) < Len(sources)
        <5>1. Len(placed) = next - 1 /\ next <= Len(sources)
          BY <2>1, Zenon
        <5> QED  BY ONLY <1>s, <5>1
      <4> QED  BY <4>1, <4>2, <4>3
    <3>5. CopyArrived' /\ Len(placed') = next
      BY <2>1, <3>1, <3>3, <3>4, OneMoreArrives
    <3>6. CopyType' /\ CopyOrder'
      BY <2>1, <2>2, <3>5 DEF CopyType, CopyOrder
    <3>7. TempOwned'
      BY <2>1, <2>2 DEF CopyTemps, TempOwned
    <3> QED  BY <1>0, <2>b, <3>5, <3>6, <3>7
  <2>3. CASE CopyFails /\ temp' = NoTemp /\ placed' = placed
    <3>1. CopyArrived'
      BY <2>1, <2>3, ArrivedStays
    <3>2. CopyType' /\ CopyOrder'
      BY <2>1, <2>3, NoTempIs DEF CopyType, CopyOrder, CopyFails
    <3> QED  BY <1>0, <1>n, <2>b, <2>3, <3>1, <3>2
  <2> QED  BY <1>7, <2>2, <2>3 DEF CopyIn
<1>8. CASE ChownAfterCopy
  <2>1. /\ UNCHANGED <<cos, sources, archive, placed>> /\ cpc = "chown" /\ cos = "macos"
        /\ next <= Len(sources) /\ Len(placed) = next /\ temp' = NoTemp
        /\ next' = next + 1 /\ cpc' = IF next = Len(sources) THEN "copied" ELSE "source"
        /\ buffers' = buffers
    BY <1>8 DEF ChownAfterCopy, NextSource, CopyOrder
  <2>2. CopyArrived'
    BY <2>1, ArrivedStays
  <2>3. next' - 1 = next /\ (next # Len(sources) => next' <= Len(sources))
        /\ next' \in Nat \ {0}
    BY <1>s, <2>1
  <2>4. CopyType' /\ CopyOrder'
    BY <2>1, <2>3, NoTempIs DEF CopyType, CopyOrder
  <2>5. CopyTemps' /\ BuffersBounded'
    BY <1>0, <1>n, <2>1 DEF BuffersBounded
  <2> QED  BY <2>2, <2>4, <2>5
<1>9. CASE DropStart
  <2>1. /\ UNCHANGED <<cos, sources, next, archive, placed, chowned>>
        /\ cpc' = "dropped" /\ buffers' = buffers
        /\ temp' = NoTemp \/ (~temp.guard /\ temp' = temp)
    BY <1>9 DEF DropStart
  <2>2. CopyArrived' /\ BuffersBounded'
    BY <2>1, ArrivedStays DEF BuffersBounded
  <2>3. CopyType' /\ CopyOrder'
    BY <2>1, NoTempIs DEF CopyType, CopyOrder
  <2>4. TempOwned'
    BY <1>n, <2>1 DEF TempOwned
  <2> QED  BY <1>0, <2>2, <2>3, <2>4
<1> QED  BY <1>1, <1>2, <1>3, <1>4, <1>5, <1>6, <1>7, <1>8, <1>9

(* copy_file_from touches nothing but its own file. *)
LEMMA StepCopyOut ==
  ASSUME CopyInv,
         CopyFileFromLinux \/ CopyOut \/ ReadOut \/ RemoveCopyOutTemp \/ DropCopyFrom
         \/ UNCHANGED copyVars
  PROVE  CopyInv'
<1> USE DEF CopyInv
<1>1. UNCHANGED <<cos, sources, next, cpc, buffers, archive, temp, placed, chowned>>
  BY DEF CopyFileFromLinux, CopyOut, ReadOut, RemoveCopyOutTemp, DropCopyFrom,
         copyVars,
         copying
<1>2. CopyType' /\ CopyOrder'
  BY <1>1 DEF CopyType, CopyOrder, Source, OnLinux, Whole
<1>3. CopyArrived'
  BY <1>1, ArrivedStays
<1>4. CopyTemps'
  <2>0. /\ TempOwned'
        /\ outTemp => out \in {"reading", "removing", "dropped"}
                      \/ outResult = "copy_out failed"
        /\ outTemp => cos = "macos"
    BY <1>1 DEF CopyTemps, TempOwned
  <2>1. CASE CopyFileFromLinux
    <3>1. outTemp' = outTemp /\ cos = "linux"
      BY <2>1 DEF CopyFileFromLinux
    <3> QED  BY <1>1, <2>0, <3>1 DEF CopyTemps
  <2>2. CASE CopyOut
    BY <1>1, <2>0, <2>2 DEF CopyTemps, CopyOut
  <2>3. CASE ReadOut
    BY <1>1, <2>0, <2>3 DEF CopyTemps, ReadOut
  <2>4. CASE RemoveCopyOutTemp
    BY <1>1, <2>0, <2>4 DEF CopyTemps, RemoveCopyOutTemp
  <2>5. CASE DropCopyFrom
    BY <1>1, <2>0, <2>5 DEF CopyTemps, DropCopyFrom
  <2>6. CASE UNCHANGED copyVars
    BY <1>1, <2>0, <2>6 DEF CopyTemps, copyVars
  <2> QED  BY <2>1, <2>2, <2>3, <2>4, <2>5, <2>6
<1>5. BuffersBounded'
  BY <1>1 DEF BuffersBounded
<1> QED  BY <1>2, <1>3, <1>4, <1>5

(* The invariant says what was to be shown. *)
LEMMA CopyInvSuffices == ASSUME CopyInv PROVE CopyDelivered
<1> USE DEF CopyInv
<1>1. cpc = "copied" => Len(placed) = Len(sources)
  BY DEF CopyOrder
<1>2. /\ archive.bytes <= LIMIT /\ archive.bytes % BLOCK_SIZE = 0
      /\ cpc = "copied" /\ cos = "linux" => chowned = DOMAIN sources
      /\ \A n \in buffers : n <= LIMIT + 1
      /\ temp.at = "there" => cpc \in IF temp.guard THEN {"copy in", "chown"}
                                      ELSE {"open", "dropped"}
      /\ outTemp => out \in {"reading", "removing", "dropped"} \/ outResult = "copy_out failed"
      /\ outTemp /\ cpc = "copied" => cos = "macos"
  <2>1. archive.bytes <= LIMIT /\ archive.bytes % BLOCK_SIZE = 0
    BY DEF CopyType, Blocks
  <2>2. cpc = "copied" /\ cos = "linux" => chowned = DOMAIN sources
    <3>1. sources \in Seq(Sources)
      BY DEF CopyType
    <3>2. DOMAIN sources = 1..Len(sources)
      BY <3>1
    <3> QED  BY <3>2 DEF CopyOrder
  <2>3. temp.at = "there" => cpc \in IF temp.guard THEN {"copy in", "chown"}
                                     ELSE {"open", "dropped"}
    BY DEF CopyTemps, TempOwned
  <2> QED  BY <2>1, <2>2, <2>3 DEF CopyTemps, BuffersBounded
<1>3. ASSUME NEW i \in DOMAIN placed
      PROVE  /\ cos = "linux" =>
                  LET cut == SplitUstarPath(sources[i].target, 0) IN
                  /\ sources[i].flaw = "none" /\ cut.prefix \o cut.name = sources[i].target
                  /\ PathLen(cut.name, 0) <= NAME_MAX
                  /\ cut.prefix = <<>> \/ PathLen(cut.prefix, 0) <= PREFIX_LEN
             /\ Len(placed[i]) = Len(sources[i].sizes)
             /\ Short(i) => cos = "macos"
             /\ \A j \in DOMAIN placed[i] :
                  /\ placed[i][j] >= sources[i].sizes[j] \/ Short(i)
                  /\ cos = "linux" => placed[i][j] <= LIMIT
  <2>1. /\ i \in 1..Len(placed) /\ Arrived(i, placed[i]) /\ placed[i] \in Seq(Nat)
        /\ sources[i] \in Sources
    <3>1. /\ placed \in Seq(Seq(Nat)) /\ Len(placed) <= Len(sources)
          /\ sources \in Seq(Sources)
      BY DEF CopyArrived, CopyType
    <3>2. i \in 1..Len(placed) /\ placed[i] \in Seq(Nat)
      BY <3>1
    <3>3. i \in Nat /\ i # 0 /\ i <= Len(sources)
      BY <3>1, <3>2, LenNat
    <3> QED  BY <3>1, <3>2, <3>3, SourceAt DEF CopyArrived
  <2>2. /\ sources[i].sizes \in Seq(Nat)
        /\ sources[i].kind = "data" => Len(sources[i].sizes) = 1
    BY <2>1, SourceFields
  <2>3. CASE cos = "linux"
    <3>1. OnLinux(i, placed[i])
      BY <2>1, <2>3 DEF Arrived
    <3>2. Len(placed[i]) = Len(sources[i].sizes)
          /\ \A j \in DOMAIN placed[i] : placed[i][j] >= sources[i].sizes[j]
      BY <3>1 DEF OnLinux, Whole
    <3>3. ~Short(i)
      <4> SUFFICES ASSUME sources[i].kind = "data" PROVE ~(placed[i][1] < sources[i].sizes[1])
        BY DEF Short
      <4>1. 1 \in DOMAIN placed[i] /\ placed[i][1] \in Nat /\ sources[i].sizes[1] \in Nat
        BY <2>1, <2>2, <3>2
      <4>2. placed[i][1] >= sources[i].sizes[1]
        BY <3>2, <4>1
      <4> QED  BY <4>1, <4>2
    <3> QED  BY <2>3, <3>1, <3>2, <3>3 DEF OnLinux
  <2>4. CASE cos = "macos"
    <3>1. OnMac(i, placed[i])
      BY <2>1, <2>4 DEF Arrived
    <3> QED  BY <2>4, <3>1 DEF OnMac, Whole, Short, ShortData
  <2> QED  BY <2>3, <2>4 DEF CopyType
<1> QED  BY <1>1, <1>2, <1>3 DEF CopyDelivered

(* copy_to_sources_linux and copy_to_sources deliver every source whole    *)
(* and in order, within the limits of UstarBuilder and read_file_limited   *)
(* and under a name that unpacks to the target (split_ustar_path),         *)
(* whatever the files do meanwhile; only the data of macOS may be cut      *)
(* short.  A temporary file outlives its copy only where start() was       *)
(* dropped during open(), before the file had its guard                    *)
(* (write_copy_data_temp), or copy_file_from failed or was dropped.  For   *)
(* any sizes, any growth, any paths, limits and any number of sources.     *)
THEOREM FilesAreDelivered == CopySpec => []CopyDelivered
<1>1. CopyInit => CopyInv
  BY InitCopyInv
<1>2. CopyInv /\ [CopyNext]_copyVars => CopyInv'
  BY StepCopyIn, StepCopyOut DEF CopyNext
<1>3. CopyInv => CopyDelivered
  BY CopyInvSuffices
<1> QED  BY <1>1, <1>2, <1>3, PTL DEF CopySpec
----------------------------------------------------------------------------
(* What is picked up to the place i, with g for what is picked before it. *)
PickTurn(s, D, g, i) ==
  IF i = 0 THEN <<>> ELSE IF i \in D THEN Append(g[i - 1], s[i]) ELSE g[i - 1]

(* The places up to m, one by one: such a function exists. *)
LEMMA PickExists ==
  ASSUME NEW s, NEW D, Len(s) \in Nat
  PROVE  \E g : g = [i \in 0..Len(s) |-> PickTurn(s, D, g, i)]
<1> DEFINE m == Len(s)
           N(q, i) == IF i \in D THEN Append(q, s[i]) ELSE q
           T(g, i) == IF i = 0 THEN <<>> ELSE N(g[i - 1], i)
           S == {x \in 0..m : \E g : g = [i \in 0..x |-> T(g, i)]}
<1>0. m \in Nat
  OBVIOUS
<1> HIDE DEF m, N
<1>1. 0 \in S
  <2> DEFINE g == [i \in 0..0 |-> <<>>]
  <2>1. g = [i \in 0..0 |-> T(g, i)]
    OBVIOUS
  <2>2. 0 \in 0..m
    BY <1>0
  <2> HIDE DEF g
  <2> QED  BY <2>1, <2>2
<1>2. ASSUME NEW x \in 0..m, x # m, x \in S PROVE x + 1 \in S
  <2>1. PICK h : h = [i \in 0..x |-> T(h, i)]
    BY <1>2
  <2> DEFINE g == [i \in 0 .. x + 1 |-> IF i = x + 1 THEN N(h[x], x + 1) ELSE h[i]]
  <2>2. ASSUME NEW i \in 0 .. x + 1 PROVE g[i] = T(g, i)
    <3>1. CASE i = x + 1
      <4>1. i # 0 /\ i - 1 = x /\ x \in 0 .. x + 1 /\ x # x + 1
        BY <3>1
      <4>2. g[x] = h[x]
        BY <4>1
      <4> QED  BY <3>1, <4>1, <4>2
    <3>2. CASE i # x + 1 /\ i # 0
      <4>1. i \in 0..x /\ i - 1 \in 0 .. x + 1 /\ i - 1 # x + 1 /\ i - 1 \in 0..x
        BY <3>2
      <4>2. g[i] = h[i] /\ g[i - 1] = h[i - 1]
        BY <4>1
      <4>3. h[i] = T(h, i)
        BY <2>1, <4>1
      <4> QED  BY <3>2, <4>2, <4>3
    <3>3. CASE i # x + 1 /\ i = 0
      <4>1. g[0] = h[0] /\ h[0] = T(h, 0)
        BY <2>1, <3>3
      <4> QED  BY <3>3, <4>1
    <3> QED  BY <3>1, <3>2, <3>3
  <2>3. g = [i \in 0 .. x + 1 |-> T(g, i)]
    BY <2>2
  <2>4. x + 1 \in 0..m
    BY <1>0, <1>2
  <2> HIDE DEF g
  <2> QED  BY <2>3, <2>4
<1>3. 0..m \subseteq S
  <2> HIDE DEF S
  <2> QED  BY <1>0, <1>1, <1>2, Upwards
<1>4. m \in S
  <2>1. m \in 0..m
    BY <1>0
  <2> HIDE DEF S
  <2> QED  BY <1>3, <2>1
<1> QED  BY <1>4 DEF m, PickTurn, N

(* One place more. *)
LEMMA PickUnfolds ==
  ASSUME NEW s, NEW D, Len(s) \in Nat
  PROVE  /\ PickTo(s, D)[0] = <<>>
         /\ \A i \in 1..Len(s) :
              PickTo(s, D)[i] = IF i \in D THEN Append(PickTo(s, D)[i - 1], s[i])
                                ELSE PickTo(s, D)[i - 1]
<1> DEFINE f == PickTo(s, D)
<1>1. f = [i \in 0..Len(s) |-> PickTurn(s, D, f, i)]
  <2>1. \E g : g = [i \in 0..Len(s) |-> PickTurn(s, D, g, i)]
    BY PickExists
  <2> QED  BY <2>1, Zenon DEF PickTo, PickTurn
<1> HIDE DEF f
<1>2. 0 \in 0..Len(s) /\ \A i \in 1..Len(s) : i \in 0..Len(s) /\ i # 0
  OBVIOUS
<1>3. f[0] = <<>>
  BY <1>1, <1>2
<1>4. \A i \in 1..Len(s) : f[i] = IF i \in D THEN Append(f[i - 1], s[i]) ELSE f[i - 1]
  BY <1>1, <1>2 DEF PickTurn
<1> QED  BY <1>3, <1>4 DEF f

(* What is picked are elements of the sequence, those at the places. *)
LEMMA PickHolds ==
  ASSUME NEW S, NEW s \in Seq(S), NEW D
  PROVE  /\ Pick(s, D) \in Seq(S)
         /\ \A i \in 1..Len(s) : i \in D => \E j \in DOMAIN Pick(s, D) : Pick(s, D)[j] = s[i]
         /\ \A j \in DOMAIN Pick(s, D) : \E i \in 1..Len(s) : i \in D /\ Pick(s, D)[j] = s[i]
<1> DEFINE n == Len(s)
           f == PickTo(s, D)
           Good(q, k) == 
             /\ q \in Seq(S)
             /\ \A i \in 1..k : i \in D => \E j \in DOMAIN q : q[j] = s[i]
             /\ \A j \in DOMAIN q : \E i \in 1..k : i \in D /\ q[j] = s[i]
           G == {k \in 0..n : Good(f[k], k)}
<1>1. n \in Nat /\ \A i \in 1..n : s[i] \in S
  OBVIOUS
<1>2. /\ f[0] = <<>>
      /\ \A i \in 1..n : f[i] = IF i \in D THEN Append(f[i - 1], s[i]) ELSE f[i - 1]
  BY <1>1, PickUnfolds
<1> HIDE DEF f, n
<1>3. 0 \in G
  <2>1. Good(<<>>, 0) /\ 0 \in 0..n
    BY <1>1
  <2> HIDE DEF Good
  <2> QED  BY <1>2, <2>1
<1>4. ASSUME NEW k \in 0..n, k # n, k \in G PROVE k + 1 \in G
  <2>1. k + 1 \in 1..n /\ (k + 1) - 1 = k /\ k + 1 \in 0..n /\ Good(f[k], k) /\ k \in Nat
    <3> HIDE DEF Good
    <3>1. k \in 0..n /\ Good(f[k], k)
      BY <1>4, Zenon
    <3> HIDE DEF G
    <3> QED  BY <1>1, <1>4, <3>1
  <2>2. f[k + 1] = IF k + 1 \in D THEN Append(f[k], s[k + 1]) ELSE f[k]
    BY <1>2, <2>1
  <2>3. CASE k + 1 \notin D
    <3>1. \A i \in 1 .. k + 1 : i \in D => i \in 1..k
      BY <2>1, <2>3
    <3>2. \A i \in 1..k : i \in 1 .. k + 1
      BY <2>1
    <3>3. Good(f[k], k + 1)
      BY <2>1, <3>1, <3>2
    <3> HIDE DEF Good
    <3> QED  BY <2>1, <2>2, <2>3, <3>3
  <2>4. CASE k + 1 \in D
    <3> DEFINE q == f[k]
               c == s[k + 1]
    <3>1. q \in Seq(S) /\ c \in S
      BY <1>1, <2>1
    <3> HIDE DEF q, c
    <3>2. /\ Append(q, c) \in Seq(S) /\ Len(Append(q, c)) = Len(q) + 1 /\ Len(q) \in Nat
          /\ Append(q, c)[Len(q) + 1] = c /\ \A j \in 1..Len(q) : Append(q, c)[j] = q[j]
      BY <3>1, AppendProperties
    <3>3. DOMAIN q = 1..Len(q) /\ DOMAIN Append(q, c) = 1 .. Len(q) + 1
      BY <3>1, <3>2
    <3>4. ASSUME NEW i \in 1 .. k + 1, i \in D
          PROVE  \E j \in DOMAIN Append(q, c) : Append(q, c)[j] = s[i]
      <4>1. CASE i = k + 1
        <5>1. Len(q) + 1 \in DOMAIN Append(q, c)
          BY <3>2, <3>3
        <5> QED  BY <3>2, <4>1, <5>1 DEF c
      <4>2. CASE i # k + 1
        <5>1. i \in 1..k
          BY <2>1, <4>2
        <5>2. PICK j \in DOMAIN q : q[j] = s[i]
          BY <2>1, <3>4, <5>1 DEF q
        <5>3. j \in DOMAIN Append(q, c) /\ Append(q, c)[j] = q[j]
          BY <3>2, <3>3, <5>2
        <5> QED  BY <5>2, <5>3
      <4> QED  BY <4>1, <4>2
    <3>5. ASSUME NEW j \in DOMAIN Append(q, c)
          PROVE  \E i \in 1 .. k + 1 : i \in D /\ Append(q, c)[j] = s[i]
      <4>1. CASE j = Len(q) + 1
        <5>1. k + 1 \in 1 .. k + 1
          BY <2>1
        <5> QED  BY <2>4, <3>2, <4>1, <5>1 DEF c
      <4>2. CASE j # Len(q) + 1
        <5>1. j \in 1..Len(q) /\ j \in DOMAIN q
          BY <3>2, <3>3, <4>2
        <5>2. PICK i \in 1..k : i \in D /\ q[j] = s[i]
          BY <2>1, <5>1 DEF q
        <5>3. i \in 1 .. k + 1
          BY <2>1
        <5> QED  BY <3>2, <5>1, <5>2, <5>3
      <4> QED  BY <4>1, <4>2
    <3>6. Good(Append(q, c), k + 1)
      BY <3>2, <3>4, <3>5
    <3> HIDE DEF Good
    <3> QED  BY <2>1, <2>2, <2>4, <3>6 DEF q, c
  <2> QED  BY <2>3, <2>4
<1>5. 0..n \subseteq G
  <2> HIDE DEF G
  <2> QED  BY <1>1, <1>3, <1>4, Upwards
<1>6. Good(f[n], n)
  <2>1. n \in 0..n
    BY <1>1
  <2> HIDE DEF Good
  <2> QED  BY <1>5, <2>1
<1> QED  BY <1>6 DEF f, n, Pick

(* One element more. *)
LEMMA PickAppend ==
  ASSUME NEW S, NEW s \in Seq(S), NEW c \in S, NEW D, NEW E,
         \A i \in 1..Len(s) : i \in D <=> i \in E
  PROVE  Pick(Append(s, c), E)
           = IF Len(s) + 1 \in E THEN Append(Pick(s, D), c) ELSE Pick(s, D)
<1> DEFINE n == Len(s)
           t == Append(s, c)
           G == {k \in 0..n : PickTo(t, E)[k] = PickTo(s, D)[k]}
<1>1. n \in Nat
  OBVIOUS
<1>2. Len(t) = n + 1 /\ t[n + 1] = c /\ \A i \in 1..n : t[i] = s[i]
  BY AppendProperties
<1>3. \A i \in 1..n : i \in D <=> i \in E
  OBVIOUS
<1> HIDE DEF t, n
<1>4. /\ PickTo(s, D)[0] = <<>>
      /\ \A i \in 1..n : PickTo(s, D)[i] = IF i \in D THEN Append(PickTo(s, D)[i - 1], s[i])
                                           ELSE PickTo(s, D)[i - 1]
  BY <1>1, PickUnfolds DEF n
<1>5. /\ PickTo(t, E)[0] = <<>>
      /\ \A i \in 1 .. n + 1 :
           PickTo(t, E)[i] = IF i \in E THEN Append(PickTo(t, E)[i - 1], t[i])
                             ELSE PickTo(t, E)[i - 1]
  <2>1. Len(t) \in Nat
    BY <1>1, <1>2
  <2>2. /\ PickTo(t, E)[0] = <<>>
        /\ \A i \in 1..Len(t) :
             PickTo(t, E)[i] = IF i \in E THEN Append(PickTo(t, E)[i - 1], t[i])
                               ELSE PickTo(t, E)[i - 1]
    BY <2>1, PickUnfolds
  <2> QED  BY <1>2, <2>2
<1>6. 0 \in G
  BY <1>1, <1>4, <1>5
<1>7. ASSUME NEW k \in 0..n, k # n, k \in G PROVE k + 1 \in G
  <2>1. k + 1 \in 1..n /\ k + 1 \in 1 .. n + 1 /\ (k + 1) - 1 = k /\ k + 1 \in 0..n
    BY <1>1, <1>7
  <2>2. PickTo(t, E)[k] = PickTo(s, D)[k] /\ t[k + 1] = s[k + 1] /\ (k + 1 \in D <=> k + 1 \in E)
    BY <1>2, <1>3, <1>7, <2>1
  <2>3. PickTo(s, D)[k + 1] = IF k + 1 \in D THEN Append(PickTo(s, D)[k], s[k + 1])
                              ELSE PickTo(s, D)[k]
    BY <1>4, <2>1
  <2>4. PickTo(t, E)[k + 1] = IF k + 1 \in E THEN Append(PickTo(t, E)[k], t[k + 1])
                              ELSE PickTo(t, E)[k]
    BY <1>5, <2>1
  <2> QED  BY <2>1, <2>2, <2>3, <2>4
<1>8. 0..n \subseteq G
  <2> HIDE DEF G
  <2> QED  BY <1>1, <1>6, <1>7, Upwards
<1>9. n \in 0..n /\ n + 1 \in 1 .. n + 1 /\ (n + 1) - 1 = n
  BY <1>1
<1>10. PickTo(t, E)[n] = PickTo(s, D)[n]
  BY <1>8, <1>9
<1>11. PickTo(t, E)[n + 1] = IF n + 1 \in E THEN Append(PickTo(t, E)[n], c)
                             ELSE PickTo(t, E)[n]
  BY <1>2, <1>5, <1>9
<1> QED  BY <1>2, <1>10, <1>11 DEF Pick, t, n

(* The settings that calls add to, and what a call may bring. *)
ListSettings == {"mounts", "ports", "cap_add", "cap_drop", "copies", "consumers"}
AllSettings == Scalars \cup MapSettings \cup ListSettings
PortMappings == [host : HostPorts \cup {0}, container : ContainerPort]
CallValues(s) ==
  IF s \in Scalars THEN Values(s)
  ELSE IF s = "mounts" THEN Mounts ELSE IF s = "ports" THEN PortMappings ELSE {"a", "b"}
Calls == UNION {{[setting |-> s, value |-> v] : v \in CallValues(s)} : s \in AllSettings}

(* The values that the calls cs give to s. *)
ValuesIn(cs, s) ==
  LET mine == Pick(cs, {i \in DOMAIN cs : cs[i].setting = s})
  IN  [i \in DOMAIN mine |-> mine[i].value]

(* A call is of a setting and brings one of its values. *)
LEMMA CallIs ==
  /\ \A c \in Calls : c.setting \in AllSettings /\ c.value \in CallValues(c.setting)
  /\ \A s \in AllSettings : \A v \in CallValues(s) : [setting |-> s, value |-> v] \in Calls
<1>1. ASSUME NEW c \in Calls PROVE c.setting \in AllSettings /\ c.value \in CallValues(c.setting)
  <2>1. PICK s \in AllSettings : \E v \in CallValues(s) : c = [setting |-> s, value |-> v]
    BY <1>1, Zenon DEF Calls
  <2>2. PICK v \in CallValues(s) : c = [setting |-> s, value |-> v]
    BY <2>1
  <2>3. c.setting = s /\ c.value = v
    BY <2>2
  <2> QED  BY <2>1, <2>2, <2>3
<1>2. ASSUME NEW s \in AllSettings, NEW v \in CallValues(s)
      PROVE  [setting |-> s, value |-> v] \in Calls
  <2> DEFINE X == {[setting |-> s, value |-> w] : w \in CallValues(s)}
  <2>1. [setting |-> s, value |-> v] \in X
    BY <1>2
  <2>2. X \in {{[setting |-> t, value |-> w] : w \in CallValues(t)} : t \in AllSettings}
    BY <1>2
  <2> HIDE DEF X
  <2> QED  BY <2>1, <2>2, Zenon DEF Calls
<1> QED  BY <1>1, <1>2

(* The values of one more element. *)
LEMMA MapAppend ==
  ASSUME NEW S, NEW q \in Seq(S), NEW c \in S
  PROVE  [i \in DOMAIN Append(q, c) |-> Append(q, c)[i].value]
           = Append([i \in DOMAIN q |-> q[i].value], c.value)
<1> DEFINE n == Len(q)
           W == {x.value : x \in S}
           t == Append(q, c)
           u == [i \in 1..n |-> q[i].value]
           w == [i \in 1 .. n + 1 |-> t[i].value]
<1>1. n \in Nat /\ DOMAIN q = 1..n /\ \A i \in 1..n : q[i] \in S
  OBVIOUS
<1>2. /\ t \in Seq(S) /\ Len(t) = n + 1 /\ t[n + 1] = c /\ \A i \in 1..n : t[i] = q[i]
  BY AppendProperties
<1>3. DOMAIN t = 1 .. n + 1 /\ \A i \in 1 .. n + 1 : t[i] \in S
  BY <1>1, <1>2
<1> HIDE DEF t, n
<1>4. u \in Seq(W) /\ Len(u) = n /\ c.value \in W
  <2>1. \A i \in 1..n : q[i].value \in W
    BY <1>1
  <2>2. c.value \in W
    OBVIOUS
  <2> HIDE DEF W
  <2> QED  BY <1>1, <2>1, <2>2
<1>5. w \in Seq(W) /\ Len(w) = n + 1
  <2>1. \A i \in 1 .. n + 1 : t[i].value \in W
    BY <1>3
  <2> HIDE DEF W
  <2> QED  BY <1>1, <2>1
<1>6. \A i \in 1..n : w[i] = u[i]
  <2>1. \A i \in 1..n : i \in 1 .. n + 1 /\ t[i] = q[i]
    BY <1>1, <1>2
  <2> QED  BY <2>1
<1>7. w[n + 1] = c.value
  <2>1. n + 1 \in 1 .. n + 1
    BY <1>1
  <2> QED  BY <1>2, <2>1
<1> HIDE DEF W, u, w
<1>8. /\ Append(u, c.value) \in Seq(W) /\ Len(Append(u, c.value)) = n + 1
      /\ Append(u, c.value)[n + 1] = c.value
      /\ \A i \in 1..n : Append(u, c.value)[i] = u[i]
  BY <1>4, AppendProperties
<1>9. w = Append(u, c.value)
  <2>1. \A i \in 1 .. n + 1 : w[i] = Append(u, c.value)[i]
    <3>1. \A i \in 1 .. n + 1 : i \in 1..n \/ i = n + 1
      BY <1>1
    <3> QED  BY <1>6, <1>7, <1>8, <3>1
  <2> QED  BY <1>5, <1>8, <2>1, SeqEqual
<1> QED  BY <1>1, <1>3, <1>9 DEF u, w, t

(* A call adds its value to its setting and to no other. *)
LEMMA OneMoreCall ==
  ASSUME NEW cs \in Seq(Calls), NEW s \in AllSettings, NEW v \in CallValues(s)
  PROVE  LET ds == Append(cs, [setting |-> s, value |-> v]) IN
         /\ ValuesIn(ds, s) = Append(ValuesIn(cs, s), v)
         /\ \A t : t # s => ValuesIn(ds, t) = ValuesIn(cs, t)
<1> DEFINE c == [setting |-> s, value |-> v]
           ds == Append(cs, c)
           D(t) == {i \in DOMAIN cs : cs[i].setting = t}
           E(t) == {i \in DOMAIN ds : ds[i].setting = t}
<1>1. c \in Calls /\ c.setting = s /\ c.value = v
  BY CallIs
<1> HIDE DEF c
<1>2. /\ Len(cs) \in Nat /\ DOMAIN cs = 1..Len(cs)
      /\ ds \in Seq(Calls) /\ Len(ds) = Len(cs) + 1 /\ DOMAIN ds = 1 .. Len(cs) + 1
      /\ ds[Len(cs) + 1] = c /\ \A i \in 1..Len(cs) : ds[i] = cs[i]
  BY <1>1, AppendProperties
<1> HIDE DEF ds
<1>3. ASSUME NEW t
      PROVE  Pick(ds, E(t)) = IF t = s THEN Append(Pick(cs, D(t)), c) ELSE Pick(cs, D(t))
  <2>1. \A i \in 1..Len(cs) : i \in D(t) <=> i \in E(t)
    BY <1>2
  <2>2. Len(cs) + 1 \in E(t) <=> t = s
    BY <1>1, <1>2
  <2> HIDE DEF D, E
  <2>3. Pick(Append(cs, c), E(t))
          = IF Len(cs) + 1 \in E(t) THEN Append(Pick(cs, D(t)), c) ELSE Pick(cs, D(t))
    BY <1>1, <2>1, PickAppend
  <2> QED  BY <2>2, <2>3 DEF ds
<1>4. ASSUME NEW t PROVE Pick(cs, D(t)) \in Seq(Calls)
  BY PickHolds
<1>5. ValuesIn(ds, s) = Append(ValuesIn(cs, s), v)
  <2>1. Pick(ds, E(s)) = Append(Pick(cs, D(s)), c) /\ Pick(cs, D(s)) \in Seq(Calls)
    BY <1>3, <1>4
  <2> DEFINE q == Pick(cs, D(s))
             r == Pick(ds, E(s))
  <2> HIDE DEF q, r
  <2>2. r = Append(q, c) /\ q \in Seq(Calls)
    BY <2>1 DEF q, r
  <2>3. [i \in DOMAIN Append(q, c) |-> Append(q, c)[i].value]
          = Append([i \in DOMAIN q |-> q[i].value], c.value)
    BY <1>1, <2>2, MapAppend
  <2>4. ValuesIn(cs, s) = [i \in DOMAIN q |-> q[i].value]
    BY DEF ValuesIn, q, D
  <2>5. ValuesIn(ds, s) = [i \in DOMAIN r |-> r[i].value]
    BY DEF ValuesIn, r, E
  <2> QED  BY <1>1, <2>2, <2>3, <2>4, <2>5
<1>6. ASSUME NEW t, t # s PROVE ValuesIn(ds, t) = ValuesIn(cs, t)
  <2>1. Pick(ds, E(t)) = Pick(cs, D(t))
    BY <1>3, <1>6
  <2> QED  BY <2>1 DEF ValuesIn, D, E
<1> QED  BY <1>5, <1>6 DEF ds, c

(* The values of a setting. *)
LEMMA ValuesType ==
  ASSUME NEW cs \in Seq(Calls), NEW s
  PROVE  ValuesIn(cs, s) \in Seq(CallValues(s))
<1> DEFINE D == {i \in DOMAIN cs : cs[i].setting = s}
           q == Pick(cs, D)
<1>1. q \in Seq(Calls) /\ \A j \in DOMAIN q : \E i \in 1..Len(cs) : i \in D /\ q[j] = cs[i]
  <2> HIDE DEF D
  <2> QED  BY PickHolds
<1>2. \A j \in DOMAIN q : q[j].setting = s /\ q[j] \in Calls
  BY <1>1
<1> HIDE DEF q
<1>3. \A j \in DOMAIN q : q[j].value \in CallValues(s)
  BY <1>2, CallIs
<1>4. [j \in DOMAIN q |-> q[j].value] \in Seq(CallValues(s))
  <2>1. Len(q) \in Nat /\ DOMAIN q = 1..Len(q)
    BY <1>1
  <2> QED  BY <1>3, <2>1
<1> QED  BY <1>4 DEF ValuesIn, q, D

(* Of each setting the request has what the calls said of it. *)
ScalarsKept == \A s \in Scalars : Asked(s) => req[s] = Last(ValuesOf(s))
ListsKept == \A s \in ListSettings : req[s] = ValuesOf(s)
MapsKept ==
  \A s \in MapSettings :
    IF Asked(s) THEN "k" \in DOMAIN req[s] /\ req[s]["k"] = Last(ValuesOf(s))
    ELSE req[s] = <<>>
(* Where no call speaks of it, a setting is what a new request says.       *)
Defaulted == {"cmd", "privileged", "name", "tag", "ready_conditions"}
DefaultOf(s) == IF s = "cmd" THEN <<>> ELSE IF s = "privileged" THEN FALSE ELSE None
DefaultsKept == \A s \in Defaulted : ~Asked(s) => req[s] = DefaultOf(s)

RequestInv ==
  /\ calls \in Seq(Calls) /\ img \in Images /\ DOMAIN req = AllSettings
  /\ ScalarsKept /\ ListsKept /\ MapsKept /\ DefaultsKept

(* One function on top of another: where it is defined, ... *)
LEMMA DomainOnTop == ASSUME NEW f, NEW g PROVE DOMAIN (f ++ g) = DOMAIN f \cup DOMAIN g
BY DEF ++

(* ... what is found in the upper one, ... *)
LEMMA InUpper == ASSUME NEW f, NEW g, NEW x, x \in DOMAIN f PROVE (f ++ g)[x] = f[x]
BY DEF ++

(* ... and what is found in the lower one. *)
LEMMA InLower ==
  ASSUME NEW f, NEW g, NEW x, x \in DOMAIN g, x \notin DOMAIN f PROVE (f ++ g)[x] = g[x]
BY DEF ++

(* The kinds of settings do not overlap. *)
LEMMA Kinds ==
  /\ Scalars \cap MapSettings = {} /\ Scalars \cap ListSettings = {}
  /\ MapSettings \cap ListSettings = {} /\ Defaulted \subseteq Scalars
BY DEF Defaulted, Scalars, IdentitySettings, ProcessSettings, FlagSettings, RuntimeSettings, MapSettings,
       ListSettings

(* No setting has been asked for in a new request. *)
LEMMA InitRequest == SettingsInit => RequestInv
<1> SUFFICES ASSUME SettingsInit PROVE RequestInv
  OBVIOUS
<1>1. calls = <<>> /\ img \in Images /\ req = NewRequest
  BY DEF SettingsInit
<1>2. calls \in Seq(Calls)
  BY <1>1
<1>3. ASSUME NEW s PROVE ValuesOf(s) = <<>> /\ ~Asked(s)
  <2> DEFINE D == {i \in DOMAIN calls : calls[i].setting = s}
  <2>1. Pick(calls, D) = <<>>
    <3>1. PickTo(calls, D)[0] = <<>> /\ Len(calls) = 0
      <4> HIDE DEF D
      <4>1. Len(calls) = 0
        BY <1>1
      <4> QED  BY <4>1, PickUnfolds
    <3> QED  BY <3>1 DEF Pick
  <2>2. ValuesOf(s) = [i \in DOMAIN <<>> |-> <<>>[i].value]
    BY <2>1 DEF ValuesOf
  <2>3. ValuesOf(s) = <<>>
    BY <2>2
  <2> QED  BY <2>3 DEF Asked
<1> DEFINE A == [s \in Scalars |-> CASE s = "cmd" -> <<>>
                       [] s \in FlagSettings \cup {"init", "ssh"} -> FALSE
                       [] s = "user" -> NoUser
                       [] OTHER -> None]
           B == [s \in MapSettings |-> <<>>]
           C == [s \in ListSettings |-> <<>>]
<1>4. req = (A ++ B) ++ C
  BY <1>1 DEF NewRequest, ListSettings
<1>5. DOMAIN A = Scalars /\ DOMAIN B = MapSettings /\ DOMAIN C = ListSettings
  OBVIOUS
<1>6. /\ \A s \in Defaulted : A[s] = DefaultOf(s)
      /\ \A s \in MapSettings : B[s] = <<>>
      /\ \A s \in ListSettings : C[s] = <<>>
  <2>1. ASSUME NEW s \in Defaulted PROVE A[s] = DefaultOf(s)
    <3>1. s \in Scalars
      BY Kinds
    <3> QED  BY <3>1 DEF Defaulted, DefaultOf, FlagSettings
  <2>2. (\A s \in MapSettings : B[s] = <<>>) /\ \A s \in ListSettings : C[s] = <<>>
    OBVIOUS
  <2> QED  BY <2>1, <2>2
<1> HIDE DEF A, B, C
<1>7. DOMAIN (A ++ B) = Scalars \cup MapSettings
  BY <1>5, DomainOnTop
<1>8. DOMAIN req = AllSettings
  BY <1>4, <1>5, <1>7, DomainOnTop DEF AllSettings
<1>9. ASSUME NEW s \in Defaulted PROVE req[s] = DefaultOf(s)
  <2>0. s \in Scalars
    BY Kinds
  <2>1. (A ++ B)[s] = A[s]
    BY <1>5, <2>0, InUpper
  <2>2. req[s] = (A ++ B)[s]
    <3>1. s \in DOMAIN (A ++ B)
      BY <1>7, <2>0
    <3> QED  BY <1>4, <3>1, InUpper
  <2> QED  BY <1>6, <2>1, <2>2
<1>10. ASSUME NEW s \in MapSettings PROVE req[s] = <<>>
  <2>1. (A ++ B)[s] = B[s]
    <3>1. s \in DOMAIN B /\ s \notin DOMAIN A
      BY <1>5, Kinds
    <3> QED  BY <3>1, InLower
  <2>2. req[s] = (A ++ B)[s]
    <3>1. s \in DOMAIN (A ++ B)
      BY <1>7
    <3> QED  BY <1>4, <3>1, InUpper
  <2> QED  BY <1>6, <2>1, <2>2
<1>11. ASSUME NEW s \in ListSettings PROVE req[s] = <<>>
  <2>1. s \notin DOMAIN (A ++ B)
    BY <1>7, Kinds
  <2>2. req[s] = C[s]
    BY <1>4, <1>5, <2>1, InLower
  <2> QED  BY <1>6, <2>2
<1> QED  BY <1>1, <1>2, <1>3, <1>8, <1>9, <1>10, <1>11
         DEF RequestInv, ScalarsKept, ListsKept, MapsKept, DefaultsKept

(* What a call asks for is added to what was asked for. *)
LEMMA CallAdds ==
  ASSUME RequestInv, NEW s \in AllSettings, NEW v \in CallValues(s), Called(s, v)
  PROVE  /\ calls' \in Seq(Calls) /\ img' = img
         /\ ValuesOf(s)' = Append(ValuesOf(s), v)
         /\ Asked(s)' /\ Last(ValuesOf(s))' = v
         /\ \A t : t # s => ValuesOf(t)' = ValuesOf(t) /\ (Asked(t)' <=> Asked(t))
<1> DEFINE c == [setting |-> s, value |-> v]
<1>1. calls' = Append(calls, c) /\ img' = img
  BY DEF Called
<1>2. calls \in Seq(Calls) /\ c \in Calls
  BY CallIs DEF RequestInv
<1>3. calls' \in Seq(Calls)
  <2> HIDE DEF c
  <2> QED  BY <1>1, <1>2, AppendProperties
<1>4. \A t : ValuesOf(t) = ValuesIn(calls, t) /\ ValuesOf(t)' = ValuesIn(calls', t)
  BY DEF ValuesOf, ValuesIn
<1>5. /\ ValuesIn(calls', s) = Append(ValuesIn(calls, s), v)
      /\ \A t : t # s => ValuesIn(calls', t) = ValuesIn(calls, t)
  BY <1>1, <1>2, OneMoreCall
<1>6. ValuesOf(s)' = Append(ValuesOf(s), v)
  BY <1>4, <1>5
<1>7. \A t : t # s => ValuesOf(t)' = ValuesOf(t)
  BY <1>4, <1>5
<1>8. ValuesOf(s) \in Seq(CallValues(s))
  BY <1>2, <1>4, ValuesType
<1> DEFINE q == ValuesOf(s)
<1>9. Append(q, v) # <<>> /\ Append(q, v)[Len(Append(q, v))] = v
  <2> HIDE DEF q
  <2>1. q \in Seq(CallValues(s))
    BY <1>8 DEF q
  <2> QED  BY <2>1, AppendProperties
<1>10. Asked(s)' /\ Last(ValuesOf(s))' = v
  BY <1>6, <1>9 DEF Asked, Last
<1>11. \A t : t # s => (Asked(t)' <=> Asked(t))
  BY <1>7 DEF Asked
<1> QED  BY <1>1, <1>3, <1>6, <1>7, <1>10, <1>11

(* A call that sets what it says of its own setting keeps the rest. *)
LEMMA CallKeeps ==
  ASSUME RequestInv, NEW s \in AllSettings, NEW v \in CallValues(s), Called(s, v),
         NEW w, req' = [req EXCEPT ![s] = w],
         s \in Scalars => w = v,
         s \in ListSettings => w = Append(req[s], v),
         s \in MapSettings => "k" \in DOMAIN w /\ w["k"] = v
  PROVE  RequestInv'
<1>1. /\ calls' \in Seq(Calls) /\ img' = img
      /\ ValuesOf(s)' = Append(ValuesOf(s), v)
      /\ Asked(s)' /\ Last(ValuesOf(s))' = v
      /\ \A t : t # s => ValuesOf(t)' = ValuesOf(t) /\ (Asked(t)' <=> Asked(t))
  BY CallAdds
<1>2. /\ DOMAIN req = AllSettings /\ img \in Images
      /\ ScalarsKept /\ ListsKept /\ MapsKept /\ DefaultsKept
  BY DEF RequestInv
<1>3. DOMAIN req' = AllSettings /\ req'[s] = w /\ \A t \in AllSettings : t # s => req'[t] = req[t]
  BY <1>2
<1>4. \A t : t # s => Last(ValuesOf(t))' = Last(ValuesOf(t))
  BY <1>1 DEF Last
<1>5. ASSUME NEW t \in Scalars, Asked(t)' PROVE req'[t] = Last(ValuesOf(t))'
  <2>1. CASE t = s
    BY <1>1, <1>3, <2>1
  <2>2. CASE t # s
    <3>1. t \in AllSettings
      BY DEF AllSettings
    <3>2. Asked(t) /\ req[t] = Last(ValuesOf(t))
      BY <1>1, <1>2, <1>5, <2>2 DEF ScalarsKept
    <3> QED  BY <1>3, <1>4, <2>2, <3>1, <3>2
  <2> QED  BY <2>1, <2>2
<1>6. ASSUME NEW t \in ListSettings PROVE req'[t] = ValuesOf(t)'
  <2>1. req[t] = ValuesOf(t) /\ t \in AllSettings
    BY <1>2 DEF ListsKept, AllSettings
  <2>2. CASE t = s
    BY <1>1, <1>3, <2>1, <2>2
  <2>3. CASE t # s
    BY <1>1, <1>3, <2>1, <2>3
  <2> QED  BY <2>2, <2>3
<1>7. ASSUME NEW t \in MapSettings
      PROVE  IF Asked(t)' THEN "k" \in DOMAIN req'[t] /\ req'[t]["k"] = Last(ValuesOf(t))'
             ELSE req'[t] = <<>>
  <2>1. CASE t = s
    BY <1>1, <1>3, <2>1
  <2>2. CASE t # s
    <3>1. IF Asked(t) THEN "k" \in DOMAIN req[t] /\ req[t]["k"] = Last(ValuesOf(t))
          ELSE req[t] = <<>>
      BY <1>2 DEF MapsKept
    <3>2. t \in AllSettings
      BY DEF AllSettings
    <3>3. req'[t] = req[t] /\ (Asked(t)' <=> Asked(t)) /\ Last(ValuesOf(t))' = Last(ValuesOf(t))
      BY <1>1, <1>3, <1>4, <2>2, <3>2
    <3> QED  BY <3>1, <3>3
  <2> QED  BY <2>1, <2>2
<1>8. DefaultsKept'
  <2> SUFFICES ASSUME NEW t \in Defaulted, ~Asked(t)' PROVE req'[t] = DefaultOf(t)
    BY DEF DefaultsKept
  <2>1. t # s /\ t \in AllSettings
    BY <1>1, Kinds DEF AllSettings
  <2>2. req[t] = DefaultOf(t)
    BY <1>1, <1>2, <2>1 DEF DefaultsKept
  <2> QED  BY <1>3, <2>1, <2>2
<1>9. ScalarsKept'
  BY <1>5 DEF ScalarsKept
<1>10. ListsKept'
  BY <1>6 DEF ListsKept
<1>11. MapsKept'
  BY <1>7 DEF MapsKept
<1> QED  BY <1>1, <1>2, <1>3, <1>8, <1>9, <1>10, <1>11 DEF RequestInv

(* A setter that overwrites. *)
LEMMA OverwriteKeeps ==
  ASSUME RequestInv, NEW S, S \subseteq Scalars, Overwrite(S)
  PROVE  RequestInv'
<1>1. PICK s \in S : \E v \in Values(s) : Called(s, v) /\ req' = [req EXCEPT ![s] = v]
  BY DEF Overwrite
<1>2. PICK v \in Values(s) : Called(s, v) /\ req' = [req EXCEPT ![s] = v]
  BY <1>1
<1>3. s \in Scalars /\ s \in AllSettings /\ s \notin ListSettings /\ s \notin MapSettings
  BY Kinds DEF AllSettings
<1>4. v \in CallValues(s)
  BY <1>3 DEF CallValues
<1> QED  BY <1>2, <1>3, <1>4, CallKeeps

(* A setter that adds to a list. *)
LEMMA PushKeeps ==
  ASSUME RequestInv, NEW s \in ListSettings, NEW v \in CallValues(s), Push(s, v)
  PROVE  RequestInv'
<1>1. s \notin Scalars /\ s \notin MapSettings /\ s \in AllSettings
  BY Kinds DEF AllSettings
<1>2. Called(s, v) /\ req' = [req EXCEPT ![s] = Append(req[s], v)]
  BY DEF Push
<1> QED  BY <1>1, <1>2, CallKeeps

(* A setter that adds an entry to a map. *)
LEMMA EntryKeeps == ASSUME RequestInv, WithEntry PROVE RequestInv'
<1>1. PICK s \in MapSettings, v \in {"a", "b"} :
        Called(s, v) /\ req' = [req EXCEPT ![s] = [k |-> v] ++ req[s]]
  BY DEF WithEntry
<1>2. s \notin Scalars /\ s \notin ListSettings /\ s \in AllSettings
  BY Kinds DEF AllSettings
<1>3. v \in CallValues(s)
  BY <1>2 DEF CallValues, ListSettings
<1> DEFINE top == [k |-> v]
           w == top ++ req[s]
<1>4. "k" \in DOMAIN top /\ top["k"] = v
  OBVIOUS
<1> HIDE DEF top
<1>5. "k" \in DOMAIN w /\ w["k"] = v
  <2>1. w["k"] = top["k"]
    BY <1>4, InUpper
  <2>2. DOMAIN w = DOMAIN top \cup DOMAIN req[s]
    BY DomainOnTop
  <2> QED  BY <1>4, <2>1, <2>2
<1>6. req' = [req EXCEPT ![s] = w]
  BY <1>1 DEF top
<1> HIDE DEF w
<1> QED  BY <1>1, <1>2, <1>3, <1>5, <1>6, CallKeeps

(* Every step keeps what the request says of the calls. *)
LEMMA StepRequest == RequestInv /\ [SettingsNext]_settingsVars => RequestInv'
<1> SUFFICES ASSUME RequestInv, [SettingsNext]_settingsVars PROVE RequestInv'
  OBVIOUS
<1>1. CASE UNCHANGED <<img, req, calls>>
  <2>1. \A t : ValuesOf(t)' = ValuesOf(t)
    BY <1>1 DEF ValuesOf
  <2>2. \A t : (Asked(t)' <=> Asked(t)) /\ Last(ValuesOf(t))' = Last(ValuesOf(t))
    BY <2>1 DEF Asked, Last
  <2>3. ScalarsKept' /\ ListsKept' /\ MapsKept' /\ DefaultsKept'
    BY <1>1, <2>1, <2>2 DEF RequestInv, ScalarsKept, ListsKept, MapsKept, DefaultsKept
  <2> QED  BY <1>1, <2>2, <2>3 DEF RequestInv
<1>2. CASE WithIdentity
  <2>1. IdentitySettings \subseteq Scalars
    BY DEF Scalars
  <2> QED  BY <1>2, <2>1, OverwriteKeeps DEF WithIdentity
<1>3. CASE WithFlag
  <2>1. FlagSettings \subseteq Scalars
    BY DEF Scalars
  <2> QED  BY <1>3, <2>1, OverwriteKeeps DEF WithFlag
<1>4. CASE WithProcess
  <2>1. ProcessSettings \subseteq Scalars
    BY DEF Scalars
  <2> QED  BY <1>4, <2>1, OverwriteKeeps DEF WithProcess
<1>5. CASE WithRuntime
  <2>1. RuntimeSettings \subseteq Scalars
    BY DEF Scalars
  <2> QED  BY <1>5, <2>1, OverwriteKeeps DEF WithRuntime
<1>6. CASE WithEntry
  BY <1>6, EntryKeeps
<1>7. /\ CallValues("mounts") = Mounts /\ CallValues("ports") = PortMappings
      /\ \A s \in ListSettings : s \notin {"mounts", "ports"} => CallValues(s) = {"a", "b"}
  BY Kinds DEF CallValues, ListSettings
<1>8. CASE WithMount
  <2>1. PICK m \in Mounts : Push("mounts", m)
    BY <1>8 DEF WithMount
  <2>2. "mounts" \in ListSettings /\ m \in CallValues("mounts")
    BY <1>7, <2>1 DEF ListSettings
  <2> QED  BY <2>1, <2>2, PushKeeps
<1>9. CASE WithMappedPort
  <2>1. PICK h \in HostPorts \cup {0}, c \in ContainerPort :
          Push("ports", [host |-> h, container |-> c])
    BY <1>9 DEF WithMappedPort
  <2>2. [host |-> h, container |-> c] \in PortMappings
    BY <2>1 DEF PortMappings
  <2>3. "ports" \in ListSettings
    BY DEF ListSettings
  <2> QED  BY <1>7, <2>1, <2>2, <2>3, PushKeeps
<1>10. CASE WithCopyTo \/ WithCap \/ WithLogConsumer
  <2>1. PICK s \in {"copies", "cap_add", "cap_drop", "consumers"} : Push(s, "a")
    BY <1>10 DEF WithCopyTo, WithCap, WithLogConsumer
  <2>2. s \in ListSettings /\ s \notin {"mounts", "ports"}
    BY <2>1 DEF ListSettings
  <2>3. "a" \in CallValues(s)
    BY <1>7, <2>2
  <2> QED  BY <2>1, <2>2, <2>3, PushKeeps
<1>11. CASE StartLinux \/ StartMac
  BY <1>1, <1>11 DEF StartLinux, StartMac
<1>12. UNCHANGED settingsVars => UNCHANGED <<img, req, calls>>
  BY DEF settingsVars
<1> QED  BY <1>1, <1>2, <1>3, <1>4, <1>5, <1>6, <1>8, <1>9, <1>10, <1>11, <1>12 DEF SettingsNext

(* What both payloads and start itself have of the request. *)
CommonFields ==
  {"entrypoint", "cmd", "image", "env", "labels", "hosts", "init", "shm_size",
   "readonly_rootfs", "cap_drop", "startup_timeout", "ready_conditions", "copies", "consumers"}

(* They are in Common, one by one. *)
LEMMA CommonHas ==
  /\ DOMAIN Common = CommonFields
  /\ Common["cmd"] = Cmd /\ Common["image"] = Descriptor /\ Common["env"] = Env
  /\ Common["entrypoint"] = img.entrypoint /\ Common["copies"] = AllCopies
  /\ \A s \in {"labels", "hosts", "init", "shm_size", "readonly_rootfs", "cap_drop",
               "consumers"} : Common[s] = req[s]
  /\ Common["startup_timeout"] = OrElse(req["startup_timeout"], "60s")
  /\ Common["ready_conditions"] = OrElse(req["ready_conditions"], "image")
<1> DEFINE R == [entrypoint |-> img.entrypoint, cmd |-> Cmd, image |-> Descriptor, env |-> Env,
                 labels |-> req["labels"], hosts |-> req["hosts"], init |-> req["init"],
                 shm_size |-> req["shm_size"], readonly_rootfs |-> req["readonly_rootfs"],
                 cap_drop |-> req["cap_drop"]]
<1>1. Common = R ++ Plan
  BY DEF Common
<1>2. DOMAIN R = {"entrypoint", "cmd", "image", "env", "labels", "hosts", "init", "shm_size",
                  "readonly_rootfs", "cap_drop"}
  OBVIOUS
<1>3. DOMAIN Plan = {"startup_timeout", "ready_conditions", "copies", "consumers"}
  BY DEF Plan
<1>4. /\ R["cmd"] = Cmd /\ R["image"] = Descriptor /\ R["env"] = Env
      /\ R["entrypoint"] = img.entrypoint
      /\ \A s \in {"labels", "hosts", "init", "shm_size", "readonly_rootfs", "cap_drop"} :
           R[s] = req[s]
  OBVIOUS
<1>5. /\ Plan["copies"] = AllCopies /\ Plan["consumers"] = req["consumers"]
      /\ Plan["startup_timeout"] = OrElse(req["startup_timeout"], "60s")
      /\ Plan["ready_conditions"] = OrElse(req["ready_conditions"], "image")
  BY DEF Plan
<1> HIDE DEF R
<1>6. DOMAIN Common = CommonFields
  <2>1. DOMAIN Common = DOMAIN R \cup DOMAIN Plan
    BY <1>1, DomainOnTop
  <2> QED  BY <1>2, <1>3, <2>1 DEF CommonFields
<1>7. \A s \in DOMAIN R : Common[s] = R[s]
  BY <1>1, InUpper
<1>8. \A s \in DOMAIN Plan : Common[s] = Plan[s]
  <2>1. \A s \in DOMAIN Plan : s \notin DOMAIN R
    BY <1>2, <1>3
  <2> QED  BY <1>1, <2>1, InLower
<1> QED  BY <1>2, <1>3, <1>4, <1>5, <1>6, <1>7, <1>8

(* What the body of create on Linux says. *)
LEMMA LinuxBodyHas ==
  /\ \A s \in CommonFields : CreateContainerBody[s] = Common[s]
  /\ \A s \in {"container_name", "platform", "working_dir", "user", "hostname", "privileged",
               "cap_add", "network"} : CreateContainerBody[s] = req[s]
  /\ CreateContainerBody["open_stdin"] = OrElse(req["open_stdin"], "closed")
  /\ CreateContainerBody["health_check"] = ToDockerJson(req["health_check"])
  /\ CreateContainerBody["mounts"] = AllMounts
  /\ CreateContainerBody["ports"] = BuildPortBindings
<1> DEFINE A == Common ++ Config
           B == A ++ Body
<1>1. CreateContainerBody = B ++ HostConfig
  BY DEF CreateContainerBody
<1>2. DOMAIN Common = CommonFields
  BY CommonHas
<1>3. DOMAIN Config = {"container_name", "platform"}
  BY DEF Config
<1>4. DOMAIN Body = {"working_dir", "user", "hostname", "open_stdin", "health_check"}
  BY DEF Body
<1>5. DOMAIN HostConfig = {"privileged", "cap_add", "network", "mounts", "ports"}
  BY DEF HostConfig
<1>6. DOMAIN A = CommonFields \cup {"container_name", "platform"}
  <2>1. DOMAIN A = DOMAIN Common \cup DOMAIN Config
    BY DomainOnTop
  <2> QED  BY <1>2, <1>3, <2>1
<1>7. /\ \A s \in DOMAIN Common : A[s] = Common[s]
      /\ \A s \in DOMAIN Config : A[s] = Config[s]
  <2>1. \A s \in DOMAIN Config : s \notin DOMAIN Common
    BY <1>2, <1>3 DEF CommonFields
  <2> QED  BY <2>1, InUpper, InLower
<1> HIDE DEF A
<1>8. DOMAIN B = DOMAIN A \cup DOMAIN Body
  BY DomainOnTop
<1>9. /\ \A s \in DOMAIN A : B[s] = A[s]
      /\ \A s \in DOMAIN Body : B[s] = Body[s]
  <2>1. \A s \in DOMAIN Body : s \notin DOMAIN A
    BY <1>4, <1>6 DEF CommonFields
  <2> QED  BY <2>1, InUpper, InLower
<1> HIDE DEF B
<1>10. /\ \A s \in DOMAIN B : CreateContainerBody[s] = B[s]
       /\ \A s \in DOMAIN HostConfig : CreateContainerBody[s] = HostConfig[s]
  <2>1. \A s \in DOMAIN HostConfig : s \notin DOMAIN B
    BY <1>4, <1>5, <1>6, <1>8 DEF CommonFields
  <2> QED  BY <1>1, <2>1, InUpper, InLower
<1>11. \A s \in CommonFields : CreateContainerBody[s] = Common[s]
  BY <1>2, <1>6, <1>7, <1>8, <1>9, <1>10
<1>12. \A s \in {"container_name", "platform"} : CreateContainerBody[s] = Config[s]
  BY <1>3, <1>6, <1>7, <1>8, <1>9, <1>10
<1>13. \A s \in DOMAIN Body : CreateContainerBody[s] = Body[s]
  BY <1>8, <1>9, <1>10
<1>14. \A s \in {"container_name", "platform"} : Config[s] = req[s]
  BY DEF Config
<1>15. /\ \A s \in {"working_dir", "user", "hostname"} : Body[s] = req[s]
       /\ Body["open_stdin"] = OrElse(req["open_stdin"], "closed")
       /\ Body["health_check"] = ToDockerJson(req["health_check"])
  BY DEF Body
<1>16. /\ \A s \in {"privileged", "cap_add", "network"} : HostConfig[s] = req[s]
       /\ HostConfig["mounts"] = AllMounts /\ HostConfig["ports"] = BuildPortBindings
  BY DEF HostConfig
<1>17. \A s \in {"container_name", "platform"} : CreateContainerBody[s] = req[s]
  BY <1>12, <1>14
<1>18. /\ \A s \in {"working_dir", "user", "hostname"} : CreateContainerBody[s] = req[s]
       /\ CreateContainerBody["open_stdin"] = OrElse(req["open_stdin"], "closed")
       /\ CreateContainerBody["health_check"] = ToDockerJson(req["health_check"])
  BY <1>4, <1>13, <1>15
<1>19. /\ \A s \in {"privileged", "cap_add", "network"} : CreateContainerBody[s] = req[s]
       /\ CreateContainerBody["mounts"] = AllMounts
       /\ CreateContainerBody["ports"] = BuildPortBindings
  BY <1>5, <1>10, <1>16
<1> QED  BY <1>11, <1>17, <1>18, <1>19

(* What the configuration on macOS says. *)
LEMMA MacBodyHas ==
  ASSUME NEW h
  PROVE  /\ \A s \in CommonFields : BuildConfig(h)[s] = Common[s]
         /\ \A s \in {"ssh", "masked_paths", "readonly_paths"} : BuildConfig(h)[s] = req[s]
         /\ BuildConfig(h)["container_name"] = OrElse(req["container_name"], "id")
         /\ BuildConfig(h)["working_dir"] = OrElse(req["working_dir"], "/")
         /\ BuildConfig(h)["user"] = ParseUser
         /\ BuildConfig(h)["open_stdin"] = OrElse(req["open_stdin"], "closed")
         /\ BuildConfig(h)["hostname"]
              = OrElse(req["hostname"], OrElse(req["container_name"], "id"))
         /\ BuildConfig(h)["network"] = OrElse(req["network"], "default")
         /\ BuildConfig(h)["platform"] = NormalizePlatform
         /\ BuildConfig(h)["ports"] = ByContainerPort(h)
         /\ BuildConfig(h)["cap_add"] = IF req["privileged"] THEN <<"ALL">> ELSE req["cap_add"]
         /\ BuildConfig(h)["mounts"] = [i \in DOMAIN AllMounts |-> MountCfg(AllMounts[i])]
         /\ BuildConfig(h)["kernel"] = OrElse(req["kernel"], "default")
<1> DEFINE A == Common ++ ContainerCfg
           B == A ++ InitProcessCfg
           C == B ++ NetworkCfg
           D == C ++ PortCfg(h)
           R == [cap_add |-> IF req["privileged"] THEN <<"ALL">> ELSE req["cap_add"],
                 mounts |-> [i \in DOMAIN AllMounts |-> MountCfg(AllMounts[i])],
                 kernel |-> OrElse(req["kernel"], "default")]
<1>1. BuildConfig(h) = D ++ R
  BY DEF BuildConfig
<1>2. DOMAIN Common = CommonFields
  BY CommonHas
<1>3. DOMAIN ContainerCfg = {"container_name", "ssh", "masked_paths", "readonly_paths"}
  BY DEF ContainerCfg
<1>4. DOMAIN InitProcessCfg = {"working_dir", "user", "open_stdin"}
  BY DEF InitProcessCfg
<1>5. DOMAIN NetworkCfg = {"hostname", "network", "platform"}
  BY DEF NetworkCfg
<1>6. DOMAIN PortCfg(h) = {"ports"} /\ DOMAIN R = {"cap_add", "mounts", "kernel"}
  BY DEF PortCfg
<1>7. /\ R["cap_add"] = IF req["privileged"] THEN <<"ALL">> ELSE req["cap_add"]
      /\ R["mounts"] = [i \in DOMAIN AllMounts |-> MountCfg(AllMounts[i])]
      /\ R["kernel"] = OrElse(req["kernel"], "default")
  OBVIOUS
<1> HIDE DEF R
<1>8. DOMAIN A = CommonFields \cup {"container_name", "ssh", "masked_paths", "readonly_paths"}
  <2>1. DOMAIN A = DOMAIN Common \cup DOMAIN ContainerCfg
    BY DomainOnTop
  <2> QED  BY <1>2, <1>3, <2>1
<1>9. /\ \A s \in DOMAIN Common : A[s] = Common[s]
      /\ \A s \in DOMAIN ContainerCfg : A[s] = ContainerCfg[s]
  <2>1. \A s \in DOMAIN ContainerCfg : s \notin DOMAIN Common
    BY <1>2, <1>3 DEF CommonFields
  <2> QED  BY <2>1, InUpper, InLower
<1> HIDE DEF A
<1>10. DOMAIN B = DOMAIN A \cup DOMAIN InitProcessCfg
  BY DomainOnTop
<1>11. /\ \A s \in DOMAIN A : B[s] = A[s]
       /\ \A s \in DOMAIN InitProcessCfg : B[s] = InitProcessCfg[s]
  <2>1. \A s \in DOMAIN InitProcessCfg : s \notin DOMAIN A
    BY <1>4, <1>8 DEF CommonFields
  <2> QED  BY <2>1, InUpper, InLower
<1> HIDE DEF B
<1>12. DOMAIN C = DOMAIN B \cup DOMAIN NetworkCfg
  BY DomainOnTop
<1>13. /\ \A s \in DOMAIN B : C[s] = B[s]
       /\ \A s \in DOMAIN NetworkCfg : C[s] = NetworkCfg[s]
  <2>1. \A s \in DOMAIN NetworkCfg : s \notin DOMAIN B
    BY <1>4, <1>5, <1>8, <1>10 DEF CommonFields
  <2> QED  BY <2>1, InUpper, InLower
<1> HIDE DEF C
<1>14. DOMAIN D = DOMAIN C \cup {"ports"}
  <2>1. DOMAIN D = DOMAIN C \cup DOMAIN PortCfg(h)
    BY DomainOnTop
  <2> QED  BY <1>6, <2>1
<1>15. (\A s \in DOMAIN C : D[s] = C[s]) /\ D["ports"] = PortCfg(h)["ports"]
  <2>1. "ports" \notin DOMAIN C /\ "ports" \in DOMAIN PortCfg(h)
    BY <1>4, <1>5, <1>6, <1>8, <1>10, <1>12 DEF CommonFields
  <2> QED  BY <2>1, InUpper, InLower
<1> HIDE DEF D
<1>16. (\A s \in DOMAIN D : BuildConfig(h)[s] = D[s]) /\ \A s \in DOMAIN R : BuildConfig(h)[s] = R[s]
  <2>1. \A s \in DOMAIN R : s \notin DOMAIN D
    BY <1>4, <1>5, <1>6, <1>8, <1>10, <1>12, <1>14 DEF CommonFields
  <2> QED  BY <1>1, <2>1, InUpper, InLower
<1>17. \A s \in DOMAIN A : BuildConfig(h)[s] = A[s]
  BY <1>10, <1>11, <1>12, <1>13, <1>14, <1>15, <1>16
<1>18. \A s \in DOMAIN InitProcessCfg : BuildConfig(h)[s] = InitProcessCfg[s]
  BY <1>10, <1>11, <1>12, <1>13, <1>14, <1>15, <1>16
<1>19. \A s \in DOMAIN NetworkCfg : BuildConfig(h)[s] = NetworkCfg[s]
  BY <1>12, <1>13, <1>14, <1>15, <1>16
<1>20. BuildConfig(h)["ports"] = PortCfg(h)["ports"] /\ PortCfg(h)["ports"] = ByContainerPort(h)
  <2>1. PortCfg(h)["ports"] = ByContainerPort(h)
    BY DEF PortCfg
  <2> QED  BY <1>14, <1>15, <1>16, <2>1
<1>21. \A s \in CommonFields : BuildConfig(h)[s] = Common[s]
  BY <1>2, <1>8, <1>9, <1>17
<1>22. \A s \in DOMAIN ContainerCfg : BuildConfig(h)[s] = ContainerCfg[s]
  BY <1>3, <1>8, <1>9, <1>17
<1>23. /\ \A s \in {"ssh", "masked_paths", "readonly_paths"} : ContainerCfg[s] = req[s]
       /\ ContainerCfg["container_name"] = OrElse(req["container_name"], "id")
  BY DEF ContainerCfg
<1>24. /\ InitProcessCfg["working_dir"] = OrElse(req["working_dir"], "/")
       /\ InitProcessCfg["user"] = ParseUser
       /\ InitProcessCfg["open_stdin"] = OrElse(req["open_stdin"], "closed")
  BY DEF InitProcessCfg
<1>25. /\ NetworkCfg["hostname"] = OrElse(req["hostname"], OrElse(req["container_name"], "id"))
       /\ NetworkCfg["network"] = OrElse(req["network"], "default")
       /\ NetworkCfg["platform"] = NormalizePlatform
  BY DEF NetworkCfg
<1>26. /\ \A s \in {"ssh", "masked_paths", "readonly_paths"} : BuildConfig(h)[s] = req[s]
       /\ BuildConfig(h)["container_name"] = OrElse(req["container_name"], "id")
  BY <1>3, <1>22, <1>23
<1>27. /\ BuildConfig(h)["working_dir"] = OrElse(req["working_dir"], "/")
       /\ BuildConfig(h)["user"] = ParseUser
       /\ BuildConfig(h)["open_stdin"] = OrElse(req["open_stdin"], "closed")
  BY <1>4, <1>18, <1>24
<1>28. /\ BuildConfig(h)["hostname"]
            = OrElse(req["hostname"], OrElse(req["container_name"], "id"))
       /\ BuildConfig(h)["network"] = OrElse(req["network"], "default")
       /\ BuildConfig(h)["platform"] = NormalizePlatform
  BY <1>5, <1>19, <1>25
<1>29. /\ BuildConfig(h)["cap_add"] = R["cap_add"] /\ BuildConfig(h)["mounts"] = R["mounts"]
       /\ BuildConfig(h)["kernel"] = R["kernel"]
  BY <1>6, <1>16
<1> QED  BY <1>7, <1>20, <1>21, <1>26, <1>27, <1>28, <1>29

(* What has been asked for is a value of the setting. *)
LEMMA AskedIs ==
  ASSUME RequestInv
  PROVE  /\ \A s \in Scalars : Asked(s) => req[s] = Last(ValuesOf(s)) /\ req[s] \in Values(s)
         /\ req["ports"] = ValuesOf("ports") /\ req["ports"] \in Seq(PortMappings)
         /\ req["mounts"] = ValuesOf("mounts") /\ req["mounts"] \in Seq(Mounts)
<1>1. \A s : ValuesOf(s) \in Seq(CallValues(s))
  <2>1. \A s : ValuesOf(s) = ValuesIn(calls, s)
    BY DEF ValuesOf, ValuesIn
  <2> QED  BY <2>1, ValuesType DEF RequestInv
<1>2. ASSUME NEW s \in Scalars, Asked(s)
      PROVE  req[s] = Last(ValuesOf(s)) /\ req[s] \in Values(s)
  <2> DEFINE q == ValuesOf(s)
  <2>1. q \in Seq(Values(s)) /\ q # <<>> /\ req[s] = Last(q)
    BY <1>1, <1>2 DEF CallValues, Asked, RequestInv, ScalarsKept
  <2> HIDE DEF q
  <2>2. Len(q) \in 1..Len(q)
    BY <2>1
  <2>3. Last(q) \in Values(s)
    BY <2>1, <2>2, ElementOfSeq DEF Last
  <2> QED  BY <2>1, <2>3 DEF q
<1>3. CallValues("ports") = PortMappings /\ CallValues("mounts") = Mounts
  BY Kinds DEF CallValues, ListSettings
<1>4. req["ports"] = ValuesOf("ports") /\ req["mounts"] = ValuesOf("mounts")
  BY DEF RequestInv, ListsKept, ListSettings
<1> QED  BY <1>1, <1>2, <1>3, <1>4

(* The values that the code tells apart. *)
LEMMA ValuesAre ==
  /\ Values("ssh") = {TRUE} /\ Values("privileged") = BOOLEAN /\ Values("user") = Users
  /\ Values("open_stdin") = {"open", "closed"}
  /\ Values("container_name") = {"valid", "invalid"}
  /\ Values("health_check") = {"test", "empty"}
  /\ Values("platform") = {"amd64", "linux/amd64", "linux/arm64", "windows/amd64"}
  /\ Values("kernel") = {"file", "relative", "directory"}
  /\ \A s \in {"hostname", "network", "startup_timeout", "working_dir", "masked_paths",
               "readonly_paths", "name", "tag", "ready_conditions"} : Values(s) = {"a", "b"}
BY DEF Values, FlagSettings

(* The ports up to the i-th exposed one, with g for those before it. *)
PublishTurn(a, s, g, i) == IF i = 0 THEN a ELSE Expose(g[i - 1], s[i])

(* The exposed ports, one by one: such a function exists. *)
LEMMA PublishedExists ==
  ASSUME NEW a, NEW s, Len(s) \in Nat
  PROVE  \E g : g = [i \in 0..Len(s) |-> PublishTurn(a, s, g, i)]
<1> DEFINE m == Len(s)
           N(q, i) == Expose(q, s[i])
           T(g, i) == IF i = 0 THEN a ELSE N(g[i - 1], i)
           S == {x \in 0..m : \E g : g = [i \in 0..x |-> T(g, i)]}
<1>0. m \in Nat
  OBVIOUS
<1> HIDE DEF m, N
<1>1. 0 \in S
  <2> DEFINE g == [i \in 0..0 |-> a]
  <2>1. g = [i \in 0..0 |-> T(g, i)]
    OBVIOUS
  <2>2. 0 \in 0..m
    BY <1>0
  <2> HIDE DEF g
  <2> QED  BY <2>1, <2>2
<1>2. ASSUME NEW x \in 0..m, x # m, x \in S PROVE x + 1 \in S
  <2>1. PICK h : h = [i \in 0..x |-> T(h, i)]
    BY <1>2
  <2> DEFINE g == [i \in 0 .. x + 1 |-> IF i = x + 1 THEN N(h[x], x + 1) ELSE h[i]]
  <2>2. ASSUME NEW i \in 0 .. x + 1 PROVE g[i] = T(g, i)
    <3>1. CASE i = x + 1
      <4>1. i # 0 /\ i - 1 = x /\ x \in 0 .. x + 1 /\ x # x + 1
        BY <3>1
      <4>2. g[x] = h[x]
        BY <4>1
      <4> QED  BY <3>1, <4>1, <4>2
    <3>2. CASE i # x + 1 /\ i # 0
      <4>1. i \in 0..x /\ i - 1 \in 0 .. x + 1 /\ i - 1 # x + 1 /\ i - 1 \in 0..x
        BY <3>2
      <4>2. g[i] = h[i] /\ g[i - 1] = h[i - 1]
        BY <4>1
      <4>3. h[i] = T(h, i)
        BY <2>1, <4>1
      <4> QED  BY <3>2, <4>2, <4>3
    <3>3. CASE i # x + 1 /\ i = 0
      <4>1. g[0] = h[0] /\ h[0] = T(h, 0)
        BY <2>1, <3>3
      <4> QED  BY <3>3, <4>1
    <3> QED  BY <3>1, <3>2, <3>3
  <2>3. g = [i \in 0 .. x + 1 |-> T(g, i)]
    BY <2>2
  <2>4. x + 1 \in 0..m
    BY <1>0, <1>2
  <2> HIDE DEF g
  <2> QED  BY <2>3, <2>4
<1>3. 0..m \subseteq S
  <2> HIDE DEF S
  <2> QED  BY <1>0, <1>1, <1>2, Upwards
<1>4. m \in S
  <2>1. m \in 0..m
    BY <1>0
  <2> HIDE DEF S
  <2> QED  BY <1>3, <2>1
<1> QED  BY <1>4 DEF m, PublishTurn, N

(* One port more. *)
LEMMA PublishedUnfolds ==
  ASSUME NEW a, NEW s, Len(s) \in Nat
  PROVE  /\ PublishedTo(a, s)[0] = a
         /\ \A i \in 1..Len(s) : PublishedTo(a, s)[i] = Expose(PublishedTo(a, s)[i - 1], s[i])
<1> DEFINE f == PublishedTo(a, s)
<1>1. f = [i \in 0..Len(s) |-> PublishTurn(a, s, f, i)]
  <2>1. \E g : g = [i \in 0..Len(s) |-> PublishTurn(a, s, g, i)]
    BY PublishedExists
  <2> QED  BY <2>1, Zenon DEF PublishedTo, PublishTurn
<1> HIDE DEF f
<1>2. 0 \in 0..Len(s) /\ \A i \in 1..Len(s) : i \in 0..Len(s) /\ i # 0
  OBVIOUS
<1>3. f[0] = a
  BY <1>1, <1>2 DEF PublishTurn
<1>4. \A i \in 1..Len(s) : f[i] = Expose(f[i - 1], s[i])
  BY <1>1, <1>2 DEF PublishTurn
<1> QED  BY <1>3, <1>4 DEF f

(* The mapped ports a and behind them some of the ports s besides, all of  *)
(* the first k among them.                                                 *)
PortsWith(q, a, s, k) ==
  /\ q \in Seq(PortMappings) /\ Len(a) <= Len(q)
  /\ \A i \in 1..Len(a) : q[i] = a[i]
  /\ \A i \in 1..Len(q) : \A j \in 1..Len(a) : Len(a) < i => a[j].container # q[i].container
  /\ \A i \in 1..k : \E j \in 1..Len(q) : q[j].container = s[i]

(* A port that is there is not added; one that is not is added last. *)
LEMMA ExposeAdds ==
  ASSUME NEW a \in Seq(PortMappings), NEW s \in Seq(ContainerPort), NEW k \in Nat,
         k < Len(s), NEW q, PortsWith(q, a, s, k)
  PROVE  PortsWith(Expose(q, s[k + 1]), a, s, k + 1)
<1> DEFINE c == s[k + 1]
<1>1. /\ q \in Seq(PortMappings) /\ Len(a) <= Len(q) /\ Len(a) \in Nat /\ Len(q) \in Nat
      /\ DOMAIN q = 1..Len(q)
      /\ \A i \in 1..Len(a) : q[i] = a[i]
      /\ \A i \in 1..Len(q) : \A j \in 1..Len(a) : Len(a) < i => a[j].container # q[i].container
      /\ \A i \in 1..k : \E j \in 1..Len(q) : q[j].container = s[i]
  BY DEF PortsWith
<1>2. c \in ContainerPort
  BY ElementOfSeq
<1>3. \A i \in 1 .. k + 1 : i \in 1..k \/ s[i] = c
  OBVIOUS
<1> HIDE DEF c
<1>4. CASE \E i \in DOMAIN q : q[i].container = c
  <2>1. Expose(q, c) = q
    BY <1>4 DEF Expose
  <2>2. \A i \in 1 .. k + 1 : \E j \in 1..Len(q) : q[j].container = s[i]
    BY <1>1, <1>3, <1>4
  <2>3. PortsWith(q, a, s, k + 1)
    BY <1>1, <2>2 DEF PortsWith
  <2> QED  BY <2>1, <2>3 DEF c
<1>5. CASE ~\E i \in DOMAIN q : q[i].container = c
  <2> DEFINE p == [host |-> 0, container |-> c]
             r == Append(q, p)
             n == Len(q)
  <2>1. p \in PortMappings /\ p.container = c
    BY <1>2 DEF PortMappings
  <2> HIDE DEF p
  <2>2. /\ r \in Seq(PortMappings) /\ Len(r) = n + 1 /\ r[n + 1] = p
        /\ \A i \in 1..n : r[i] = q[i]
    BY <1>1, <2>1, AppendProperties
  <2>3. Expose(q, c) = r
    BY <1>5 DEF Expose, p
  <2> HIDE DEF r
  <2>4. n \in Nat /\ Len(a) <= n /\ Len(a) \in Nat
    BY <1>1
  <2>5. \A i \in 1..Len(a) : i \in 1..n
    BY <2>4
  <2>6. \A i \in 1 .. n + 1 : i \in 1..n \/ i = n + 1
    BY <2>4
  <2>7. \A i \in 1..n : i \in 1 .. n + 1
    BY <2>4
  <2>8. n + 1 \in 1 .. n + 1
    BY <2>4
  <2>9. ASSUME NEW i \in 1 .. n + 1, NEW j \in 1..Len(a), Len(a) < i
        PROVE  a[j].container # r[i].container
    <3>1. CASE i \in 1..n
      BY <1>1, <2>2, <2>9, <3>1
    <3>2. CASE i = n + 1
      <4>1. a[j] = q[j] /\ j \in DOMAIN q
        BY <1>1, <2>5
      <4> QED  BY <1>5, <2>1, <2>2, <3>2, <4>1
    <3> QED  BY <2>6, <3>1, <3>2
  <2>10. ASSUME NEW i \in 1 .. k + 1 PROVE \E j \in 1 .. n + 1 : r[j].container = s[i]
    <3>1. CASE i \in 1..k
      <4>1. PICK j \in 1..n : q[j].container = s[i]
        BY <1>1, <3>1
      <4> QED  BY <2>2, <2>7, <4>1
    <3>2. CASE s[i] = c
      BY <2>1, <2>2, <2>8, <3>2
    <3> QED  BY <1>3, <3>1, <3>2
  <2>11. (\A i \in 1..Len(a) : r[i] = a[i]) /\ Len(a) <= n + 1
    BY <1>1, <2>2, <2>4, <2>5
  <2>12. PortsWith(r, a, s, k + 1)
    BY <2>2, <2>9, <2>10, <2>11 DEF PortsWith
  <2> QED  BY <2>3, <2>12 DEF c
<1> QED  BY <1>4, <1>5

(* The mapped ports, and behind them what the image exposes besides. *)
LEMMA PublishedIs ==
  ASSUME RequestInv
  PROVE  /\ DOMAIN Published = 1..Len(Published) /\ Len(Published) \in Nat
         /\ \A i \in DOMAIN req["ports"] : i \in DOMAIN Published /\ Published[i] = req["ports"][i]
         /\ \A i \in DOMAIN Published : \A j \in DOMAIN req["ports"] :
              i \notin DOMAIN req["ports"] => req["ports"][j].container # Published[i].container
         /\ \A i \in DOMAIN img.expose :
              \E j \in DOMAIN Published : Published[j].container = img.expose[i]
<1> DEFINE a == req["ports"]
           s == img.expose
           f == PublishedTo(a, s)
           n == Len(s)
           G == {k \in 0..n : PortsWith(f[k], a, s, k)}
<1>1. a \in Seq(PortMappings)
  BY AskedIs
<1>2. s \in Seq(ContainerPort)
  <2> DEFINE T == <<80, "tcp">>
             U == <<80, "udp">>
             X == <<80, "sctp">>
  <2>1. s \in {<<>>, <<T, T>>, <<U, X>>}
    BY DEF RequestInv, Images
  <2>2. T \in ContainerPort /\ U \in ContainerPort /\ X \in ContainerPort
    BY DEF ContainerPort
  <2> HIDE DEF T, U, X
  <2>3. \A c, d \in ContainerPort : <<c, d>> \in Seq(ContainerPort)
    OBVIOUS
  <2>4. <<>> \in Seq(ContainerPort)
    OBVIOUS
  <2> QED  BY <2>1, <2>2, <2>3, <2>4, Zenon
<1>3. Published = f[n]
  BY DEF Published
<1> HIDE DEF a, s
<1>4. n \in Nat /\ DOMAIN s = 1..n /\ Len(a) \in Nat /\ DOMAIN a = 1..Len(a)
  BY <1>1, <1>2
<1>5. f[0] = a /\ \A i \in 1..n : f[i] = Expose(f[i - 1], s[i])
  BY <1>4, PublishedUnfolds
<1> HIDE DEF f
<1>6. 0 \in G
  <2>1. PortsWith(a, a, s, 0)
    BY <1>1, <1>4 DEF PortsWith
  <2> QED  BY <1>4, <1>5, <2>1
<1>7. ASSUME NEW k \in 0..n, k # n, k \in G PROVE k + 1 \in G
  <2>1. /\ k + 1 \in 1..n /\ (k + 1) - 1 = k /\ k + 1 \in 0..n /\ k \in Nat /\ k < Len(s)
        /\ PortsWith(f[k], a, s, k)
    <3>1. k \in 0..n /\ PortsWith(f[k], a, s, k)
      BY <1>7, Zenon
    <3>2. Len(s) = n
      OBVIOUS
    <3> HIDE DEF n
    <3> QED  BY <1>4, <1>7, <3>1, <3>2
  <2>2. PortsWith(Expose(f[k], s[k + 1]), a, s, k + 1)
    BY <1>1, <1>2, <2>1, ExposeAdds
  <2>3. f[k + 1] = Expose(f[k], s[k + 1])
    BY <1>5, <2>1
  <2> QED  BY <2>1, <2>2, <2>3
<1>8. 0..n \subseteq G
  <2> HIDE DEF G, n
  <2> QED  BY <1>4, <1>6, <1>7, Upwards
<1>9. PortsWith(Published, a, s, n)
  <2>1. n \in 0..n
    BY <1>4
  <2> QED  BY <1>3, <1>8, <2>1
<1>10. /\ Published \in Seq(PortMappings) /\ Len(a) <= Len(Published)
       /\ \A i \in 1..Len(a) : Published[i] = a[i]
       /\ \A i \in 1..Len(Published) : \A j \in 1..Len(a) :
            Len(a) < i => a[j].container # Published[i].container
       /\ \A i \in 1..n : \E j \in 1..Len(Published) : Published[j].container = s[i]
  BY <1>9 DEF PortsWith
<1>11. DOMAIN Published = 1..Len(Published) /\ Len(Published) \in Nat
  BY <1>10
<1> HIDE DEF n
<1>12. \A i \in DOMAIN a : i \in DOMAIN Published /\ Published[i] = a[i]
  BY <1>4, <1>10, <1>11
<1>13. \A i \in DOMAIN Published : i \notin DOMAIN a => Len(a) < i
  BY <1>4, <1>11
<1>14. \A i \in DOMAIN Published : \A j \in DOMAIN a :
         i \notin DOMAIN a => a[j].container # Published[i].container
  BY <1>4, <1>10, <1>11, <1>13
<1>15. \A i \in DOMAIN s : \E j \in DOMAIN Published : Published[j].container = s[i]
  BY <1>4, <1>10, <1>11
<1> QED  BY <1>11, <1>12, <1>14, <1>15 DEF a, s

(* Every port asked for is published, at the host port asked for. *)
LEMMA PortsTold ==
  ASSUME RequestInv, ~RejectDuplicateMappedPorts, NEW h,
         \A i \in DOMAIN Published : Published[i].host # 0 => h[i] = Published[i].host
  PROVE  /\ \A i \in DOMAIN req["ports"] :
              /\ req["ports"][i].container \in DOMAIN ByContainerPort(h)
              /\ req["ports"][i].host # 0 =>
                   ByContainerPort(h)[req["ports"][i].container] = req["ports"][i].host
         /\ \A i \in DOMAIN img.expose : img.expose[i] \in DOMAIN ByContainerPort(h)
<1> DEFINE at(c) == CHOOSE i \in DOMAIN Published : Published[i].container = c
           C == {Published[i].container : i \in DOMAIN Published}
<1>1. DOMAIN ByContainerPort(h) = C /\ \A c \in C : ByContainerPort(h)[c] = h[at(c)]
  BY DEF ByContainerPort
<1>2. ASSUME NEW c \in C PROVE at(c) \in DOMAIN Published /\ Published[at(c)].container = c
  <2>1. \E i \in DOMAIN Published : Published[i].container = c
    BY <1>2
  <2> QED  BY <2>1
<1>3. ASSUME NEW i \in DOMAIN req["ports"]
      PROVE  /\ req["ports"][i].container \in C
             /\ req["ports"][i].host # 0 => h[at(req["ports"][i].container)] = req["ports"][i].host
  <2> DEFINE c == req["ports"][i].container
             a == at(c)
  <2>1. i \in DOMAIN Published /\ Published[i] = req["ports"][i]
    BY <1>3, PublishedIs
  <2>2. c \in C
    BY <2>1
  <2>3. a \in DOMAIN Published /\ Published[a].container = c
    BY <1>2, <2>2
  <2> HIDE DEF a
  <2>4. a \in DOMAIN req["ports"]
    BY <1>3, <2>3, PublishedIs
  <2>5. Published[a] = req["ports"][a]
    BY <2>4, PublishedIs
  <2>6. a = i
    BY <1>3, <2>3, <2>4, <2>5 DEF RejectDuplicateMappedPorts
  <2>7. Published[i].host # 0 => h[i] = Published[i].host
    BY <2>1
  <2> QED  BY <2>1, <2>2, <2>6, <2>7 DEF a
<1>4. ASSUME NEW i \in DOMAIN img.expose PROVE img.expose[i] \in C
  BY <1>4, PublishedIs
<1> HIDE DEF C, at
<1> QED  BY <1>1, <1>3, <1>4

(* No two ports get the same host port on macOS. *)
LEMMA PortsDiffer ==
  ASSUME RequestInv, NEW h \in HostPortChoices, ~Taken(h)
  PROVE  \A c, d \in DOMAIN ByContainerPort(h) :
           c # d => ByContainerPort(h)[c] # ByContainerPort(h)[d]
<1> DEFINE at(c) == CHOOSE i \in DOMAIN Published : Published[i].container = c
           C == {Published[i].container : i \in DOMAIN Published}
<1>1. DOMAIN ByContainerPort(h) = C /\ \A c \in C : ByContainerPort(h)[c] = h[at(c)]
  BY DEF ByContainerPort
<1>2. ASSUME NEW c \in C PROVE at(c) \in DOMAIN Published /\ Published[at(c)].container = c
  <2>1. \E i \in DOMAIN Published : Published[i].container = c
    BY <1>2
  <2> QED  BY <2>1
<1>3. /\ DOMAIN h = DOMAIN Published
      /\ \A i \in DOMAIN Published :
           Published[i].host # 0 \/ \A j \in 1 .. i - 1 : h[j] # h[i]
  BY DEF HostPortChoices
<1>4. ASSUME NEW i \in DOMAIN Published, NEW j \in 1 .. i - 1 PROVE h[j] # h[i]
  BY <1>3, <1>4 DEF Taken
<1>5. ASSUME NEW i \in DOMAIN Published, NEW j \in DOMAIN Published, i # j PROVE h[i] # h[j]
  <2>1. DOMAIN Published = 1..Len(Published) /\ Len(Published) \in Nat
    BY PublishedIs
  <2>2. i \in 1 .. j - 1 \/ j \in 1 .. i - 1
    BY <1>5, <2>1
  <2> QED  BY <1>4, <2>2
<1>6. ASSUME NEW c \in C, NEW d \in C, c # d PROVE h[at(c)] # h[at(d)]
  <2>1. at(c) \in DOMAIN Published /\ at(d) \in DOMAIN Published /\ at(c) # at(d)
    BY <1>2, <1>6
  <2> HIDE DEF at
  <2> QED  BY <1>5, <2>1
<1> HIDE DEF C, at
<1> QED  BY <1>1, <1>6

(* What both payloads share says what was asked for. *)
LEMMA CommonHonours ==
  ASSUME RequestInv, NEW t, \A s \in CommonFields : t[s] = Common[s]
  PROVE  /\ \A s \in {"readonly_rootfs", "shm_size", "startup_timeout", "ready_conditions",
                      "init"} : Asked(s) => t[s] = Last(ValuesOf(s))
         /\ t["image"] = <<LastOr("name", "image"), LastOr("tag", "image")>>
         /\ ~Asked("ready_conditions") => t["ready_conditions"] = "image"
         /\ t["entrypoint"] = img.entrypoint
         /\ t["cmd"] = IF Asked("cmd") /\ Last(ValuesOf("cmd")) # <<>>
                       THEN Last(ValuesOf("cmd")) ELSE img.cmd
         /\ \A s \in MapSettings : Asked(s) => t[s]["k"] = Last(ValuesOf(s))
         /\ ~Asked("env") => t["env"] = img.env
         /\ t["copies"] = img.copies \o ValuesOf("copies")
         /\ \A s \in {"consumers", "cap_drop"} : t[s] = ValuesOf(s)
<1>1. \A s \in Scalars : Asked(s) => req[s] = Last(ValuesOf(s)) /\ req[s] \in Values(s)
  BY AskedIs
<1>2. /\ t["cmd"] = Cmd /\ t["image"] = Descriptor /\ t["env"] = Env
      /\ t["entrypoint"] = img.entrypoint /\ t["copies"] = AllCopies
      /\ \A s \in {"labels", "hosts", "init", "shm_size", "readonly_rootfs", "cap_drop",
                   "consumers"} : t[s] = req[s]
      /\ t["startup_timeout"] = OrElse(req["startup_timeout"], "60s")
      /\ t["ready_conditions"] = OrElse(req["ready_conditions"], "image")
  BY CommonHas DEF CommonFields
<1>3. {"readonly_rootfs", "shm_size", "startup_timeout", "ready_conditions", "init", "name", "tag",
       "cmd"} \subseteq Scalars
  BY DEF Scalars, IdentitySettings, ProcessSettings, FlagSettings, RuntimeSettings
<1>4. ASSUME NEW s \in {"readonly_rootfs", "shm_size", "startup_timeout", "ready_conditions",
                        "init"}, Asked(s)
      PROVE  t[s] = Last(ValuesOf(s))
  <2>1. s \in Scalars /\ req[s] = Last(ValuesOf(s)) /\ req[s] \in Values(s)
    BY <1>1, <1>3, <1>4
  <2>2. CASE s \in {"startup_timeout", "ready_conditions"}
    <3>1. req[s] \in {"a", "b"}
      BY <2>1, <2>2, ValuesAre
    <3>2. \A d : OrElse(req[s], d) = req[s]
      BY <3>1 DEF OrElse, None
    <3> QED  BY <1>2, <2>1, <2>2, <3>2
  <2>3. CASE s \notin {"startup_timeout", "ready_conditions"}
    BY <1>2, <1>4, <2>1, <2>3
  <2> QED  BY <2>2, <2>3
<1>5. t["image"] = <<LastOr("name", "image"), LastOr("tag", "image")>>
  <2>1. ASSUME NEW s \in {"name", "tag"} PROVE OrElse(req[s], "image") = LastOr(s, "image")
    <3>1. CASE Asked(s)
      <4>1. req[s] = Last(ValuesOf(s)) /\ req[s] \in {"a", "b"}
        BY <1>1, <1>3, <3>1, ValuesAre
      <4> QED  BY <3>1, <4>1 DEF OrElse, None, LastOr
    <3>2. CASE ~Asked(s)
      <4>1. req[s] = None
        BY <3>2 DEF RequestInv, DefaultsKept, Defaulted, DefaultOf
      <4> QED  BY <3>2, <4>1 DEF OrElse, LastOr
    <3> QED  BY <3>1, <3>2
  <2> QED  BY <1>2, <2>1, Zenon DEF Descriptor
<1>10. ~Asked("ready_conditions") => t["ready_conditions"] = "image"
  <2>1. ~Asked("ready_conditions") => req["ready_conditions"] = None
    BY DEF RequestInv, DefaultsKept, Defaulted, DefaultOf
  <2> QED  BY <1>2, <2>1 DEF OrElse
<1>6. t["cmd"] = IF Asked("cmd") /\ Last(ValuesOf("cmd")) # <<>>
                 THEN Last(ValuesOf("cmd")) ELSE img.cmd
  <2>1. CASE Asked("cmd")
    BY <1>1, <1>2, <1>3, <2>1 DEF Cmd
  <2>2. CASE ~Asked("cmd")
    BY <1>2, <2>2 DEF Cmd, RequestInv, DefaultsKept, Defaulted, DefaultOf
  <2> QED  BY <2>1, <2>2
<1>7. ASSUME NEW s \in MapSettings, Asked(s) PROVE t[s]["k"] = Last(ValuesOf(s))
  <2>1. "k" \in DOMAIN req[s] /\ req[s]["k"] = Last(ValuesOf(s))
    BY <1>7 DEF RequestInv, MapsKept
  <2>2. CASE s = "env"
    <3>1. (req["env"] ++ img.env)["k"] = req["env"]["k"]
      BY <2>1, <2>2, InUpper
    <3> QED  BY <1>2, <2>1, <2>2, <3>1 DEF Env
  <2>3. CASE s # "env"
    <3>1. t[s] = req[s]
      BY <1>2, <2>3 DEF MapSettings
    <3> QED  BY <2>1, <3>1
  <2> QED  BY <2>2, <2>3
<1>8. ASSUME ~Asked("env") PROVE t["env"] = img.env
  <2>1. req["env"] = <<>>
    BY <1>8 DEF RequestInv, MapsKept, MapSettings
  <2>2. <<>> ++ <<>> = <<>> /\ <<>> ++ [k |-> "image"] = [k |-> "image"]
    BY DEF ++
  <2>3. img.env \in {<<>>, [k |-> "image"]}
    BY DEF RequestInv, Images
  <2>4. Env = <<>> ++ img.env
    BY <2>1 DEF Env
  <2>5. Env = img.env
    BY <2>2, <2>3, <2>4, Zenon
  <2> QED  BY <1>2, <2>5
<1>9. /\ t["copies"] = img.copies \o ValuesOf("copies")
      /\ \A s \in {"consumers", "cap_drop"} : t[s] = ValuesOf(s)
  <2>1. \A s \in {"copies", "consumers", "cap_drop"} : req[s] = ValuesOf(s)
    BY DEF RequestInv, ListsKept, ListSettings
  <2>2. AllCopies = img.copies \o ValuesOf("copies")
    BY <2>1, Zenon DEF AllCopies
  <2> QED  BY <1>2, <2>1, <2>2
<1> QED  BY <1>2, <1>4, <1>5, <1>6, <1>7, <1>8, <1>9, <1>10

(* Whether privileged was asked for. *)
LEMMA PrivilegedIs == ASSUME RequestInv PROVE req["privileged"] = LastOr("privileged", FALSE)
<1>1. CASE Asked("privileged")
  <2>1. "privileged" \in Scalars
    BY Kinds DEF Defaulted
  <2> QED  BY <1>1, <2>1, AskedIs, Zenon DEF LastOr
<1>2. CASE ~Asked("privileged")
  <2>1. req["privileged"] = FALSE
    BY <1>2 DEF RequestInv, DefaultsKept, Defaulted, DefaultOf
  <2> QED  BY <1>2, <2>1, Zenon DEF LastOr
<1> QED  BY <1>1, <1>2

(* The mounts are the image's and those asked for. *)
LEMMA MountsAre ==
  ASSUME RequestInv
  PROVE  /\ AllMounts = img.mounts \o ValuesOf("mounts") /\ AllMounts \in Seq(Mounts)
         /\ DOMAIN AllMounts = 1 .. Len(img.mounts) + Len(ValuesOf("mounts"))
<1>1. req["mounts"] = ValuesOf("mounts") /\ req["mounts"] \in Seq(Mounts)
  BY AskedIs
<1>2. img.mounts \in Seq(Mounts)
  <2>1. img.mounts \in {<<>>, <<[type |-> "bind", mode |-> "ro"]>>}
    BY DEF RequestInv, Images
  <2>2. [type |-> "bind", mode |-> "ro"] \in Mounts
    BY DEF Mounts
  <2>3. \A m \in Mounts : <<m>> \in Seq(Mounts)
    OBVIOUS
  <2>4. <<>> \in Seq(Mounts)
    OBVIOUS
  <2> QED  BY <2>1, <2>2, <2>3, <2>4, Zenon
<1> DEFINE a == img.mounts
           b == req["mounts"]
<1> HIDE DEF a, b
<1>3. a \o b \in Seq(Mounts) /\ Len(a \o b) = Len(a) + Len(b)
  BY <1>1, <1>2, ConcatProperties DEF a, b
<1>4. DOMAIN (a \o b) = 1 .. Len(a) + Len(b)
  BY <1>3
<1> QED  BY <1>1, <1>3, <1>4 DEF a, b, AllMounts

(* start changes neither the calls nor the image. *)
LEMMA SameCalls ==
  ASSUME UNCHANGED <<img, req, calls>>
  PROVE  \A s : /\ ValuesOf(s)' = ValuesOf(s) /\ (Asked(s)' <=> Asked(s))
                /\ Last(ValuesOf(s))' = Last(ValuesOf(s))
                /\ \A d : LastOr(s, d)' = LastOr(s, d)
<1>1. \A s : ValuesOf(s)' = ValuesOf(s)
  BY DEF ValuesOf
<1>2. \A s : (Asked(s)' <=> Asked(s)) /\ Last(ValuesOf(s))' = Last(ValuesOf(s))
  BY <1>1 DEF Asked, Last
<1> QED  BY <1>1, <1>2 DEF LastOr

(* The body of create on Linux honours what was asked for. *)
LEMMA LinuxHonours == ASSUME RequestInv, StartLinux PROVE SettingsHonoured'
<1> SUFFICES ASSUME verdict' = "created" PROVE SettingsHonoured'
  BY DEF SettingsHonoured
<1>1. /\ told' = CreateContainerBody /\ os' = "linux" /\ ~LinuxUnsupported
      /\ ~RejectDuplicateMappedPorts /\ UNCHANGED <<img, req, calls>>
  BY DEF StartLinux
<1> DEFINE B == CreateContainerBody
<1>2. /\ \A s \in CommonFields : B[s] = Common[s]
      /\ \A s \in {"container_name", "platform", "working_dir", "user", "hostname", "privileged",
                   "cap_add", "network"} : B[s] = req[s]
      /\ B["open_stdin"] = OrElse(req["open_stdin"], "closed")
      /\ B["health_check"] = ToDockerJson(req["health_check"])
      /\ B["mounts"] = AllMounts /\ B["ports"] = BuildPortBindings
  BY LinuxBodyHas
<1>3. told' = B
  BY <1>1
<1> HIDE DEF B
<1>4. \A s : /\ ValuesOf(s)' = ValuesOf(s) /\ (Asked(s)' <=> Asked(s))
             /\ Last(ValuesOf(s))' = Last(ValuesOf(s))
             /\ \A d : LastOr(s, d)' = LastOr(s, d)
  BY <1>1, SameCalls
<1>5. \A s \in Scalars : Asked(s) => req[s] = Last(ValuesOf(s)) /\ req[s] \in Values(s)
  BY AskedIs
<1>6. HonouredAsIs \cup {"user", "privileged", "health_check", "platform"} \subseteq Scalars
  BY DEF HonouredAsIs, Scalars, IdentitySettings, ProcessSettings, FlagSettings, RuntimeSettings
<1>7. /\ \A s \in {"readonly_rootfs", "shm_size", "startup_timeout", "ready_conditions",
                   "init"} : Asked(s) => B[s] = Last(ValuesOf(s))
      /\ B["image"] = <<LastOr("name", "image"), LastOr("tag", "image")>>
      /\ ~Asked("ready_conditions") => B["ready_conditions"] = "image"
      /\ B["entrypoint"] = img.entrypoint
      /\ B["cmd"] = IF Asked("cmd") /\ Last(ValuesOf("cmd")) # <<>>
                    THEN Last(ValuesOf("cmd")) ELSE img.cmd
      /\ \A s \in MapSettings : Asked(s) => B[s]["k"] = Last(ValuesOf(s))
      /\ ~Asked("env") => B["env"] = img.env
      /\ B["copies"] = img.copies \o ValuesOf("copies")
      /\ \A s \in {"consumers", "cap_drop"} : B[s] = ValuesOf(s)
  BY <1>2, CommonHonours
<1>8. ASSUME NEW s \in HonouredAsIs, Asked(s) PROVE B[s] = Last(ValuesOf(s))
  <2>1. req[s] = Last(ValuesOf(s)) /\ req[s] \in Values(s)
    BY <1>5, <1>6, <1>8
  <2>2. CASE s \in {"readonly_rootfs", "shm_size", "startup_timeout", "ready_conditions", "init"}
    BY <1>7, <1>8, <2>2
  <2>3. CASE s \in {"container_name", "working_dir", "hostname", "network"}
    BY <1>2, <2>1, <2>3
  <2>4. CASE s = "open_stdin"
    <3>1. req[s] \in {"open", "closed"}
      BY <2>1, <2>4, ValuesAre
    <3> QED  BY <1>2, <2>1, <2>4, <3>1 DEF OrElse, None
  <2>5. s # "ssh"
    <3>1. s = "ssh" => req["ssh"] = TRUE
      BY <2>1, ValuesAre
    <3>2. ~req["ssh"]
      BY <1>1, Zenon DEF LinuxUnsupported
    <3> QED  BY <3>1, <3>2, Zenon
  <2>6. s \notin {"masked_paths", "readonly_paths", "kernel"}
    <3>1. s \in {"masked_paths", "readonly_paths", "kernel"} => req[s] # None
      BY <2>1, ValuesAre DEF None
    <3> QED  BY <1>1, <3>1 DEF LinuxUnsupported
  <2> QED  BY <1>8, <2>2, <2>3, <2>4, <2>5, <2>6 DEF HonouredAsIs
<1>9. Asked("user") => B["user"] = Last(ValuesOf("user"))
  BY <1>2, <1>5, <1>6
<1>10. B["privileged"] = LastOr("privileged", FALSE)
  BY <1>2, PrivilegedIs, Zenon
<1>11. Asked("health_check") /\ Last(ValuesOf("health_check")) = "test"
         => B["health_check"] = "test"
  BY <1>2, <1>5, <1>6 DEF ToDockerJson
<1>12. Asked("platform") => B["platform"] = Last(ValuesOf("platform"))
  BY <1>2, <1>5, <1>6
<1>13. B["cap_add"] = ValuesOf("cap_add")
  BY <1>2 DEF RequestInv, ListsKept, ListSettings
<1>14. /\ B["mounts"] = img.mounts \o ValuesOf("mounts")
       /\ DOMAIN B["mounts"] = 1 .. Len(img.mounts) + Len(ValuesOf("mounts"))
  BY <1>2, MountsAre
<1>15. /\ \A i \in DOMAIN ValuesOf("ports") :
            /\ ValuesOf("ports")[i].container \in DOMAIN B["ports"]
            /\ ValuesOf("ports")[i].host # 0 =>
                 B["ports"][ValuesOf("ports")[i].container] = ValuesOf("ports")[i].host
       /\ \A i \in DOMAIN img.expose : img.expose[i] \in DOMAIN B["ports"]
  <2> DEFINE h == [i \in DOMAIN Published |-> Published[i].host]
  <2>1. \A i \in DOMAIN Published : Published[i].host # 0 => h[i] = Published[i].host
    OBVIOUS
  <2>2. B["ports"] = ByContainerPort(h)
    BY <1>2 DEF BuildPortBindings
  <2> HIDE DEF h
  <2>3. req["ports"] = ValuesOf("ports")
    BY AskedIs
  <2> QED  BY <1>1, <2>1, <2>2, <2>3, PortsTold
<1>16. UserHonoured(Last(ValuesOf("user")))' \/ ~Asked("user")
  BY <1>3, <1>4, <1>9 DEF UserHonoured
<1>17. ASSUME NEW m \in {(img.mounts \o ValuesOf("mounts"))[i] :
                          i \in 1 .. Len(img.mounts) + Len(ValuesOf("mounts"))}
       PROVE  MountHonoured(m)'
  BY <1>1, <1>3, <1>14 DEF MountHonoured
<1>18. \A i \in DOMAIN ValuesOf("ports") : PortHonoured(ValuesOf("ports")[i])'
  BY <1>3, <1>4, <1>15 DEF PortHonoured
<1>19. \A s \in HonouredAsIs : Asked(s)' => told'[s] = Last(ValuesOf(s))'
  BY <1>3, <1>4, <1>8
<1>20. /\ told'["image"] = <<LastOr("name", "image")', LastOr("tag", "image")'>>
       /\ ~Asked("ready_conditions")' => told'["ready_conditions"] = "image"
       /\ told'["entrypoint"] = img'.entrypoint
       /\ told'["cmd"] = IF Asked("cmd")' /\ Last(ValuesOf("cmd"))' # <<>>
                         THEN Last(ValuesOf("cmd"))' ELSE img'.cmd
       /\ \A s \in MapSettings : Asked(s)' => told'[s].k = Last(ValuesOf(s))'
       /\ ~Asked("env")' => told'["env"] = img'.env
       /\ told'["copies"] = img'.copies \o ValuesOf("copies")'
       /\ \A s \in {"consumers", "cap_drop"} : told'[s] = ValuesOf(s)'
  BY <1>1, <1>3, <1>4, <1>7
<1>21. /\ Asked("user")' => UserHonoured(Last(ValuesOf("user")))'
       /\ told'["privileged"] = LastOr("privileged", FALSE)'
       /\ Last(ValuesOf("health_check"))' = "test" /\ Asked("health_check")'
            => told'["health_check"] = "test"
       /\ Asked("platform")' => told'["platform"] = Last(ValuesOf("platform"))'
       /\ told'["cap_add"] = ValuesOf("cap_add")'
  BY <1>3, <1>4, <1>10, <1>11, <1>12, <1>13, <1>16
<1>22. \A m \in {(img.mounts \o ValuesOf("mounts"))[i] :
                   i \in 1 .. Len(img.mounts) + Len(ValuesOf("mounts"))}' : MountHonoured(m)'
  BY <1>1, <1>4, <1>17
<1>23. \A i \in DOMAIN ValuesOf("ports")' : PortHonoured(ValuesOf("ports")[i])'
  BY <1>4, <1>18
<1>24. \A i \in DOMAIN img'.expose : img'.expose[i] \in DOMAIN told'["ports"]
  BY <1>1, <1>3, <1>15
<1> QED  BY <1>1, <1>19, <1>20, <1>21, <1>22, <1>23, <1>24 DEF SettingsHonoured

(* The configuration on macOS honours what was asked for. *)
LEMMA MacHonours == ASSUME RequestInv, StartMac PROVE SettingsHonoured'
<1> SUFFICES ASSUME verdict' = "created" PROVE SettingsHonoured'
  BY DEF SettingsHonoured
<1>1. PICK h \in HostPortChoices : ~Taken(h) /\ told' = BuildConfig(h)
  BY DEF StartMac
<1>2. os' = "macos" /\ ~MacRejects /\ ~InvalidGid /\ UNCHANGED <<img, req, calls>>
  BY DEF StartMac
<1> DEFINE B == BuildConfig(h)
<1>3. /\ \A s \in CommonFields : B[s] = Common[s]
      /\ \A s \in {"ssh", "masked_paths", "readonly_paths"} : B[s] = req[s]
      /\ B["container_name"] = OrElse(req["container_name"], "id")
      /\ B["working_dir"] = OrElse(req["working_dir"], "/")
      /\ B["user"] = ParseUser /\ B["open_stdin"] = OrElse(req["open_stdin"], "closed")
      /\ B["hostname"] = OrElse(req["hostname"], OrElse(req["container_name"], "id"))
      /\ B["network"] = OrElse(req["network"], "default")
      /\ B["platform"] = NormalizePlatform /\ B["ports"] = ByContainerPort(h)
      /\ B["cap_add"] = IF req["privileged"] THEN <<"ALL">> ELSE req["cap_add"]
      /\ B["mounts"] = [i \in DOMAIN AllMounts |-> MountCfg(AllMounts[i])]
      /\ B["kernel"] = OrElse(req["kernel"], "default")
  BY MacBodyHas
<1>4. told' = B
  BY <1>1
<1> HIDE DEF B
<1>5. \A s : /\ ValuesOf(s)' = ValuesOf(s) /\ (Asked(s)' <=> Asked(s))
             /\ Last(ValuesOf(s))' = Last(ValuesOf(s))
             /\ \A d : LastOr(s, d)' = LastOr(s, d)
  BY <1>2, SameCalls
<1>6. \A s \in Scalars : Asked(s) => req[s] = Last(ValuesOf(s)) /\ req[s] \in Values(s)
  BY AskedIs
<1>7. HonouredAsIs \cup {"user", "privileged", "health_check", "platform"} \subseteq Scalars
  BY DEF HonouredAsIs, Scalars, IdentitySettings, ProcessSettings, FlagSettings, RuntimeSettings
<1>8. /\ \A s \in {"readonly_rootfs", "shm_size", "startup_timeout", "ready_conditions",
                   "init"} : Asked(s) => B[s] = Last(ValuesOf(s))
      /\ B["image"] = <<LastOr("name", "image"), LastOr("tag", "image")>>
      /\ ~Asked("ready_conditions") => B["ready_conditions"] = "image"
      /\ B["entrypoint"] = img.entrypoint
      /\ B["cmd"] = IF Asked("cmd") /\ Last(ValuesOf("cmd")) # <<>>
                    THEN Last(ValuesOf("cmd")) ELSE img.cmd
      /\ \A s \in MapSettings : Asked(s) => B[s]["k"] = Last(ValuesOf(s))
      /\ ~Asked("env") => B["env"] = img.env
      /\ B["copies"] = img.copies \o ValuesOf("copies")
      /\ \A s \in {"consumers", "cap_drop"} : B[s] = ValuesOf(s)
  BY <1>3, CommonHonours
<1>9. ASSUME NEW s \in HonouredAsIs, Asked(s) PROVE B[s] = Last(ValuesOf(s))
  <2>1. req[s] = Last(ValuesOf(s)) /\ req[s] \in Values(s)
    BY <1>6, <1>7, <1>9
  <2>2. CASE s \in {"readonly_rootfs", "shm_size", "startup_timeout", "ready_conditions", "init"}
    BY <1>8, <1>9, <2>2
  <2>3. CASE s \in {"ssh", "masked_paths", "readonly_paths"}
    BY <1>3, <2>1, <2>3
  <2>4. CASE s \in {"container_name", "working_dir", "open_stdin", "hostname", "network", "kernel"}
    <3>1. req[s] # None
      BY <2>1, <2>4, ValuesAre DEF None
    <3>2. \A d : OrElse(req[s], d) = req[s]
      BY <3>1 DEF OrElse
    <3> QED  BY <1>3, <2>1, <2>4, <3>2
  <2> QED  BY <1>9, <2>2, <2>3, <2>4 DEF HonouredAsIs
<1>10. ASSUME Asked("user") PROVE UserHonoured(Last(ValuesOf("user")))'
  <2> DEFINE u == req["user"]
  <2>1. u = Last(ValuesOf("user")) /\ u \in Users
    BY <1>6, <1>7, <1>10, ValuesAre
  <2>2. CASE u.uid = "app"
    <3>1. u # NoUser
      BY <2>2 DEF NoUser, None
    <3>2. B["user"] = [raw |-> u]
      BY <1>3, <2>2, <3>1 DEF ParseUser
    <3> QED  BY <1>4, <1>5, <2>1, <3>2 DEF UserHonoured
  <2>3. CASE u.uid # "app"
    <3>1. u.uid = "1000" /\ u.gid \in {None, "", "10", "staff"}
      <4>1. u # [uid |-> "app", gid |-> None]
        BY <2>3
      <4> HIDE DEF u
      <4>2. PICK g \in {None, "", "10", "staff"} : u = [uid |-> "1000", gid |-> g]
        BY <2>1, <4>1 DEF Users
      <4> QED  BY <4>2
    <3>2. u # NoUser /\ u.gid # "staff"
      <4>1. u.gid # "staff"
        BY <1>2, <3>1 DEF InvalidGid
      <4>2. NoUser.uid # "1000"
        BY DEF NoUser, None
      <4> QED  BY <3>1, <4>1, <4>2
    <3>3. B["user"] = [uid |-> u.uid, gid |-> IF u.gid \in {None, ""} THEN "0" ELSE u.gid]
      BY <1>3, <2>3, <3>2 DEF ParseUser
    <3>4. (IF u.gid \in {None, ""} THEN "0" ELSE u.gid) = IF u.gid = "10" THEN "10" ELSE "0"
      BY <3>1, <3>2 DEF None
    <3>5. B["user"] = [uid |-> u.uid, gid |-> IF u.gid = "10" THEN "10" ELSE "0"]
      BY <3>3, <3>4
    <3> HIDE DEF u
    <3> QED  BY <1>4, <1>5, <2>1, <2>3, <3>2, <3>5 DEF UserHonoured
  <2> QED  BY <2>2, <2>3
<1>11. B["cap_add"] = IF LastOr("privileged", FALSE) THEN <<"ALL">> ELSE ValuesOf("cap_add")
  <2>1. req["cap_add"] = ValuesOf("cap_add")
    BY DEF RequestInv, ListsKept, ListSettings
  <2> QED  BY <1>3, <2>1, PrivilegedIs, Zenon
<1>12. ~Asked("health_check")
  <2>1. Asked("health_check") => req["health_check"] # None
    BY <1>6, <1>7, ValuesAre DEF None
  <2> QED  BY <1>2, <2>1 DEF MacRejects
<1>13. ASSUME Asked("platform"), Last(ValuesOf("platform")) # "windows/amd64"
       PROVE  B["platform"].arch = IF Last(ValuesOf("platform")) = "linux/arm64"
                                   THEN "arm64" ELSE "amd64"
  <2>1. /\ req["platform"] = Last(ValuesOf("platform"))
        /\ req["platform"] \in {"amd64", "linux/amd64", "linux/arm64"}
    BY <1>6, <1>7, <1>13, ValuesAre
  <2> QED  BY <1>3, <2>1 DEF NormalizePlatform
<1>15. ASSUME NEW m \in {(img.mounts \o ValuesOf("mounts"))[i] :
                          i \in 1 .. Len(img.mounts) + Len(ValuesOf("mounts"))}
       PROVE  MountHonoured(m)'
  <2>1. PICK i \in DOMAIN AllMounts : m = AllMounts[i]
    BY <1>15, MountsAre
  <2>2. i \in DOMAIN B["mounts"] /\ B["mounts"][i] = MountCfg(m)
    BY <1>3, <2>1
  <2>3. m \in Mounts
    BY <2>1, MountsAre
  <2>4. /\ MountCfg(m).options = m.mode
        /\ MountCfg(m).fs = IF m.type = "bind" THEN "virtiofs" ELSE m.type
    BY <2>3 DEF MountCfg, FsType, Mounts
  <2> QED  BY <1>2, <1>4, <2>2, <2>4 DEF MountHonoured
<1>16. /\ \A i \in DOMAIN ValuesOf("ports") :
            /\ ValuesOf("ports")[i].container \in DOMAIN B["ports"]
            /\ ValuesOf("ports")[i].host # 0 =>
                 B["ports"][ValuesOf("ports")[i].container] = ValuesOf("ports")[i].host
       /\ \A i \in DOMAIN img.expose : img.expose[i] \in DOMAIN B["ports"]
  <2>1. \A i \in DOMAIN Published : Published[i].host # 0 => h[i] = Published[i].host
    BY <1>1 DEF HostPortChoices
  <2>2. req["ports"] = ValuesOf("ports") /\ ~RejectDuplicateMappedPorts
    BY <1>2, AskedIs DEF MacRejects
  <2> QED  BY <1>3, <2>1, <2>2, PortsTold
<1>17. \A c, d \in DOMAIN B["ports"] : c # d => B["ports"][c] # B["ports"][d]
  BY <1>1, <1>3, PortsDiffer
<1>18. \A i \in DOMAIN ValuesOf("ports") : PortHonoured(ValuesOf("ports")[i])'
  BY <1>4, <1>5, <1>16 DEF PortHonoured
<1>19. \A s \in HonouredAsIs : Asked(s)' => told'[s] = Last(ValuesOf(s))'
  BY <1>4, <1>5, <1>9
<1>20. /\ told'["image"] = <<LastOr("name", "image")', LastOr("tag", "image")'>>
       /\ ~Asked("ready_conditions")' => told'["ready_conditions"] = "image"
       /\ told'["entrypoint"] = img'.entrypoint
       /\ told'["cmd"] = IF Asked("cmd")' /\ Last(ValuesOf("cmd"))' # <<>>
                         THEN Last(ValuesOf("cmd"))' ELSE img'.cmd
       /\ \A s \in MapSettings : Asked(s)' => told'[s].k = Last(ValuesOf(s))'
       /\ ~Asked("env")' => told'["env"] = img'.env
       /\ told'["copies"] = img'.copies \o ValuesOf("copies")'
       /\ \A s \in {"consumers", "cap_drop"} : told'[s] = ValuesOf(s)'
  BY <1>2, <1>4, <1>5, <1>8
<1>21. /\ Asked("user")' => UserHonoured(Last(ValuesOf("user")))'
       /\ ~Asked("health_check")'
       /\ told'["cap_add"] = IF LastOr("privileged", FALSE)' THEN <<"ALL">>
                             ELSE ValuesOf("cap_add")'
  BY <1>4, <1>5, <1>10, <1>11, <1>12
<1>22. Asked("platform")' => (Last(ValuesOf("platform"))' # "windows/amd64" =>
         told'["platform"].arch = IF Last(ValuesOf("platform"))' = "linux/arm64"
                                  THEN "arm64" ELSE "amd64")
  BY <1>4, <1>5, <1>13
<1>23. \A m \in {(img.mounts \o ValuesOf("mounts"))[i] :
                   i \in 1 .. Len(img.mounts) + Len(ValuesOf("mounts"))}' : MountHonoured(m)'
  BY <1>2, <1>5, <1>15
<1>24. \A i \in DOMAIN ValuesOf("ports")' : PortHonoured(ValuesOf("ports")[i])'
  BY <1>5, <1>18
<1>25. /\ \A i \in DOMAIN img'.expose : img'.expose[i] \in DOMAIN told'["ports"]
       /\ \A c, d \in DOMAIN told'["ports"] : c # d => told'["ports"][c] # told'["ports"][d]
  BY <1>2, <1>4, <1>16, <1>17
<1> QED  BY <1>2, <1>19, <1>20, <1>21, <1>22, <1>23, <1>24, <1>25 DEF SettingsHonoured

(* Whatever is set on the builder reaches the payload of create, on either *)
(* platform, or start refuses it, and so does what the image brings: its   *)
(* files before those of with_copy_to, its entrypoint, mounts, environment *)
(* and ports (ContainerRequest's accessors).  No chain of calls loses a    *)
(* setting or adds a capability nobody asked for, for any number of calls  *)
(* and any host ports.                                                     *)
THEOREM SettingsAreHonoured == SettingsSpec => []SettingsHonoured
<1> DEFINE Inv == RequestInv /\ SettingsHonoured
<1>1. SettingsInit => Inv
  BY InitRequest DEF SettingsInit, SettingsHonoured
<1>2. Inv /\ [SettingsNext]_settingsVars => Inv'
  <2> SUFFICES ASSUME RequestInv, SettingsHonoured, [SettingsNext]_settingsVars PROVE Inv'
    OBVIOUS
  <2>1. RequestInv'
    BY StepRequest
  <2>2. CASE StartLinux
    BY <2>1, <2>2, LinuxHonours
  <2>3. CASE StartMac
    BY <2>1, <2>3, MacHonours
  <2>4. CASE UNCHANGED settingsVars
    <3>1. UNCHANGED <<img, req, calls>> /\ told' = told /\ os' = os /\ verdict' = verdict
      BY <2>4 DEF settingsVars
    <3>2. SettingsHonoured'
      <4>1. \A s : /\ ValuesOf(s)' = ValuesOf(s) /\ (Asked(s)' <=> Asked(s))
                   /\ Last(ValuesOf(s))' = Last(ValuesOf(s))
                   /\ \A d : LastOr(s, d)' = LastOr(s, d)
        BY <3>1, SameCalls
      <4>2. /\ \A u : UserHonoured(u)' <=> UserHonoured(u)
            /\ \A m : MountHonoured(m)' <=> MountHonoured(m)
            /\ \A q : PortHonoured(q)' <=> PortHonoured(q)
        BY <3>1 DEF UserHonoured, MountHonoured, PortHonoured
      <4> QED  BY <3>1, <4>1, <4>2 DEF SettingsHonoured
    <3> QED  BY <2>1, <3>2
  <2>5. CASE SettingsNext /\ ~StartLinux /\ ~StartMac
    <3>1. verdict' = "building"
      BY <2>5 DEF SettingsNext, WithIdentity, WithEntry, WithMount, WithCopyTo, WithMappedPort,
                  WithFlag, WithCap, WithProcess, WithLogConsumer, WithRuntime, Overwrite, Push,
                  Called
    <3> QED  BY <2>1, <3>1 DEF SettingsHonoured
  <2> QED  BY <2>2, <2>3, <2>4, <2>5
<1>3. Inv => SettingsHonoured
  OBVIOUS
<1> QED  BY <1>1, <1>2, <1>3, PTL DEF SettingsSpec
============================================================================
