------------------------------ MODULE MCParts ------------------------------
(* The components that read, decide and copy, each by itself: in a          *)
(* behaviour one of them moves, the rest stays in its initial state.        *)
EXTENDS DockerWire, LogText, ContainerSettings, ImageResolve, CopyFiles, ReadyWait

CONSTANT Part
VARIABLE part
mcVars == <<part, wireVars, textVars, settingsVars, imageVars, copyVars, waitVars>>

Log1 == [kind |-> "log", source |-> {"stdout"}, times |-> 1]
Log2 == [kind |-> "log", source |-> StdStreams, times |-> 2]
Http == [kind |-> "http", matcher |-> TRUE]
MCReadyConditions ==
  {<<>>, <<Log1>>, <<Log2>>, <<Http, [kind |-> "exit", code |-> "zero"]>>}
    \cup {<<c>> : c \in {w \in WaitFor : w.kind # "log"}}
MCCmdConditions == {<<>>, <<Log1>>}
MCVolumeNames == <<"v1">>
MCTargets == {<<1>>, <<1, 2>>, <<2, 4>>}

MCInit ==
  /\ part \in Part /\ WireInit /\ TextInit
  /\ IF part = "settings" THEN SettingsInit
     ELSE /\ img = [env |-> <<>>, mounts |-> <<>>, cmd |-> <<"image">>,
                    entrypoint |-> "image", copies |-> <<>>, expose |-> <<>>]
          /\ SettingsInit
  /\ IF part = "image" THEN ImageInit
     ELSE /\ on = "linux" /\ platform = "arm64" /\ first = "user" /\ store = {}
          /\ shape = "index" /\ index = <<[os |-> "linux", arch |-> "arm64"]>> /\ volumes = {}
          /\ ImageInit
  /\ IF part = "copy" THEN CopyInit ELSE cos = "linux" /\ CopyInit
  /\ IF part = "wait" THEN WaitInit
     ELSE wos = "linux" /\ source = FALSE /\ asked = <<>> /\ WaitInit

Others(moving) ==
  /\ part = moving /\ part' = part
  /\ moving # "wire" => UNCHANGED wireVars
  /\ moving # "text" => UNCHANGED textVars
  /\ moving # "settings" => UNCHANGED settingsVars
  /\ moving # "image" => UNCHANGED imageVars
  /\ moving # "copy" => UNCHANGED copyVars
  /\ moving # "wait" => UNCHANGED waitVars

MCNext ==
  \/ Others("wire") /\ WireNext
  \/ Others("text") /\ TextNext
  \/ Others("settings") /\ SettingsNext
  \/ Others("image") /\ ImageNext
  \/ Others("copy") /\ CopyNext
  \/ Others("wait") /\ WaitNext

MCSpec == MCInit /\ [][MCNext]_mcVars
==============================================================================
