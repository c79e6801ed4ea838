---------------------------- MODULE Configuration ----------------------------
(***************************************************************************)
(* The settings the agent starts with: agent_config.yaml as                *)
(* src/pkg/config/config.go loads it, and what main.go makes of it and of  *)
(* the command line.                                                       *)
(*                                                                         *)
(* A file is a record [mode, exclude, autoGenerate], with "" for no mode   *)
(* and the defaults for the other keys it leaves out, or NotLoading: not   *)
(* there, or not YAML.  Settings that only size or place something (paths, *)
(* ports, intervals, the number of workers) are constants elsewhere; the   *)
(* thresholds are the subject of PolicyReload.                             *)
(***************************************************************************)
CONSTANTS NotLoading

AgentModes == {"discovery", "shadow", "enforcement"}

(* LoadAgentConfig refuses a mode it does not know. *)
Loads(file) == file # NotLoading /\ file.mode \in AgentModes \cup {""}

(* main goes on without the file. *)
Fallback == [mode |-> "discovery", exclude |-> {}, autoGenerate |-> TRUE]

Loaded(file) == IF ~Loads(file) THEN Fallback
                ELSE IF file.mode = "" THEN [file EXCEPT !.mode = "discovery"]
                ELSE file

(* The flag --mode overrides the file; a mode nobody knows is discovery.   *)
AgentMode(file, flag) ==
    LET asked == IF flag # "" THEN flag ELSE Loaded(file).mode
    IN  IF asked \in AgentModes THEN asked ELSE "discovery"

(* IsNamespaceExcluded *)
ControlPlane == {"ztre-system", "kube-system", "kube-public", "kube-node-lease",
                 "cilium-secrets"}

IsNamespaceExcluded(file, namespace) == namespace \in ControlPlane \cup Loaded(file).exclude
=============================================================================
