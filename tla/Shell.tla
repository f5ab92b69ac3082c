------------------------------- MODULE Shell --------------------------------
(***************************************************************************)
(* svfs as a process: the script made of the command line is run in the    *)
(* Lua state of the console, which is entered when the script came to its  *)
(* end.  The script's chunks can do to the console what its own can.       *)
(***************************************************************************)
EXTENDS LuaConsole, Sequences, FiniteSets

CONSTANTS CommandLines, Containers, Corrupt, Quoted, Exporters, Modules, Attributes

IsList(s) == s \in Seq({s[i] : i \in DOMAIN s})

(* The lists of a command line; the classes in the Register that svfs gives *)
(* attributes to have a map (GetAttributeMapInstance).                      *)
ASSUME ShellAssumption ==
  /\ \A o \in CommandLines :
       /\ IsList(o.libraries) /\ IsList(o.mounts) /\ IsList(o.scripts) /\ IsList(o.exports)
       /\ \A e \in DOMAIN o.exports : IsFiniteSet(o.exports[e].settings)
  /\ Containers \intersect Corrupt = {}
  /\ Exporters \union {"RemoteModule"} \subseteq DOMAIN Attributes
  /\ "nil" \notin Exporters
  /\ "none" \notin DOMAIN Attributes

VARIABLES options, script, phase, mapClass, mounted, refused, exporter, configured, exported

InitScript == INSTANCE InitScript

scriptVars == <<options, script, phase, mapClass, mounted, refused, exporter, configured, exported>>

ShellInit == Init /\ InitScript!Init

(* A chunk of the script that calls exit() or sets another prompt. *)
ScriptEffect ==
  IF InitScript!Runs("script") /\ InitScript!Current.arg.does = "exits"
  THEN ChunkCallsExit
  ELSE IF InitScript!Runs("script") /\ InitScript!Current.arg.does = "sets prompt"
  THEN ChunkSetsPrompt
  ELSE UNCHANGED vars

ScriptStep ==
  /\ pc = "outside"
  /\ InitScript!Step
  /\ ScriptEffect

ConsoleStep ==
  /\ pc # "outside"
  /\ Next
  /\ UNCHANGED scriptVars

EnterConsole ==
  /\ phase = "console"
  /\ Enter
  /\ UNCHANGED scriptVars

(* SIGINT while the script runs. *)
InterruptScript ==
  /\ pc = "outside"
  /\ phase \in {"parsed", "running"}
  /\ Interrupt
  /\ UNCHANGED scriptVars

ShellNext ==
  \/ ScriptStep
  \/ EnterConsole
  \/ ConsoleStep
  \/ InterruptScript

allVars == <<vars, scriptVars>>

(* The process goes on as long as it has something to do: reading a line    *)
(* waits for the user, a chunk may run forever, and SIGINT need not come.   *)
ShellSpec ==
  /\ ShellInit
  /\ [][ShellNext]_allVars
  /\ WF_allVars(Step /\ UNCHANGED scriptVars)
  /\ WF_allVars(ScriptStep)
  /\ WF_allVars(EnterConsole)

ExportsSeeEverything == InitScript!ExportsSeeEverything

ExportConfigured == InitScript!ExportConfigured
=============================================================================
