----------------------------- MODULE InitScript -----------------------------
(***************************************************************************)
(* What svfs does with its command line: the Parser turns it into a Lua    *)
(* script, one line after another, which is compiled and run as one chunk. *)
(* A line that raises an error ends it; what mount, Enable, SetAttribute   *)
(* and DoExport return is not looked at.                                   *)
(*                                                                         *)
(* Attributes are set through a map of a class's accessors.  There is one  *)
(* such map for all classes (s_AttributeMapInstance is static), that of    *)
(* the class that is used first: objects of others are refused.            *)
(***************************************************************************)
EXTENDS Sequences, SequencesExt

CONSTANTS
  CommandLines,        \* what the user may have written
  Containers,          \* names of files that can be mounted
  Corrupt,             \* names of files that a class opens, and cannot read
  Quoted,              \* names with a quote in them
  Exporters, Modules,  \* the names in the Register
  Attributes           \* a class's attributes, for classes that have a map

VARIABLES
  options,       \* the command line, parsed
  script,        \* the lines that are still to be run
  phase,         \* "parsed", "running", "console", "success", "failed" or "crashed"
  mapClass,      \* the class of s_AttributeMapInstance
  mounted,       \* the names of the containers
  refused,       \* a container id has been handed out for nothing
  exporter,      \* the exporter of the last CreateExporter
  configured,    \* the attributes it has been given
  exported       \* history: what each DoExport found

(* MountInfo::split: the file is what is before the first colon, whatever   *)
(* is behind a second one is dropped.                                       *)
FileOf(mount) == mount[1]

PointOf(mount) == IF Len(mount) = 1 THEN "/" ELSE mount[2]

Line(op, arg) == [op |-> op, arg |-> arg]

LinesOf(op, args) == [i \in DOMAIN args |-> Line(op, args[i])]

ProcessInitialSettings ==
  (IF options.remote
   THEN <<Line("module", "RemoteModule")>>
        \o (IF options.port THEN <<Line("set", "RemoteModule")>> ELSE << >>)
   ELSE << >>)
  \o (IF options.meta THEN <<Line("module", "MetaModule")>> ELSE << >>)

ExportLines(export) ==
  <<Line("exporter", export.exporter)>>
  \o LinesOf("setting", SetToSeq(export.settings))
  \o <<Line("export", export)>>

(* Faulty: exports come before the scripts. *)
ProcessExportsFirst ==
  LinesOf("require", options.libraries)
  \o LinesOf("mount", options.mounts)
  \o FlattenSeq([i \in DOMAIN options.exports |-> ExportLines(options.exports[i])])
  \o LinesOf("script", options.scripts)

ProcessMainPipeline ==
  LinesOf("require", options.libraries)
  \o LinesOf("mount", options.mounts)
  \o LinesOf("script", options.scripts)
  \o FlattenSeq([i \in DOMAIN options.exports |-> ExportLines(options.exports[i])])

(* --list-exporters comes last and changes nothing: left out. *)
GetInitScript == ProcessInitialSettings \o ProcessMainPipeline

Init ==
  /\ options \in CommandLines
  /\ script = GetInitScript
  /\ phase = "parsed"
  /\ mapClass = "none"
  /\ mounted = {}
  /\ refused = FALSE
  /\ exporter = "nil"
  /\ configured = {}
  /\ exported = << >>

(* ExecuteScriptChunk compiles the script as a whole: a chunk of the user's *)
(* that is no Lua, or a quote in the name of a file, and nothing is run.    *)
Compiles ==
  /\ \A i \in DOMAIN options.scripts : options.scripts[i].file \/ options.scripts[i].does # "wrong"
  /\ \A i \in DOMAIN options.mounts : FileOf(options.mounts[i]) \notin Quoted

Compile ==
  /\ phase = "parsed"
  /\ phase' = IF Compiles THEN "running" ELSE "failed"
  /\ UNCHANGED <<options, script, mapClass, mounted, refused, exporter, configured, exported>>

Current == Head(script)

Runs(op) == phase = "running" /\ script # << >> /\ Current.op = op

LineDone == script' = Tail(script) /\ UNCHANGED phase

LineRaises == phase' = "failed" /\ UNCHANGED script

(* Faulty: every class has a map of its own. *)
OwnMap(class) == class

(* GetAttributeMap: the first class that is asked for its map provides it. *)
MapFor(class) ==
  IF mapClass = "none" /\ class \in DOMAIN Attributes THEN class ELSE mapClass

(* AttributeMapInstance::Set refuses what is not the map's: the other       *)
(* classes' objects, and names its class does not have.                     *)
Accepts(class, name) == MapFor(class) = class /\ name \in Attributes[class]

(* What a module mounts when it is enabled: the MetaModule, a container of  *)
(* files that describe the VFS.                                             *)
Enable(module) == IF module = "MetaModule" THEN {<<module, "/">>} ELSE {}

(* Register:CreateModule gives nil for a name that is not registered, which *)
(* the same line would use; the module is enabled, whatever comes of it.    *)
CreateModule ==
  /\ Runs("module")
  /\ IF Current.arg \in Modules
     THEN LineDone /\ mounted' = mounted \union Enable(Current.arg)
     ELSE LineRaises /\ UNCHANGED mounted
  /\ UNCHANGED <<options, mapClass, refused, exporter, configured, exported>>

SetModuleAttribute ==
  /\ Runs("set")
  /\ mapClass' = MapFor(Current.arg)
  /\ LineDone
  /\ UNCHANGED <<options, mounted, refused, exporter, configured, exported>>

Require ==
  /\ Runs("require")
  /\ IF Current.arg = "found" THEN LineDone ELSE LineRaises
  /\ UNCHANGED <<options, mapClass, mounted, refused, exporter, configured, exported>>

(* mount calls OpenContainer, and returns what it returns.  A container that *)
(* is made and cannot be initialised has used up a container id.             *)
Mount ==
  LET file == FileOf(Current.arg)
  IN  /\ Runs("mount")
      /\ ~(file \in Containers /\ refused)
      /\ LineDone
      /\ mounted' = IF file \in Containers
                    THEN mounted \union {<<file, PointOf(Current.arg)>>}
                    ELSE mounted
      /\ refused' = (refused \/ file \in Corrupt)
      /\ UNCHANGED <<options, mapClass, exporter, configured, exported>>

(* The next one that is mounted does not pass ReloadContainer's assertion. *)
MountAsserts ==
  /\ Runs("mount")
  /\ FileOf(Current.arg) \in Containers
  /\ refused
  /\ phase' = "crashed"
  /\ UNCHANGED <<options, script, mapClass, mounted, refused, exporter, configured, exported>>

(* A chunk or a file.  It may set the attribute of an object it made: if    *)
(* the class has no map and there is none yet, a null pointer is used.      *)
RunScript ==
  LET item == Current.arg
  IN  /\ Runs("script")
      /\ IF item.does \in {"raises", "wrong"}
         THEN LineRaises /\ UNCHANGED mapClass
         ELSE IF item.does # "sets attribute"
         THEN LineDone /\ UNCHANGED mapClass
         ELSE /\ mapClass' = MapFor(item.class)
              /\ IF mapClass' = "none" THEN phase' = "crashed" /\ UNCHANGED script ELSE LineDone
      /\ UNCHANGED <<options, mounted, refused, exporter, configured, exported>>

(* Register:CreateExporter gives nil for an unknown name; this line does    *)
(* nothing with it.                                                         *)
CreateExporter ==
  /\ Runs("exporter")
  /\ exporter' = IF Current.arg \in Exporters THEN Current.arg ELSE "nil"
  /\ configured' = {}
  /\ LineDone
  /\ UNCHANGED <<options, mapClass, mounted, refused, exported>>

SetAttribute ==
  /\ Runs("setting")
  /\ IF exporter = "nil"
     THEN LineRaises /\ UNCHANGED <<mapClass, configured>>
     ELSE /\ mapClass' = MapFor(exporter)
          /\ configured' = IF Accepts(exporter, Current.arg)
                           THEN configured \union {Current.arg}
                           ELSE configured
          /\ LineDone
  /\ UNCHANGED <<options, mounted, refused, exporter, exported>>

(* The export itself is Exporter's and RDCArchive's. *)
DoExport ==
  /\ Runs("export")
  /\ IF exporter = "nil"
     THEN LineRaises /\ UNCHANGED exported
     ELSE /\ exported' = Append(exported, [asked |-> Current.arg, configured |-> configured, sees |-> mounted])
          /\ LineDone
  /\ UNCHANGED <<options, mapClass, mounted, refused, exporter, configured>>

(* main goes on to the console, if it is wanted. *)
ScriptEnds ==
  /\ phase = "running"
  /\ script = << >>
  /\ phase' = IF options.cli THEN "console" ELSE "success"
  /\ UNCHANGED <<options, script, mapClass, mounted, refused, exporter, configured, exported>>

Step ==
  \/ Compile
  \/ CreateModule
  \/ SetModuleAttribute
  \/ Require
  \/ Mount
  \/ MountAsserts
  \/ RunScript
  \/ CreateExporter
  \/ SetAttribute
  \/ DoExport
  \/ ScriptEnds

-----------------------------------------------------------------------------
Openable == {i \in DOMAIN options.mounts : FileOf(options.mounts[i]) \in Containers}

(* Whatever the order of the options, and although nobody looks whether a   *)
(* container could be mounted: an export finds every container there is,    *)
(* the MetaModule's too, and all the user's scripts have run                *)
(* (arguments.cpp:309).  If the script came to its end every export was     *)
(* tried, and if it did not compile, nothing was done.  (A mount after a    *)
(* corrupt archive stops the process before there is an export.)            *)
ExportsSeeEverything ==
  /\ \A e \in DOMAIN exported :
       /\ \A i \in Openable : \E m \in exported[e].sees : m[1] = FileOf(options.mounts[i])
       /\ options.meta => <<"MetaModule", "/">> \in exported[e].sees
       /\ exported[e].asked = options.exports[e]
  /\ exported # << >> => \A i \in DOMAIN options.scripts : options.scripts[i].does \notin {"raises", "wrong"}
  /\ phase \in {"console", "success"} => Len(exported) = Len(options.exports)
  /\ ~Compiles => mounted = {} /\ mapClass = "none"

(* The class of the first object that is given an attribute, as the command *)
(* line has them up to the e-th export: the port of the server, what the    *)
(* scripts set, the settings of the exports.                                *)
FirstClass(e) ==
  LET sets == {i \in DOMAIN options.scripts :
                 options.scripts[i].does = "sets attribute" /\ options.scripts[i].class \in DOMAIN Attributes}
      exports == {i \in 1 .. e : options.exports[i].settings # {}}
  IN  IF options.remote /\ options.port THEN "RemoteModule"
      ELSE IF sets # {} THEN options.scripts[Min(sets)].class
      ELSE IF exports # {} THEN options.exports[Min(exports)].exporter
      ELSE "none"

(* The settings of an export that its exporter has are in force when it     *)
(* runs, if it is of the class of the first object that was given any;      *)
(* otherwise none is, and nobody is told.                                   *)
ExportConfigured ==
  \A e \in DOMAIN exported :
    LET asked == exported[e].asked
    IN  exported[e].configured =
          IF FirstClass(e) = asked.exporter
          THEN asked.settings \intersect Attributes[asked.exporter]
          ELSE {}
=============================================================================
