SPECIFICATION ShellSpec
CONSTANTS
  MaxResults = 2
  CommandLines <- MCCommandLines
  Containers = {"disk", "archive"}
  Corrupt = {"corrupt"}
  Quoted = {"quo'ted"}
  Exporters = {"RDCExporter", "FSExporter"}
  Modules = {"RemoteModule", "MetaModule"}
  Attributes <- MCAttributes
INVARIANTS StackBalanced AbortsOnlyFor ExportsSeeEverything ExportConfigured
PROPERTIES InterruptStops
CHECK_DEADLOCK FALSE
