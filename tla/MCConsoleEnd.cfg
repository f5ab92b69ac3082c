SPECIFICATION ShellSpec
CONSTANTS
  MaxResults = 2
  CommandLines <- MCCommandLines
  Containers = {"disk", "archive"}
  Corrupt = {"corrupt"}
  Quoted = {"quo'ted"}
  Exporters = {"RDCExporter", "FSExporter"}
  Modules = {"RemoteModule", "MetaModule"}
  Attributes <- MCAttributes
INVARIANTS LoadLineAssertion
CHECK_DEADLOCK FALSE
