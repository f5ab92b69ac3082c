------------------------------ MODULE MCShell -------------------------------
(* Small instance of Shell: two containers that can be opened, one that      *)
(* cannot and a corrupt one, and exports with settings before and after those of other classes. *)
EXTENDS Shell

MCAttributes == [RDCExporter |-> {"CompressionMode"}, FSExporter |-> {}, RemoteModule |-> {"Port"}]

MCMounts == {<<"disk">>, <<"archive", "/a">>, <<"tcp", "//host", "port">>, <<"corrupt">>}

MCScripts ==
  [file : {FALSE}, does : {"nothing", "raises", "wrong", "exits", "sets prompt"}, class : {"none"}]
  \union [file : {FALSE}, does : {"sets attribute"}, class : {"RemoteModule", "RDCExporter", "MetaModule"}]
  \union {[file |-> TRUE, does |-> "wrong", class |-> "none"]}

MCExports ==
  {[exporter |-> "RDCExporter", settings |-> {"CompressionMode"}],
   [exporter |-> "RDCExporter", settings |-> {"Other"}],
   [exporter |-> "FSExporter", settings |-> {"CompressionMode"}],
   [exporter |-> "FSExporter", settings |-> {}],
   [exporter |-> "Unknown", settings |-> {}]}

UpTo(n, S) == UNION {[1 .. k -> S] : k \in 0 .. n}

(* The console after scripts of each kind; and all the rest without it. *)
MCCommandLines ==
  [remote : {FALSE}, port : {FALSE}, meta : {TRUE}, libraries : {<<"found">>, <<"missing">>},
   mounts : {<< >>}, scripts : UpTo(1, MCScripts), exports : {<< >>}, cli : {TRUE}]
  \union
  [remote : BOOLEAN, port : BOOLEAN, meta : {FALSE}, libraries : {<< >>},
   mounts : {<< >>, <<<<"quo'ted">>>>} \union [1 .. 2 -> MCMounts],
   scripts : UpTo(1, MCScripts), exports : UpTo(1, MCExports), cli : {FALSE}]
  \union
  [remote : BOOLEAN, port : {TRUE}, meta : BOOLEAN, libraries : {<< >>}, mounts : {<<m>> : m \in MCMounts},
   scripts : {<< >>} \union [1 .. 2 -> {s \in MCScripts : s.does \in {"sets attribute"}}],
   exports : [1 .. 2 -> MCExports], cli : {FALSE}]
=============================================================================
