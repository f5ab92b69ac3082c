----------------------------- MODULE MCExporter -----------------------------
(* Small instance of Extraction: a directory with a file in it, and what has *)
(* the paths of the files the plugin adds; each may be deleted, and be made  *)
(* anew as the other kind.                                                   *)
EXTENDS Extraction

MCNames == {"a", "b", "$Log", "$Meta", "$FileHeader"}

MCPaths == {<< >>, <<"a">>, <<"a", "b">>, <<"$Log">>, <<"$Log", "b">>,
            <<"$Meta">>, <<"$Meta", "$FileHeader">>}

Leftovers ==
  [q \in MCPaths |-> CASE q = <<"a">> -> OtherFile
                     [] q \in {<<"$Log">>, <<"$Log", "b">>} -> Folder
                     [] OTHER -> Nothing]

(* Nothing; or a file where the export has a directory, and the reverse. *)
MCTargets == {[q \in MCPaths |-> Nothing], Leftovers}

MCUnreadable == {<<"a", "b">>}
=============================================================================
