-------------------------- MODULE MCSourceCapture --------------------------
(* Instances of SourceCapture for TLC: a manifest in the top directory and a
   module in another.                                                      *)
EXTENDS SourceCapture, TLC

CONSTANTS top, lib, toml, module

MCDir == (toml :> top) @@ (module :> lib)
MCUp == lib :> top

\* The manifest is a regular file or a rewritten one, the module anything.
MCKindings == {k \in [{toml, module} -> Kinds] : k[toml] \in {"plain"} \cup Rewriting}

Plain == {[f \in {toml, module} |-> "plain"]}
=============================================================================
