----------------------------- MODULE MCPlugins -----------------------------
(* Two libraries and a manifest; the names of the files are the names the  *)
(* plugins may have, so a plugin is registered under its own file's name,  *)
(* under another's, or replaces another plugin.                            *)
EXTENDS Plugins, TLC

CONSTANTS lib1, lib2, man, n1, n2

MCLib == {lib1, lib2}
MCManifest == {man}
MCName == {n1, n2}
MCStem == lib1 :> n1 @@ lib2 :> n2 @@ man :> n1
=============================================================================
