------------------------------ MODULE Plugins ------------------------------
(***************************************************************************)
(* Plugins, in the two forms the repository has: PluginLoader              *)
(* (src/plugins/plugin_loader.cpp) and PluginManager                       *)
(* (src/plugins/plugin_api.cpp).  Both register JSON manifests and shared  *)
(* libraries under a name; the handle of a library is one reference that   *)
(* dlopen counted, given back by dlclose.                                  *)
(*                                                                         *)
(* The loader has a mutex, so its operations may come from two threads;    *)
(* load_directory releases it after each file and then uses the map        *)
(* without it.  The manager has none and is used by one thread.            *)
(*                                                                         *)
(* The functions a library exports may throw, or return a null string,     *)
(* which std::string answers with an exception.  Thrown by a cleanup       *)
(* function it leaves unload_plugin before anything is changed; unload_all *)
(* is called by a destructor only, where it ends the process.              *)
(***************************************************************************)
EXTENDS Integers, FiniteSets

CONSTANTS
    Lib,        \* paths ending in .so
    Manifest,   \* paths ending in .json
    Name,       \* plugin names
    Stem,       \* the file name of each path without its extension
    None,
    MaxRefs     \* bound: references to one library

File == Lib \cup Manifest

ASSUME NoneAssumption == None \notin File \cup Name
ASSUME StemAssumption == Stem \in [File -> Name]
ASSUME BoundAssumption == MaxRefs \in Nat

VARIABLES
    impl,       \* "loader" or "manager"
    libs,       \* what each library exports: its name or None, an init function or not
    listed,     \* the keys of plugins_
    handle,     \* the library whose handle is kept for each name, or None
    refs,       \* references to each library
    lost,       \* history: handles of each library that were overwritten
    thrown,     \* history: handles of each library dropped by an exception
    scan,       \* the files a directory scan has still to visit
    entry       \* the stem under which a scan looks up what it loaded, or None

plugins == <<listed, handle, refs, lost, thrown>>
pluginVars == <<impl, libs, plugins, scan, entry>>

PluginInit ==
    /\ impl \in {"loader", "manager"}
    /\ libs \in [Lib -> [name : Name \cup {None}, init : BOOLEAN]]
    /\ listed = {}
    /\ handle = [n \in Name |-> None]
    /\ refs = [l \in Lib |-> 0]
    /\ lost = [l \in Lib |-> 0] /\ thrown = [l \in Lib |-> 0]
    /\ scan = {} /\ entry = None

-----------------------------------------------------------------------------
(* Loading.                                                                *)

\* The entry of n changes its handle; a handle it had is closed by nobody.
Overwrite(n, h) ==
    /\ listed' = listed \cup {n}
    /\ handle' = [handle EXCEPT ![n] = h]
    /\ lost' = [l \in Lib |-> IF handle[n] = l THEN lost[l] + 1 ELSE lost[l]]

\* A manifest that cannot be opened or parsed, or has no name, loads nothing.
\* The manager keeps handles in a map of their own, which a manifest leaves alone.
LoadJsonManifest(f, outcome) ==
    /\ UNCHANGED <<refs, thrown>>
    /\ \/ outcome = "refused" /\ UNCHANGED plugins
       \/ /\ outcome = "loaded"
          /\ \E n \in Name :
               IF impl = "loader"
               THEN Overwrite(n, None)
               ELSE listed' = listed \cup {n} /\ UNCHANGED <<handle, lost>>

\* The names a library may be registered under; None when it is refused.  The
\* manager needs the name function.  The loader refuses a library without one
\* only if dlerror() reports an error, which is that of the last lookup (of the
\* init function) or, as dlerror may remember it, that of the first.
NamesOf(l) ==
    CASE libs[l].name # None -> {libs[l].name}
      [] impl = "loader" /\ libs[l].init -> {None, Stem[l]}
      [] OTHER -> {None}

\* What comes of a library that has a name.  Only the loader looks at what the
\* init function returns.
Outcomes(l) ==
    {"loaded", "threw"} \cup IF impl = "loader" /\ libs[l].init THEN {"refused"} ELSE {}

\* Slip: after a failed init the library is not closed.
LoadLeavesOpen(l, outcome) ==
    \/ outcome = "refused" /\ UNCHANGED plugins
    \/ /\ refs[l] < MaxRefs
       /\ \E n \in NamesOf(l) \ {None} :
            /\ outcome \in Outcomes(l)
            /\ refs' = [refs EXCEPT ![l] = @ + 1]
            /\ CASE outcome = "refused" -> UNCHANGED <<listed, handle, lost, thrown>>
                 [] outcome = "loaded" -> Overwrite(n, l) /\ UNCHANGED thrown
                 [] outcome = "threw" -> /\ thrown' = [thrown EXCEPT ![l] = @ + 1]
                                        /\ UNCHANGED <<listed, handle, lost>>

\* dlopen takes a reference; when it fails nothing happens, and a library that
\* is refused is closed again.  An exception of one of its functions drops the
\* handle.
LoadSharedLibrary(l, outcome) ==
    \/ outcome = "refused" /\ UNCHANGED plugins
    \/ /\ refs[l] < MaxRefs
       /\ \E n \in NamesOf(l) \ {None} :
            /\ outcome \in Outcomes(l)
            /\ CASE outcome = "refused" -> UNCHANGED plugins
                 [] outcome = "loaded" -> /\ refs' = [refs EXCEPT ![l] = @ + 1]
                                         /\ Overwrite(n, l)
                                         /\ UNCHANGED thrown
                 [] outcome = "threw" -> /\ refs' = [refs EXCEPT ![l] = @ + 1]
                                        /\ thrown' = [thrown EXCEPT ![l] = @ + 1]
                                        /\ UNCHANGED <<listed, handle, lost>>

LoadPath(f, outcome) ==
    \/ f \in Manifest /\ LoadJsonManifest(f, outcome)
    \/ f \in Lib /\ LoadSharedLibrary(f, outcome)

\* The manager's thread is in the scan until the scan ends.
Free == impl = "loader" \/ scan = {}

Load(f) ==
    /\ Free
    /\ \E outcome \in {"loaded", "refused", "threw"} : LoadPath(f, outcome)
    /\ UNCHANGED <<impl, libs, scan, entry>>

\* load_directory and scan_directory: the files in any order.
ScanDirectory ==
    /\ scan = {} /\ entry = None
    /\ scan' = File
    /\ UNCHANGED <<impl, libs, plugins, entry>>

\* The loader goes on after an exception; the manager's scan is ended by it.
ScanNext(f) ==
    /\ f \in scan /\ entry = None
    /\ \E outcome \in {"loaded", "refused", "threw"} :
         /\ LoadPath(f, outcome)
         /\ entry' = IF impl = "loader" /\ outcome = "loaded" THEN Stem[f] ELSE None
         /\ scan' = IF impl = "manager" /\ outcome = "threw" THEN {} ELSE scan \ {f}
    /\ UNCHANGED <<impl, libs>>

\* The loader reads plugins_[stem], without the mutex, to report the plugin: an
\* empty entry comes into being when the plugin has another name or is gone.
ScanLooksUp ==
    /\ entry # None
    /\ listed' = listed \cup {entry}
    /\ entry' = None
    /\ UNCHANGED <<impl, libs, handle, refs, lost, thrown, scan>>

-----------------------------------------------------------------------------
(* Unloading: the cleanup function, then dlclose.                          *)

Unload(n) ==
    /\ Free
    /\ listed' = listed \ {n}
    /\ handle' = [handle EXCEPT ![n] = None]
    /\ refs' = [l \in Lib |-> IF handle[n] = l THEN refs[l] - 1 ELSE refs[l]]
    /\ UNCHANGED <<impl, libs, lost, thrown, scan, entry>>

\* unload_all, and the destructors.
UnloadAll ==
    /\ Free
    /\ listed' = {}
    /\ handle' = [n \in Name |-> None]
    /\ refs' = [l \in Lib |-> refs[l] - Cardinality({ n \in Name : handle[n] = l })]
    /\ UNCHANGED <<impl, libs, lost, thrown, scan, entry>>

PluginNext ==
    \/ \E f \in File : Load(f) \/ ScanNext(f)
    \/ ScanDirectory \/ ScanLooksUp
    \/ \E n \in Name : Unload(n)
    \/ UnloadAll

PluginSpec == PluginInit /\ [][PluginNext]_pluginVars

-----------------------------------------------------------------------------
(* Properties.                                                             *)

\* Every reference to a library belongs to one registered name, to a handle
\* that a later load of the same name replaced, or to a load that an exception of
\* the library's own functions ended after dlopen; through refused loads, scans
\* and unloads of two threads.  So no handle is used after it was closed, none is
\* closed twice, and those two leaks are the only ones when everything is
\* unloaded.  A name with a handle is a name the plugin list shows.
HandlesAccounted ==
    /\ \A l \in Lib :
         refs[l] = Cardinality({ n \in Name : handle[n] = l }) + lost[l] + thrown[l]
    /\ \A n \in Name : handle[n] # None => n \in listed
=============================================================================
