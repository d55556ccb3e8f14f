\* Three references to a library: a name replaced twice, or a replaced handle
\* beside one in use and one being tried.
SPECIFICATION PluginSpec
CONSTANTS
    lib1 = lib1
    lib2 = lib2
    man = man
    n1 = n1
    n2 = n2
    None = None
    Lib <- MCLib
    Manifest <- MCManifest
    Name <- MCName
    Stem <- MCStem
    MaxRefs = 3
INVARIANT
    HandlesAccounted
