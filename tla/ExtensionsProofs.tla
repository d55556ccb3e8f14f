-------------------------- MODULE ExtensionsProofs --------------------------
(***************************************************************************)
(* Proofs about what extends the program at run time: the MCP servers with *)
(* their tools, and the plugins.                                           *)
(***************************************************************************)
EXTENDS McpTools, Plugins, FiniteSetTheorems, WellFoundedInduction, TLAPS

ManagerTypes ==
    /\ configs \in [Server -> Config \cup {NoConfig}]
    /\ IsFiniteSet({ s \in Server : configs[s] # NoConfig })
    /\ made \in 0..MaxClients
    /\ clients \in [Server -> 0..made]
    /\ serverTools \in [Server -> SUBSET Tool]
    /\ post \in [1..MaxClients -> {"none", "announced", "url"}]

\* Tools are those of a client, a client in clients_ is alive, and no two
\* servers share one: what destroys the client of one spares the others'.
ClientsOwned ==
    /\ \A s \in Server : serverTools[s] # {} => clients[s] # 0
    /\ \A s \in Server : clients[s] # 0 => clients[s] \in alive
    /\ \A r, s \in Server : clients[r] = clients[s] /\ clients[r] # 0 => r = s

\* The tools counted for a server call the client its last sync was given.  A
\* sync has forgotten the server's names before it asks for the client, and
\* registers with the client it was given.
SyncOwned ==
    /\ registry \in [Keys -> Nat]
    /\ synced \in [Server -> SUBSET Tool]
    /\ syncedWith \in [Server -> Nat]
    /\ queue \subseteq Server /\ found \subseteq Tool /\ client \in Nat
    /\ named = { k \in Keys : k[2] \in synced[k[1]] }
    /\ \A s \in Server : \A t \in synced[s] :
         registry[<<s, t>>] = syncedWith[s] /\ syncedWith[s] # 0
    /\ \A s \in Server :
         /\ Syncing(s, "client") => synced[s] = {}
         /\ Syncing(s, "register") => synced[s] = {} /\ client # 0 /\ client = syncedWith[s]

McpInv == ManagerTypes /\ ClientsOwned /\ SyncOwned

\* The names whose handle is that of library l.
Holders(l) == { n \in Name : handle[n] = l }

PluginInv ==
    /\ libs \in [Lib -> [name : Name \cup {None}, init : BOOLEAN]]
    /\ handle \in [Name -> Lib \cup {None}]
    /\ refs \in [Lib -> Nat]
    /\ lost \in [Lib -> Nat] /\ thrown \in [Lib -> Nat]
    /\ \A l \in Lib :
         IsFiniteSet(Holders(l)) /\ refs[l] = Cardinality(Holders(l)) + lost[l] + thrown[l]
    /\ \A n \in Name : handle[n] # None => n \in listed

-----------------------------------------------------------------------------
(* Plugins.                                                                *)

\* An entry that gets another handle: the count of its library moves from the
\* holders to the handles lost.
LEMMA OverwriteInv ==
    ASSUME PluginInv, NEW n \in Name, NEW h \in Lib \cup {None}, Overwrite(n, h),
           libs' = libs, thrown' = thrown,
           refs' = [l \in Lib |-> IF l = h THEN refs[l] + 1 ELSE refs[l]]
    PROVE  PluginInv'
<1>1. /\ handle' = [handle EXCEPT ![n] = h]
      /\ listed' = listed \cup {n}
      /\ lost' = [l \in Lib |-> IF handle[n] = l THEN lost[l] + 1 ELSE lost[l]]
  BY DEF Overwrite
<1>2. handle' \in [Name -> Lib \cup {None}]
  BY <1>1 DEF PluginInv
<1>3. refs' \in [Lib -> Nat] /\ lost' \in [Lib -> Nat]
  BY <1>1 DEF PluginInv
<1>4. \A m \in Name : handle'[m] # None => m \in listed'
  BY <1>1 DEF PluginInv
<1>5. ASSUME NEW l \in Lib
      PROVE  IsFiniteSet(Holders(l)') /\ refs'[l] = Cardinality(Holders(l)') + lost'[l] + thrown[l]
  <2>1. /\ IsFiniteSet(Holders(l)) /\ refs[l] = Cardinality(Holders(l)) + lost[l] + thrown[l]
        /\ refs[l] \in Nat /\ lost[l] \in Nat /\ thrown[l] \in Nat
    BY DEF PluginInv
  <2>2. Cardinality(Holders(l)) \in Nat
    BY <2>1, FS_CardinalityType
  <2>3. n \in Holders(l) <=> handle[n] = l
    BY DEF Holders
  <2>4. refs'[l] = (IF l = h THEN refs[l] + 1 ELSE refs[l])
    OBVIOUS
  <2>5. lost'[l] = (IF handle[n] = l THEN lost[l] + 1 ELSE lost[l])
    BY <1>1
  <2>6. CASE h = l
    <3>1. Holders(l)' = Holders(l) \cup {n}
      BY <1>1, <2>6 DEF Holders, PluginInv
    <3>2. /\ IsFiniteSet(Holders(l) \cup {n})
          /\ Cardinality(Holders(l) \cup {n}) =
               IF n \in Holders(l) THEN Cardinality(Holders(l)) ELSE Cardinality(Holders(l)) + 1
      BY <2>1, FS_AddElement
    <3> QED BY <2>1, <2>2, <2>3, <2>4, <2>5, <2>6, <3>1, <3>2
  <2>7. CASE h # l
    <3>1. Holders(l)' = Holders(l) \ {n}
      BY <1>1, <2>7 DEF Holders, PluginInv
    <3>2. /\ IsFiniteSet(Holders(l) \ {n})
          /\ Cardinality(Holders(l) \ {n}) =
               IF n \in Holders(l) THEN Cardinality(Holders(l)) - 1 ELSE Cardinality(Holders(l))
      BY <2>1, FS_RemoveElement
    <3> QED BY <2>1, <2>2, <2>3, <2>4, <2>5, <2>7, <3>1, <3>2
  <2> QED BY <2>6, <2>7
<1> QED
  BY <1>2, <1>3, <1>4, <1>5 DEF PluginInv, Holders

\* What touches neither a handle nor a count, and takes no name from the list.
LEMMA PluginFrame ==
    ASSUME PluginInv, UNCHANGED <<libs, handle, refs, lost, thrown>>, listed \subseteq listed'
    PROVE  PluginInv'
BY DEF PluginInv, Holders

\* A file that is loaded, or not.
LEMMA LoadPathInv ==
    ASSUME PluginInv, NEW f \in File, NEW outcome, LoadPath(f, outcome), libs' = libs
    PROVE  PluginInv'
<1>1. CASE UNCHANGED plugins
  BY <1>1, PluginFrame DEF plugins
<1>2. CASE f \in Manifest /\ LoadJsonManifest(f, outcome) /\ ~UNCHANGED plugins
  <2>1. refs' = refs /\ thrown' = thrown
    BY <1>2 DEF LoadJsonManifest
  <2>2. PICK n \in Name : IF impl = "loader"
                          THEN Overwrite(n, None)
                          ELSE listed' = listed \cup {n} /\ UNCHANGED <<handle, lost>>
    BY <1>2 DEF LoadJsonManifest
  <2>3. CASE impl = "loader"
    <3>1. refs' = [l \in Lib |-> IF l = None THEN refs[l] + 1 ELSE refs[l]]
      BY <2>1, NoneAssumption DEF PluginInv, File
    <3> QED BY <2>1, <2>2, <2>3, <3>1, OverwriteInv
  <2>4. CASE impl # "loader"
    BY <2>1, <2>2, <2>4, PluginFrame
  <2> QED BY <2>3, <2>4
<1>3. CASE f \in Lib /\ LoadSharedLibrary(f, outcome) /\ ~UNCHANGED plugins
  <2>1. PICK n \in NamesOf(f) \ {None} :
          /\ outcome \in {"loaded", "threw"}
          /\ refs' = [refs EXCEPT ![f] = @ + 1]
          /\ outcome = "loaded" => Overwrite(n, f) /\ thrown' = thrown
          /\ outcome = "threw" => /\ thrown' = [thrown EXCEPT ![f] = @ + 1]
                                  /\ UNCHANGED <<listed, handle, lost>>
    BY <1>3 DEF LoadSharedLibrary, Outcomes
  <2>2. n \in Name
    <3>1. libs[f].name \in Name \cup {None}
      BY <1>3 DEF PluginInv
    <3>2. Stem[f] \in Name
      BY <1>3, StemAssumption DEF File
    <3> QED BY <2>1, <3>1, <3>2 DEF NamesOf
  <2>3. refs' = [l \in Lib |-> IF l = f THEN refs[l] + 1 ELSE refs[l]]
    BY <1>3, <2>1 DEF PluginInv
  <2>4. CASE outcome = "loaded"
    BY <1>3, <2>1, <2>2, <2>3, <2>4, OverwriteInv
  <2>5. CASE outcome = "threw"
    <3>1. \A l \in Lib : Holders(l)' = Holders(l) /\ Cardinality(Holders(l)) \in Nat
      BY <2>1, <2>5, FS_CardinalityType DEF Holders, PluginInv
    <3>2. thrown' = [l \in Lib |-> IF l = f THEN thrown[l] + 1 ELSE thrown[l]]
      BY <1>3, <2>1, <2>5 DEF PluginInv
    <3>3. refs' \in [Lib -> Nat] /\ thrown' \in [Lib -> Nat]
      BY <2>3, <3>2 DEF PluginInv
    <3>4. \A l \in Lib : refs'[l] = Cardinality(Holders(l)) + lost[l] + thrown'[l]
      BY <2>3, <3>1, <3>2 DEF PluginInv
    <3> QED BY <2>1, <2>5, <3>1, <3>3, <3>4 DEF PluginInv
  <2> QED BY <2>1, <2>4, <2>5
<1> QED
  BY <1>1, <1>2, <1>3 DEF LoadPath

\* unload gives back the reference of the name it takes away.
LEMMA UnloadInv ==
    ASSUME PluginInv, NEW n \in Name, Unload(n)
    PROVE  PluginInv'
<1>1. /\ handle' = [handle EXCEPT ![n] = None]
      /\ listed' = listed \ {n}
      /\ refs' = [l \in Lib |-> IF handle[n] = l THEN refs[l] - 1 ELSE refs[l]]
      /\ libs' = libs /\ lost' = lost /\ thrown' = thrown
  BY DEF Unload
<1>2. handle' \in [Name -> Lib \cup {None}] /\ refs' = [l \in Lib |-> refs'[l]]
  BY <1>1 DEF PluginInv
<1>3. \A m \in Name : handle'[m] # None => m \in listed'
  BY <1>1 DEF PluginInv
<1>4. ASSUME NEW l \in Lib
      PROVE  /\ IsFiniteSet(Holders(l)') /\ refs'[l] = Cardinality(Holders(l)') + lost'[l] + thrown[l]
             /\ refs'[l] \in Nat
  <2>1. /\ IsFiniteSet(Holders(l)) /\ refs[l] = Cardinality(Holders(l)) + lost[l] + thrown[l]
        /\ refs[l] \in Nat /\ lost[l] \in Nat /\ thrown[l] \in Nat
    BY DEF PluginInv
  <2>2. Cardinality(Holders(l)) \in Nat
    BY <2>1, FS_CardinalityType
  <2>3. Holders(l)' = Holders(l) \ {n}
    BY <1>1, NoneAssumption DEF Holders, PluginInv, File
  <2>4. n \in Holders(l) <=> handle[n] = l
    BY DEF Holders
  <2>5. /\ IsFiniteSet(Holders(l) \ {n})
        /\ Cardinality(Holders(l) \ {n}) =
             IF n \in Holders(l) THEN Cardinality(Holders(l)) - 1 ELSE Cardinality(Holders(l))
    BY <2>1, FS_RemoveElement
  <2>6. Cardinality(Holders(l)') \in Nat /\ refs'[l] = Cardinality(Holders(l)') + lost'[l] + thrown[l]
    BY <1>1, <2>1, <2>2, <2>3, <2>4, <2>5, FS_CardinalityType
  <2> QED BY <1>1, <2>1, <2>3, <2>5, <2>6
<1> QED
  BY <1>1, <1>2, <1>3, <1>4 DEF PluginInv, Holders

\* unload_all gives back the reference of every name.
LEMMA UnloadAllInv ==
    ASSUME PluginInv, UnloadAll
    PROVE  PluginInv'
<1>1. /\ handle' = [n \in Name |-> None]
      /\ refs' = [l \in Lib |-> refs[l] - Cardinality(Holders(l))]
      /\ libs' = libs /\ lost' = lost /\ thrown' = thrown
  BY DEF UnloadAll, Holders
<1>2. \A l \in Lib : Cardinality(Holders(l)) \in Nat
  BY FS_CardinalityType DEF PluginInv
<1>3. handle' \in [Name -> Lib \cup {None}] /\ refs' = [l \in Lib |-> refs'[l]]
  BY <1>1, <1>2 DEF PluginInv
<1>4. ASSUME NEW l \in Lib
      PROVE  /\ IsFiniteSet(Holders(l)') /\ refs'[l] = Cardinality(Holders(l)') + lost'[l] + thrown[l]
             /\ refs'[l] \in Nat
  <2>1. /\ refs[l] = Cardinality(Holders(l)) + lost[l] + thrown[l]
        /\ refs[l] \in Nat /\ lost[l] \in Nat /\ thrown[l] \in Nat
    BY DEF PluginInv
  <2>2. Holders(l)' = {}
    BY <1>1, NoneAssumption DEF Holders, File
  <2> QED BY <1>1, <1>2, <2>1, <2>2, FS_EmptySet
<1> QED
  BY <1>1, <1>3, <1>4 DEF PluginInv, Holders

\* The references to the libraries are accounted for, for any libraries, names
\* and numbers of loads, through replaced plugins, refused loads, exceptions and
\* scans beside other threads.  The inductive invariant adds that finitely many names hold a
\* library, so that they can be counted, and that no count falls below zero.
THEOREM HandlesSafe == PluginSpec => []HandlesAccounted
<1>1. PluginInit => PluginInv
  <2> SUFFICES ASSUME PluginInit PROVE PluginInv
    OBVIOUS
  <2>1. \A l \in Lib : Holders(l) = {}
    BY NoneAssumption DEF PluginInit, Holders, File
  <2> QED BY <2>1, FS_EmptySet DEF PluginInit, PluginInv
<1>2. PluginInv /\ [PluginNext]_pluginVars => PluginInv'
  <2> SUFFICES ASSUME PluginInv, [PluginNext]_pluginVars PROVE PluginInv'
    OBVIOUS
  <2>1. CASE UNCHANGED pluginVars
    BY <2>1, PluginFrame DEF pluginVars, plugins
  <2>2. ASSUME NEW f \in File, Load(f) \/ ScanNext(f) PROVE PluginInv'
    BY <2>2, LoadPathInv DEF Load, ScanNext
  <2>3. CASE ScanDirectory
    BY <2>3, PluginFrame DEF ScanDirectory, plugins
  <2>4. CASE ScanLooksUp
    BY <2>4, PluginFrame DEF ScanLooksUp
  <2>5. ASSUME NEW n \in Name, Unload(n) PROVE PluginInv'
    BY <2>5, UnloadInv
  <2>6. CASE UnloadAll
    BY <2>6, UnloadAllInv
  <2> QED BY <2>1, <2>2, <2>3, <2>4, <2>5, <2>6 DEF PluginNext
<1>3. PluginInv => HandlesAccounted
  BY DEF PluginInv, Holders, HandlesAccounted
<1> QED
  BY <1>1, <1>2, <1>3, PTL DEF PluginSpec




-----------------------------------------------------------------------------
(* The SSE handshake.  The endpoint is computed line by line, so what it *)
(* may be is proved by least counterexample over the lines.                *)

\* Every non-empty set of numbers has a least one.
LEMMA LeastNat ==
    ASSUME NEW T, T \subseteq Nat, T # {}
    PROVE  \E m \in T : \A k \in T : m <= k
<1>1. PICK m \in T : \A k \in T : <<k, m>> \notin OpToRel(<, Nat)
  BY WFMin, NatLessThanWellFounded, Zenon
<1>2. \A k \in T : ~(k < m)
  BY <1>1, Zenon DEF OpToRel
<1>3. QED
  BY <1>2

\* A set of numbers up to n that has 0, and has i when it has i - 1, has them
\* all.
LEMMA Upto ==
    ASSUME NEW n \in Nat, NEW P, 0 \in P,
           \A i \in 1..n : i - 1 \in P => i \in P
    PROVE  \A i \in 0..n : i \in P
<1> DEFINE Bad == { i \in 0..n : i \notin P }
<1> SUFFICES ASSUME Bad # {} PROVE FALSE
  OBVIOUS
<1>1. Bad \subseteq Nat
  OBVIOUS
<1>2. PICK m \in Bad : \A k \in Bad : m <= k
  <2> HIDE DEF Bad
  <2> QED BY <1>1, LeastNat
<1>3. m \in 1..n /\ m - 1 \in 0..n /\ m - 1 \notin Bad
  BY <1>2
<1> QED
  BY <1>2, <1>3

\* What the lines may leave.
Announcement == [data : {"none", "rel", "abs", "junk"}, ep : {"none", "announced"}]

\* One line.
LEMMA SseLineType ==
    ASSUME NEW st \in Announcement, NEW line \in Lines, NEW path \in BOOLEAN
    PROVE  SseLine(st, line, path) \in Announcement
<1>1. /\ st.data \in {"none", "rel", "abs", "junk"} /\ st.ep \in {"none", "announced"}
      /\ st = [data |-> st.data, ep |-> st.ep]
  BY DEF Announcement
<1>2. ParseSseLine(st.ep, line, path) \in {"none", "announced"}
  BY <1>1 DEF ParseSseLine
<1>3. ParseSseLine(st.ep, st.data, path) \in {"none", "announced"}
  BY <1>1 DEF ParseSseLine
<1>4. CASE line \in {"rel", "abs", "junk"}
  BY <1>1, <1>4 DEF SseLine, Announcement
<1>5. CASE line = "empty" /\ st.data # "none"
  BY <1>3, <1>5 DEF SseLine, Announcement
<1>6. CASE line \notin {"rel", "abs", "junk"} /\ ~(line = "empty" /\ st.data # "none")
  BY <1>1, <1>2, <1>6 DEF SseLine, Announcement
<1> QED
  BY <1>4, <1>5, <1>6

\* Whatever lines come, the transport has an endpoint in the end.
LEMMA SseEndpoint ==
    ASSUME NEW lines \in Seq(Lines), NEW path \in BOOLEAN
    PROVE  HttpGetSse(lines, path) \in {"announced", "url"}
<1>0. Len(lines) \in Nat
  OBVIOUS
<1> DEFINE none == [data |-> "none", ep |-> "none"]
           At(f, i) == IF i = 0 THEN none ELSE SseLine(f[i - 1], lines[i], path)
           Solved(n) == \E f \in [0..n -> Announcement] : \A i \in 0..n : f[i] = At(f, i)
           N == { n \in 0..Len(lines) : Solved(n) }
           IsAfter(f) == f = [i \in 0..Len(lines) |-> At(f, i)]
           after == CHOOSE f : IsAfter(f)
<1>1. none \in Announcement
  BY DEF Announcement
<1>2. Solved(0)
  <2> DEFINE f == [i \in 0..0 |-> none]
  <2>1. f \in [0..0 -> Announcement] /\ \A i \in 0..0 : f[i] = At(f, i)
    <3> HIDE DEF none
    <3> QED BY <1>1
  <2> QED BY <2>1
<1>3. ASSUME NEW n \in 1..Len(lines), Solved(n - 1) PROVE Solved(n)
  <2>1. PICK f \in [0..(n - 1) -> Announcement] : \A i \in 0..(n - 1) : f[i] = At(f, i)
    BY <1>3
  <2> DEFINE x == SseLine(f[n - 1], lines[n], path)
             g == [i \in 0..n |-> IF i = n THEN x ELSE f[i]]
  <2>2. x \in Announcement
    <3>1. f[n - 1] \in Announcement /\ lines[n] \in Lines
      BY <1>3, <2>1
    <3> QED BY <3>1, SseLineType
  <2> HIDE DEF x
  <2>3. g \in [0..n -> Announcement]
    BY <2>1, <2>2
  <2>4. ASSUME NEW i \in 0..n PROVE g[i] = At(g, i)
    <3> HIDE DEF none
    <3>1. CASE i = n
      <4>1. g[i] = x /\ g[i - 1] = f[n - 1] /\ i # 0
        BY <3>1, <1>3
      <4> QED BY <4>1, <3>1 DEF x
    <3>2. CASE i # n
      <4>1. i \in 0..(n - 1) /\ g[i] = f[i] /\ (i # 0 => g[i - 1] = f[i - 1])
        BY <3>2, <1>3
      <4>2. f[i] = At(f, i)
        BY <4>1, <2>1
      <4> QED BY <4>1, <4>2
    <3> QED BY <3>1, <3>2
  <2> HIDE DEF g, At
  <2> QED BY <2>3, <2>4
<1>4. \A n \in 0..Len(lines) : n \in N
  <2> HIDE DEF Solved
  <2>1. 0 \in N
    BY <1>2
  <2>2. \A i \in 1..Len(lines) : i - 1 \in N => i \in N
    BY <1>3
  <2> HIDE DEF N
  <2> QED BY <1>0, <2>1, <2>2, Upto
<1>5. Len(lines) \in N
  <2> HIDE DEF N
  <2> QED BY <1>0, <1>4
<1>6. PICK f \in [0..Len(lines) -> Announcement] : \A i \in 0..Len(lines) : f[i] = At(f, i)
  <2> HIDE DEF At
  <2> QED BY <1>5
<1>7. \A i \in 0..Len(lines) : after[i] = At(after, i)
  <2>1. IsAfter(f)
    <3> HIDE DEF At
    <3> QED BY <1>6
  <2>2. IsAfter(after)
    <3> HIDE DEF IsAfter
    <3> QED BY <2>1, Zenon
  <2> HIDE DEF after, At
  <2> QED BY <2>2
<1>8. HttpGetSse(lines, path) =
        IF after[Len(lines)].ep = "none" THEN "url" ELSE after[Len(lines)].ep
  BY Zenon DEF HttpGetSse
<1> HIDE DEF after
<1>9. \A i \in 0..Len(lines) : after[i] \in Announcement
  <2> DEFINE G == { i \in 0..Len(lines) : after[i] \in Announcement }
  <2>1. 0 \in G
    <3> HIDE DEF none
    <3> QED BY <1>1, <1>7
  <2>2. ASSUME NEW i \in 1..Len(lines), i - 1 \in G PROVE i \in G
    <3>1. after[i] = SseLine(after[i - 1], lines[i], path)
      BY <1>7
    <3>2. after[i - 1] \in Announcement /\ lines[i] \in Lines
      BY <2>2
    <3> QED BY <3>1, <3>2, SseLineType
  <2>3. \A i \in 0..Len(lines) : i \in G
    <3> HIDE DEF G
    <3> QED BY <1>0, <2>1, <2>2, Upto
  <2> QED BY <2>3
<1>10. after[Len(lines)].ep \in {"none", "announced"}
  <2>1. after[Len(lines)] \in Announcement
    BY <1>0, <1>9
  <2> QED BY <2>1 DEF Announcement
<1> QED
  BY <1>8, <1>10

\* What a connection gives: tools, and an endpoint for the clients that need one.
LEMMA ConnectGives ==
    ASSUME ManagerTypes, NEW s \in Server, NEW c \in Connect(s)
    PROVE  c.tools \subseteq Tool /\ c.ep \in {"none", "announced", "url"}
<1>1. serverTools[s] \subseteq Tool
  BY DEF ManagerTypes
<1>2. CASE c \in ConnectStdio(s)
  BY <1>1, <1>2 DEF ConnectStdio
<1>3. CASE c \in ConnectSse(s)
  <2>1. configs[s].path \in BOOLEAN
    <3>1. configs[s] \in Config \cup {NoConfig}
      BY DEF ManagerTypes
    <3>2. CASE configs[s] \in [transport : {"sse"}, enabled : BOOLEAN, path : BOOLEAN]
      BY <3>2
    <3>3. CASE configs[s] \in [transport : {"stdio"}, enabled : BOOLEAN, path : {FALSE}]
      <4>1. configs[s].path \in {FALSE}
        BY <3>3
      <4> QED BY <4>1, Zenon
    <3>4. CASE configs[s] = NoConfig
      <4>1. configs[s].path = FALSE
        BY <3>4 DEF NoConfig
      <4> QED BY <4>1, Zenon
    <3> QED BY <3>1, <3>2, <3>3, <3>4, ConfigAssumption DEF Configurations
  <2>2. PICK ep \in Endpoints[configs[s].path] :
          c = [ep |-> PostUrl(ep), tools |-> {}, threw |-> FALSE]
    BY <1>3 DEF ConnectSse
  <2>3. PICK lines \in SeqOf(Lines, MaxLines) : ep = HttpGetSse(lines, configs[s].path)
    BY <2>1, <2>2 DEF Endpoints
  <2>4. lines \in Seq(Lines)
    BY <2>3, BoundsAssumption DEF SeqOf
  <2>5. ep \in {"announced", "url"}
    BY <2>1, <2>3, <2>4, SseEndpoint
  <2>6. PostUrl(ep) \in {"announced", "url"}
    BY <2>5 DEF PostUrl
  <2> QED BY <2>2, <2>6
<1> QED
  BY <1>2, <1>3 DEF Connect

-----------------------------------------------------------------------------
(* McpManager.                                                             *)

\* What the tools' maps do not share with the manager.
LEMMA SyncFrame ==
    ASSUME SyncOwned, UNCHANGED tools
    PROVE  SyncOwned'
BY DEF SyncOwned, Syncing, tools, sync

\* Dropping servers destroys their clients and no other's.
LEMMA DropInv ==
    ASSUME McpInv, NEW ss \in SUBSET Server, Drop(ss),
           configs' \in [Server -> Config \cup {NoConfig}],
           IsFiniteSet({ s \in Server : configs'[s] # NoConfig })
    PROVE  McpInv'
<1>1. /\ alive' = alive \ { clients[s] : s \in ss }
      /\ clients' = [s \in Server |-> IF s \in ss THEN 0 ELSE clients[s]]
      /\ serverTools' = [s \in Server |-> IF s \in ss THEN {} ELSE serverTools[s]]
      /\ made' = made /\ post' = post
      /\ UNCHANGED tools
  BY DEF Drop
<1>2. ManagerTypes'
  BY <1>1 DEF McpInv, ManagerTypes
<1>3. \A s \in Server : serverTools'[s] # {} => clients'[s] # 0
  BY <1>1 DEF McpInv, ClientsOwned
<1>4. \A r, s \in Server : clients'[r] = clients'[s] /\ clients'[r] # 0 => r = s
  BY <1>1 DEF McpInv, ClientsOwned
<1>5. ASSUME NEW s \in Server, clients'[s] # 0 PROVE clients'[s] \in alive'
  <2>1. s \notin ss /\ clients'[s] = clients[s]
    BY <1>1, <1>5
  <2>2. \A r \in ss : clients[r] # clients[s]
    BY <1>5, <2>1 DEF McpInv, ClientsOwned
  <2> QED BY <1>1, <1>5, <2>1, <2>2 DEF McpInv, ClientsOwned
<1> QED
  BY <1>1, <1>2, <1>3, <1>4, <1>5, SyncFrame DEF McpInv, ClientsOwned

\* A server that gets a configuration, or loses it.
LEMMA ConfigFinite ==
    ASSUME ManagerTypes, NEW s \in Server, NEW c \in Config \cup {NoConfig},
           configs' = [configs EXCEPT ![s] = c]
    PROVE  /\ configs' \in [Server -> Config \cup {NoConfig}]
           /\ IsFiniteSet({ r \in Server : configs'[r] # NoConfig })
<1> DEFINE known == { r \in Server : configs[r] # NoConfig }
           next == { r \in Server : configs'[r] # NoConfig }
<1>1. IsFiniteSet(known \cup {s})
  BY FS_AddElement DEF ManagerTypes
<1>2. next \in SUBSET (known \cup {s})
  BY DEF ManagerTypes
<1>3. IsFiniteSet(next)
  <2> HIDE DEF known, next
  <2> QED BY <1>1, <1>2, FS_Subset
<1> QED
  BY <1>3 DEF ManagerTypes

\* One new client in place of the old one.
LEMMA ConnectServerInv ==
    ASSUME McpInv, NEW s \in Server, ConnectServer(s)
    PROVE  McpInv'
<1>1. /\ made' = made + 1 /\ made' \in 1..MaxClients
      /\ configs' = configs /\ UNCHANGED tools
  <2>1. made \in 0..MaxClients
    BY DEF McpInv, ManagerTypes
  <2>2. made < MaxClients /\ made' = made + 1
    BY DEF ConnectServer
  <2>3. configs' = configs /\ UNCHANGED tools
    BY DEF ConnectServer
  <2> QED BY <2>1, <2>2, <2>3, BoundsAssumption
<1>2. \A r \in Server : clients[r] \in 0..made
  BY DEF McpInv, ManagerTypes
<1>3. made \in Nat /\ \A r \in Server : clients[r] # made'
  BY <1>1, <1>2 DEF McpInv, ManagerTypes
<1>4. 0..made \subseteq 0..made'
  BY <1>1, <1>3
<1>5. CASE UNCHANGED <<alive, clients, serverTools, post>>
  <2>1. ManagerTypes'
    BY <1>1, <1>4, <1>5 DEF McpInv, ManagerTypes
  <2>2. ClientsOwned'
    BY <1>5 DEF McpInv, ClientsOwned
  <2> QED BY <1>1, <2>1, <2>2, SyncFrame DEF McpInv
<1>6. ASSUME NEW c \in Connect(s),
             alive' = (alive \ {clients[s]}) \cup {made'},
             clients' = [clients EXCEPT ![s] = made'],
             serverTools' = [serverTools EXCEPT ![s] = c.tools],
             post' = [post EXCEPT ![made'] = c.ep]
      PROVE  McpInv'
  <2>1. c.tools \subseteq Tool /\ c.ep \in {"none", "announced", "url"}
    BY ConnectGives DEF McpInv
  <2>2. clients' \in [Server -> 0..made']
    BY <1>1, <1>3, <1>4, <1>6 DEF McpInv, ManagerTypes
  <2>3. ManagerTypes'
    BY <1>1, <1>6, <2>1, <2>2 DEF McpInv, ManagerTypes
  <2>4. clients'[s] = made' /\ \A r \in Server \ {s} : clients'[r] = clients[r]
    BY <1>6 DEF McpInv, ManagerTypes
  <2>5. \A q, r \in Server : clients'[q] = clients'[r] /\ clients'[q] # 0 => q = r
    BY <1>3, <2>4 DEF McpInv, ClientsOwned
  <2>6. \A r \in Server : clients'[r] # 0 => clients'[r] \in alive'
    BY <1>6, <2>4 DEF McpInv, ClientsOwned
  <2>7. \A r \in Server : serverTools'[r] # {} => clients'[r] # 0
    BY <1>1, <1>6, <2>4 DEF McpInv, ClientsOwned, ManagerTypes
  <2> QED BY <1>1, <2>3, <2>5, <2>6, <2>7, SyncFrame DEF McpInv, ClientsOwned
<1> QED
  BY <1>5, <1>6 DEF ConnectServer

\* The clients connect_all makes are numbered upwards in the order of the names.
LEMMA Ranks ==
    ASSUME NEW T, IsFiniteSet(T), T \subseteq Nat
    PROVE  /\ Cardinality(T) \in Nat
           /\ \A s \in T : Cardinality({ r \in T : r <= s }) \in 1..Cardinality(T)
           /\ \A q, s \in T : q < s =>
                Cardinality({ r \in T : r <= q }) < Cardinality({ r \in T : r <= s })
<1> DEFINE upto(s) == { r \in T : r <= s }
<1>1. \A s \in T : upto(s) \in SUBSET T /\ s \in upto(s)
  OBVIOUS
<1>2. \A s \in T : IsFiniteSet(upto(s)) /\ Cardinality(upto(s)) <= Cardinality(T)
  <2> HIDE DEF upto
  <2> QED BY <1>1, FS_Subset
<1>3. Cardinality(T) \in Nat
  BY FS_CardinalityType
<1>4. \A s \in T : Cardinality(upto(s)) \in Nat /\ Cardinality(upto(s)) # 0
  <2> HIDE DEF upto
  <2> QED BY <1>1, <1>2, FS_CardinalityType, FS_EmptySet
<1>5. ASSUME NEW q \in T, NEW s \in T, q < s
      PROVE  Cardinality(upto(q)) < Cardinality(upto(s))
  <2>1. upto(q) \in SUBSET upto(s) /\ upto(q) # upto(s)
    <3>1. q \in Nat /\ s \in Nat
      OBVIOUS
    <3>2. ASSUME NEW r \in T, r <= q PROVE r <= s
      BY <1>5, <3>1, <3>2
    <3>3. s \in upto(s) /\ s \notin upto(q)
      BY <1>5, <3>1
    <3>4. upto(q) \subseteq upto(s)
      BY <3>2
    <3> QED BY <3>3, <3>4
  <2>2. Cardinality(upto(q)) <= Cardinality(upto(s)) /\ Cardinality(upto(q)) # Cardinality(upto(s))
    <3> HIDE DEF upto
    <3> QED BY <2>1, <1>2, FS_Subset
  <2> HIDE DEF upto
  <2> QED BY <2>2, <1>4
<1>6. \A s \in T : Cardinality(upto(s)) \in 1..Cardinality(T)
  <2> HIDE DEF upto
  <2> QED BY <1>2, <1>3, <1>4
<1> QED
  BY <1>3, <1>5, <1>6

\* connect_all: every server that was reached has a client of its own, newer
\* than all clients before.
LEMMA ConnectAllInv ==
    ASSUME McpInv, ConnectAll
    PROVE  McpInv'
<1> DEFINE todo == { s \in Server : configs[s].enabled }
           id(s) == made + Cardinality({ r \in todo : r <= s })
           Connected(stop, ok, c) ==
             /\ \A s \in ok : c[s] \in Connect(s) /\ (c[s].threw => s = stop)
             /\ stop = Max(todo) \/ (stop \in ok /\ c[stop].threw)
             /\ made' = id(stop)
             /\ alive' = (alive \ { clients[s] : s \in ok }) \cup { id(s) : s \in ok }
             /\ clients' = [s \in Server |-> IF s \in ok THEN id(s) ELSE clients[s]]
             /\ serverTools' = [s \in Server |-> IF s \in ok THEN c[s].tools ELSE serverTools[s]]
             /\ post' = [i \in 1..MaxClients |->
                           IF \E s \in ok : id(s) = i
                             THEN c[CHOOSE s \in ok : id(s) = i].ep ELSE post[i]]
<1>1. made + Cardinality(todo) <= MaxClients /\ configs' = configs /\ UNCHANGED tools
  BY DEF ConnectAll
<1>2. PICK stop \in todo : \E ok \in SUBSET { s \in todo : s <= stop } :
        \E c \in [ok -> UNION { Connect(s) : s \in ok }] : Connected(stop, ok, c)
  BY Zenon DEF ConnectAll
<1>3. PICK ok \in SUBSET { s \in todo : s <= stop } :
        \E c \in [ok -> UNION { Connect(s) : s \in ok }] : Connected(stop, ok, c)
  <2> HIDE DEF Connected, todo
  <2> QED BY <1>2
<1>4. PICK c \in [ok -> UNION { Connect(s) : s \in ok }] : Connected(stop, ok, c)
  <2> HIDE DEF Connected
  <2> QED BY <1>3
<1>5. todo \subseteq Server /\ todo \subseteq Nat
  BY ServerAssumption
<1>6. IsFiniteSet(todo)
  <2>1. todo \in SUBSET { s \in Server : configs[s] # NoConfig }
    BY DEF NoConfig
  <2> HIDE DEF todo
  <2> QED BY <2>1, FS_Subset DEF McpInv, ManagerTypes
<1>7. ok \subseteq todo /\ \A s \in ok : s <= stop
  BY <1>3
<1>8. made \in Nat /\ made <= MaxClients /\ \A r \in Server : clients[r] \in 0..made
  BY DEF McpInv, ManagerTypes
<1>9. /\ \A s \in todo : id(s) \in (made + 1)..MaxClients
      /\ \A q, s \in todo : q < s => id(q) < id(s)
  <2> HIDE DEF todo
  <2>1. /\ Cardinality(todo) \in Nat
        /\ \A s \in todo : Cardinality({ r \in todo : r <= s }) \in 1..Cardinality(todo)
        /\ \A q, s \in todo : q < s =>
             Cardinality({ r \in todo : r <= q }) < Cardinality({ r \in todo : r <= s })
    BY <1>5, <1>6, Ranks
  <2>2. ASSUME NEW s \in todo PROVE id(s) \in (made + 1)..MaxClients
    BY <1>1, <1>8, <2>1, BoundsAssumption
  <2>3. ASSUME NEW q \in todo, NEW s \in todo, q < s PROVE id(q) < id(s)
    <3>1. /\ Cardinality({ r \in todo : r <= q }) \in 1..Cardinality(todo)
          /\ Cardinality({ r \in todo : r <= s }) \in 1..Cardinality(todo)
          /\ Cardinality({ r \in todo : r <= q }) < Cardinality({ r \in todo : r <= s })
      BY <2>1, <2>3
    <3> QED BY <1>8, <2>1, <3>1
  <2> QED BY <2>2, <2>3
<1> HIDE DEF id, todo
<1>10. /\ ok \subseteq Server
       /\ stop \in Nat /\ \A s \in ok : s \in Nat
       /\ \A s \in ok : id(s) \in Nat /\ id(s) > made /\ id(s) <= made'
       /\ \A q, s \in ok : id(q) = id(s) => q = s
       /\ made' \in Nat /\ made' > made /\ made' <= MaxClients
  <2>1. made' \in (made + 1)..MaxClients
    BY <1>2, <1>4, <1>9
  <2>2. ok \subseteq Server /\ stop \in Nat /\ \A s \in ok : s \in Nat
    BY <1>2, <1>5, <1>7
  <2>3. \A s \in ok : id(s) \in (made + 1)..MaxClients
    BY <1>7, <1>9
  <2>4. id(stop) \in (made + 1)..MaxClients
    BY <1>2, <1>9
  <2>5. ASSUME NEW s \in ok PROVE id(s) <= made'
    <3>1. s = stop \/ s < stop
      BY <1>7, <2>2
    <3>2. s < stop => id(s) < id(stop)
      BY <1>2, <1>7, <1>9
    <3> QED BY <1>4, <1>8, <2>3, <2>4, <3>1, <3>2, BoundsAssumption
  <2>6. ASSUME NEW q \in ok, NEW s \in ok, id(q) = id(s) PROVE q = s
    <3>1. q < s => id(q) < id(s)
      BY <1>7, <1>9
    <3>2. s < q => id(s) < id(q)
      BY <1>7, <1>9
    <3> QED BY <1>8, <2>2, <2>3, <2>6, <3>1, <3>2, BoundsAssumption
  <2> QED BY <1>8, <2>1, <2>2, <2>3, <2>5, <2>6, BoundsAssumption
<1>11. \A s \in ok : c[s].tools \subseteq Tool /\ c[s].ep \in {"none", "announced", "url"}
  BY <1>4, <1>10, ConnectGives DEF McpInv
<1>12. clients' \in [Server -> 0..made']
  BY <1>4, <1>8, <1>10
<1>13. serverTools' \in [Server -> SUBSET Tool]
  BY <1>4, <1>11 DEF McpInv, ManagerTypes
<1>14. post' \in [1..MaxClients -> {"none", "announced", "url"}]
  <2>1. ASSUME NEW i \in 1..MaxClients PROVE post'[i] \in {"none", "announced", "url"}
    <3>1. CASE \E s \in ok : id(s) = i
      <4>1. (CHOOSE s \in ok : id(s) = i) \in ok
        BY <3>1
      <4> QED BY <1>4, <1>11, <3>1, <4>1
    <3>2. CASE ~\E s \in ok : id(s) = i
      BY <1>4, <3>2 DEF McpInv, ManagerTypes
    <3> QED BY <3>1, <3>2
  <2> QED BY <1>4, <2>1
<1>15. ManagerTypes'
  BY <1>1, <1>10, <1>12, <1>13, <1>14 DEF McpInv, ManagerTypes
<1>16. \A s \in Server : serverTools'[s] # {} => clients'[s] # 0
  BY <1>4, <1>8, <1>10 DEF McpInv, ClientsOwned
<1>17. ASSUME NEW q \in Server, NEW s \in Server, clients'[q] = clients'[s], clients'[q] # 0
       PROVE  q = s
  <2>1. \A r \in Server : clients'[r] = IF r \in ok THEN id(r) ELSE clients[r]
    BY <1>4
  <2>2. \A r \in Server : clients[r] <= made
    BY <1>8
  <2>3. \A r \in ok : id(r) > made
    BY <1>10
  <2>4. CASE q \in ok /\ s \in ok
    BY <1>10, <1>17, <2>1, <2>4
  <2>5. CASE q \notin ok /\ s \notin ok
    BY <1>17, <2>1, <2>5 DEF McpInv, ClientsOwned
  <2>6. CASE q \in ok /\ s \notin ok
    BY <1>8, <1>10, <1>17, <2>1, <2>2, <2>3, <2>6
  <2>7. CASE q \notin ok /\ s \in ok
    BY <1>8, <1>10, <1>17, <2>1, <2>2, <2>3, <2>7
  <2> QED BY <2>4, <2>5, <2>6, <2>7
<1>18. ASSUME NEW s \in Server, clients'[s] # 0 PROVE clients'[s] \in alive'
  <2>1. CASE s \in ok
    BY <1>4, <2>1
  <2>2. CASE s \notin ok
    <3>1. clients'[s] = clients[s]
      BY <1>4, <2>2
    <3>2. clients[s] \in alive /\ \A r \in ok : clients[r] # clients[s]
      BY <1>10, <1>18, <2>2, <3>1 DEF McpInv, ClientsOwned
    <3> QED BY <1>4, <3>1, <3>2
  <2> QED BY <2>1, <2>2
<1> QED
  BY <1>1, <1>15, <1>16, <1>17, <1>18, SyncFrame DEF McpInv, ClientsOwned

-----------------------------------------------------------------------------
(* McpToolManager.                                                         *)

\* The manager's maps, when only tools are synced.
LEMMA ManagerFrame ==
    ASSUME ManagerTypes, ClientsOwned, UNCHANGED manager
    PROVE  ManagerTypes' /\ ClientsOwned'
BY DEF ManagerTypes, ClientsOwned, manager

\* Names of a server that are forgotten leave the two maps in agreement.
LEMMA ForgetNames ==
    ASSUME SyncOwned, NEW s \in Server, synced' = [synced EXCEPT ![s] = {}],
           named' = named \ ({s} \X synced[s])
    PROVE  /\ synced' \in [Server -> SUBSET Tool]
           /\ named' = { k \in Keys : k[2] \in synced'[k[1]] }
           /\ \A r \in Server : synced'[r] \subseteq synced[r]
<1>1. synced' \in [Server -> SUBSET Tool]
  BY DEF SyncOwned
<1>2. named' = { k \in Keys : k[2] \in synced'[k[1]] }
  BY DEF SyncOwned, Keys
<1> QED
  BY <1>1, <1>2 DEF SyncOwned

\* Between two servers, and before the first, no client is held.
LEMMA NextServerFacts ==
    ASSUME SyncOwned, NEW s \in Server, SyncNextServer(s)
    PROVE  /\ queue' \subseteq Server /\ found' \subseteq Tool /\ client' \in Nat
           /\ \A r \in Server : ~Syncing(r, "client")' /\ ~Syncing(r, "register")'
BY DEF SyncOwned, SyncNextServer, Syncing

\* sync_tools and sync_server_tools begin.
LEMMA SyncBegins ==
    ASSUME McpInv, SyncTools \/ \E s \in Server : SyncServerTools(s)
    PROVE  McpInv'
<1>1. UNCHANGED <<manager, registry, named, synced, found, client, syncedWith>>
  BY DEF SyncTools, SyncServerTools
<1>2. queue' \subseteq Server /\ at' \in {"idle", "list"}
  BY DEF SyncTools, SyncServerTools
<1>3. SyncOwned'
  BY <1>1, <1>2 DEF McpInv, SyncOwned, Syncing
<1> QED
  BY <1>1, <1>3, ManagerFrame DEF McpInv

\* The server's names are forgotten and its tools are listed.
LEMMA SyncListInv ==
    ASSUME McpInv, NEW s \in Server, SyncList(s)
    PROVE  McpInv'
<1>1. /\ Syncing(s, "list") /\ UNCHANGED <<manager, registry, syncedWith>>
      /\ synced' = [synced EXCEPT ![s] = {}]
      /\ named' = named \ ({s} \X synced[s])
  BY DEF SyncList
<1>2. /\ synced' \in [Server -> SUBSET Tool]
      /\ named' = { k \in Keys : k[2] \in synced'[k[1]] }
      /\ \A r \in Server : synced'[r] \subseteq synced[r]
  BY <1>1, ForgetNames DEF McpInv
<1>3. \A r \in Server : \A t \in synced'[r] :
        registry'[<<r, t>>] = syncedWith'[r] /\ syncedWith'[r] # 0
  BY <1>1, <1>2 DEF McpInv, SyncOwned
<1>4. CASE serverTools[s] = {}
  <2>1. SyncNextServer(s)
    BY <1>4 DEF SyncList
  <2>2. SyncOwned'
    BY <1>1, <1>2, <1>3, <2>1, NextServerFacts DEF McpInv, SyncOwned
  <2> QED BY <1>1, <2>2, ManagerFrame DEF McpInv
<1>5. CASE serverTools[s] # {}
  <2>1. found' = serverTools[s] /\ at' = "client" /\ UNCHANGED <<queue, client>>
    BY <1>5 DEF SyncList
  <2>2. \A r \in Server : Syncing(r, "client")' => r = s
    BY <1>1, <2>1, ServerAssumption DEF Syncing
  <2>3. synced'[s] = {} /\ found' \subseteq Tool
    BY <1>1, <2>1 DEF McpInv, SyncOwned, ManagerTypes
  <2>4. \A r \in Server : ~Syncing(r, "register")'
    BY <2>1 DEF Syncing
  <2>5. SyncOwned'
    BY <1>1, <1>2, <1>3, <2>1, <2>2, <2>3, <2>4 DEF McpInv, SyncOwned
  <2> QED BY <1>1, <2>5, ManagerFrame DEF McpInv
<1> QED
  BY <1>4, <1>5

\* get_client answers.
LEMMA SyncClientInv ==
    ASSUME McpInv, NEW s \in Server, SyncClient(s)
    PROVE  McpInv'
<1>1. /\ Syncing(s, "client") /\ UNCHANGED <<manager, registry, named, synced>>
      /\ syncedWith' = [syncedWith EXCEPT ![s] = clients[s]]
  BY DEF SyncClient
<1>2. clients[s] \in Nat /\ synced[s] = {}
  BY <1>1 DEF McpInv, ManagerTypes, SyncOwned
<1>3. \A r \in Server : \A t \in synced'[r] :
        registry'[<<r, t>>] = syncedWith'[r] /\ syncedWith'[r] # 0
  BY <1>1, <1>2 DEF McpInv, SyncOwned
<1>4. syncedWith' \in [Server -> Nat] /\ syncedWith'[s] = clients[s]
  BY <1>1, <1>2 DEF McpInv, SyncOwned
<1>5. CASE clients[s] = 0
  <2>1. SyncNextServer(s)
    BY <1>5 DEF SyncClient
  <2>2. SyncOwned'
    BY <1>1, <1>3, <1>4, <2>1, NextServerFacts DEF McpInv, SyncOwned
  <2> QED BY <1>1, <2>2, ManagerFrame DEF McpInv
<1>6. CASE clients[s] # 0
  <2>1. client' = clients[s] /\ at' = "register" /\ UNCHANGED <<queue, found>>
    BY <1>6 DEF SyncClient
  <2>2. \A r \in Server : Syncing(r, "register")' => r = s
    BY <1>1, <2>1, ServerAssumption DEF Syncing
  <2>3. \A r \in Server : ~Syncing(r, "client")'
    BY <2>1 DEF Syncing
  <2>4. SyncOwned'
    BY <1>1, <1>2, <1>3, <1>4, <1>6, <2>1, <2>2, <2>3 DEF McpInv, SyncOwned
  <2> QED BY <1>1, <2>4, ManagerFrame DEF McpInv
<1> QED
  BY <1>5, <1>6

\* The tools that are new to the registry are registered and counted.
LEMMA SyncRegisterInv ==
    ASSUME McpInv, NEW s \in Server, SyncRegister(s)
    PROVE  McpInv'
<1> DEFINE new == { t \in found : ~HasTool(<<s, t>>) }
<1>1. /\ Syncing(s, "register") /\ SyncNextServer(s) /\ UNCHANGED <<manager, syncedWith>>
      /\ registry' = [k \in Keys |-> IF k \in {s} \X new THEN client ELSE registry[k]]
      /\ synced' = [synced EXCEPT ![s] = new]
      /\ named' = named \cup ({s} \X new)
  BY Zenon DEF SyncRegister, RegisterTools
<1>2. new \subseteq Tool
  BY DEF McpInv, SyncOwned
<1> HIDE DEF new
<1>3. synced[s] = {} /\ client # 0 /\ client = syncedWith[s] /\ client \in Nat
  BY <1>1 DEF McpInv, SyncOwned
<1>4. registry' \in [Keys -> Nat] /\ synced' \in [Server -> SUBSET Tool]
  BY <1>1, <1>2, <1>3 DEF McpInv, SyncOwned
<1>5. named' = { k \in Keys : k[2] \in synced'[k[1]] }
  BY <1>1, <1>2, <1>3 DEF McpInv, SyncOwned, Keys
<1>6. ASSUME NEW r \in Server, NEW t \in synced'[r]
      PROVE  registry'[<<r, t>>] = syncedWith'[r] /\ syncedWith'[r] # 0
  <2>1. <<r, t>> \in Keys
    BY <1>4 DEF Keys
  <2>2. CASE r = s
    <3>1. t \in new
      BY <1>1, <1>6, <2>2 DEF McpInv, SyncOwned
    <3> QED BY <1>1, <1>3, <2>1, <2>2, <3>1
  <2>3. CASE r # s
    <3>1. t \in synced[r] /\ <<r, t>> \notin {s} \X new
      BY <1>1, <1>6, <2>3 DEF McpInv, SyncOwned
    <3>2. registry'[<<r, t>>] = registry[<<r, t>>]
      BY <1>1, <2>1, <3>1
    <3> QED BY <1>1, <3>1, <3>2 DEF McpInv, SyncOwned
  <2> QED BY <2>2, <2>3
<1>7. SyncOwned'
  BY <1>1, <1>4, <1>5, <1>6, NextServerFacts DEF McpInv, SyncOwned
<1> QED
  BY <1>1, <1>7, ManagerFrame DEF McpInv

\* A server's names that are forgotten.
LEMMA RemoveToolsInv ==
    ASSUME McpInv, NEW s \in Server, RemoveServerTools(s)
    PROVE  McpInv'
<1>1. /\ synced' = [synced EXCEPT ![s] = {}]
      /\ named' = named \ ({s} \X synced[s])
      /\ at = "idle" /\ UNCHANGED <<manager, registry, sync, syncedWith>>
  BY DEF RemoveServerTools
<1>2. /\ synced' \in [Server -> SUBSET Tool]
      /\ named' = { k \in Keys : k[2] \in synced'[k[1]] }
      /\ \A r \in Server : synced'[r] \subseteq synced[r]
  BY <1>1, ForgetNames DEF McpInv
<1>3. \A r \in Server : \A t \in synced'[r] :
        registry'[<<r, t>>] = syncedWith'[r] /\ syncedWith'[r] # 0
  BY <1>1, <1>2 DEF McpInv, SyncOwned
<1>4. SyncOwned'
  BY <1>1, <1>2, <1>3 DEF McpInv, SyncOwned, Syncing, sync
<1> QED
  BY <1>1, <1>4, ManagerFrame DEF McpInv

-----------------------------------------------------------------------------
(* The servers and their tools together.                                   *)

\* No server is known, no tool is registered.
LEMMA InitMcp == Init => McpInv
<1> SUFFICES ASSUME Init PROVE McpInv
  OBVIOUS
<1>1. { s \in Server : configs[s] # NoConfig } = {}
  BY DEF Init
<1>2. ManagerTypes
  <2>1. IsFiniteSet({ s \in Server : configs[s] # NoConfig })
    BY <1>1, FS_EmptySet
  <2> QED BY <2>1, BoundsAssumption DEF Init, ManagerTypes
<1>3. ClientsOwned
  BY DEF Init, ClientsOwned
<1>4. SyncOwned
  BY DEF Init, SyncOwned, Syncing, Keys
<1> QED
  BY <1>2, <1>3, <1>4 DEF McpInv

\* Every step keeps the maps of the two managers in agreement.
LEMMA NextMcp ==
    ASSUME McpInv, [Next]_vars
    PROVE  McpInv'
<1>1. CASE UNCHANGED vars
  BY <1>1, ManagerFrame, SyncFrame DEF vars, McpInv
<1>2. ASSUME NEW s \in Server, AddServer(s) PROVE McpInv'
  <2>1. PICK c \in Config : configs' = [configs EXCEPT ![s] = c]
    BY <1>2 DEF AddServer
  <2>2. UNCHANGED <<made, alive, clients, serverTools, post, tools>>
    BY <1>2 DEF AddServer
  <2>3. /\ configs' \in [Server -> Config \cup {NoConfig}]
        /\ IsFiniteSet({ r \in Server : configs'[r] # NoConfig })
    BY <2>1, ConfigFinite DEF McpInv
  <2>4. ManagerTypes' /\ ClientsOwned'
    BY <2>2, <2>3 DEF McpInv, ManagerTypes, ClientsOwned
  <2> QED BY <2>2, <2>4, SyncFrame DEF McpInv
<1>3. ASSUME NEW s \in Server, RemoveServer(s) PROVE McpInv'
  <2>1. configs' = [configs EXCEPT ![s] = NoConfig] /\ Drop({s}) /\ {s} \in SUBSET Server
    BY <1>3 DEF RemoveServer
  <2>2. /\ configs' \in [Server -> Config \cup {NoConfig}]
        /\ IsFiniteSet({ r \in Server : configs'[r] # NoConfig })
    BY <2>1, ConfigFinite DEF McpInv
  <2> QED BY <2>1, <2>2, DropInv
<1>4. ASSUME NEW ss \in SUBSET Server, Drop(ss), UNCHANGED configs PROVE McpInv'
  <2>1. /\ configs' \in [Server -> Config \cup {NoConfig}]
        /\ IsFiniteSet({ r \in Server : configs'[r] # NoConfig })
    BY <1>4 DEF McpInv, ManagerTypes
  <2> QED BY <1>4, <2>1, DropInv
<1>5. ASSUME NEW s \in Server, DisconnectServer(s) PROVE McpInv'
  BY <1>4, <1>5 DEF DisconnectServer
<1>6. CASE DisconnectAll
  BY <1>4, <1>6 DEF DisconnectAll
<1> QED
  BY <1>1, <1>2, <1>3, <1>5, <1>6, ConnectServerInv, ConnectAllInv, SyncBegins,
     SyncListInv, SyncClientInv, SyncRegisterInv, RemoveToolsInv DEF Next

\* The invariant of the two managers holds throughout.
THEOREM McpSafe == Spec => []McpInv
<1>1. Init => McpInv
  BY InitMcp
<1>2. McpInv /\ [Next]_vars => McpInv'
  BY NextMcp
<1> QED
  BY <1>1, <1>2, PTL DEF Spec

\* For any servers, tools and number of connections: a call that is routed by
\* the tool's name reaches a client that still exists.
THEOREM RoutedSafe == Spec => []RoutedToLive
<1>1. McpInv => RoutedToLive
  <2> SUFFICES ASSUME McpInv, NEW t \in Tool, ToolServer(t) # 0
               PROVE  clients[ToolServer(t)] \in alive
    BY DEF RoutedToLive
  <2> DEFINE ss == { s \in Server : t \in serverTools[s] }
  <2>1. ss # {} /\ ToolServer(t) = Min(ss)
    BY DEF ToolServer
  <2>2. ss \subseteq Nat
    BY ServerAssumption
  <2>3. Min(ss) \in ss
    <3> HIDE DEF ss
    <3>1. \E x \in ss : \A y \in ss : x <= y
      BY <2>1, <2>2, LeastNat
    <3> QED BY <3>1 DEF Min
  <2> QED BY <2>1, <2>3 DEF McpInv, ClientsOwned
<1> QED
  BY <1>1, McpSafe, PTL

\* For any number of syncs and reconnections, between the steps of a sync too: the
\* names the tool manager counts are those of the last sync, and call the server's
\* client unless that is no longer the one the sync was given.
THEOREM SyncNamesSafe == Spec => []SyncNamesLive
<1>1. McpInv => SyncNamesLive
  BY DEF McpInv, SyncOwned, ClientsOwned, SyncNamesLive
<1> QED
  BY <1>1, McpSafe, PTL

\* For answers of any length: an SSE client posts to an announced endpoint or to
\* its own URL.
THEOREM EndpointSafe == Spec => []EndpointKnown
<1>1. McpInv => EndpointKnown
  BY BoundsAssumption DEF McpInv, ManagerTypes, EndpointKnown
<1> QED
  BY <1>1, McpSafe, PTL
=============================================================================
