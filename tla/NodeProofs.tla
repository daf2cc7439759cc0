----------------------------- MODULE NodeProofs -----------------------------
(***************************************************************************)
(* Proofs about the edges that MCEdges checks together, for every value of *)
(* their constants: NodeFleet (one join token makes one node, and a VM     *)
(* lives on a node that exists), TemplateCache (what the cache promises    *)
(* with one download at a time, and what it keeps even when downloads      *)
(* share a file) and Firewall (a chain means the rules it came from).      *)
(***************************************************************************)
EXTENDS NodeFleet, TemplateCache, Firewall, FiniteSetTheorems, SequenceTheorems,
        WellFoundedInduction, TLAPS

-----------------------------------------------------------------------------
(* NodeFleet.                                                              *)

\* Only a call that has joined has a row, and only such a row is removed.
JoinedInv ==
  /\ \A j \in Node : node[j] = "none" <=> joining[j] # "joined"
  /\ \A j \in removing : joining[j] = "joined"

\* The unique index.
NamesDiffer ==
  \A i, j \in Node :
    Exists(i) /\ Exists(j) /\ i # j => NodeName(i) # NodeName(j)

FleetInv == TypeOK /\ JoinedInv /\ NamesDiffer /\ HostExists

\* Initially there are no nodes.
LEMMA InitFleet == Init => FleetInv
  BY FleetAssumption
     DEF Init, FleetInv, TypeOK, JoinedInv, NamesDiffer, HostExists, Exists,
         NodeState

\* Every step keeps every variable in its type.
LEMMA FleetTypeStep == FleetInv /\ [Next]_vars => TypeOK'
<1> SUFFICES ASSUME FleetInv, [Next]_vars
             PROVE  TypeOK'
  OBVIOUS
<1> USE FleetAssumption
        DEF FleetInv, TypeOK, NodeState, agents, tokens, placing, admin
<1>1. ASSUME NEW k \in Token, Expire(k)
      PROVE  TypeOK'
  BY <1>1 DEF Expire
<1>2. ASSUME NEW j \in Node, CheckToken(j)
      PROVE  TypeOK'
  BY <1>2 DEF CheckToken
<1>3. ASSUME NEW j \in Node, CommitJoin(j)
      PROVE  TypeOK'
  BY <1>3 DEF CommitJoin, InitialState
<1>4. ASSUME NEW j \in Node, SendHeartbeat(j) \/ AgentDies(j)
      PROVE  TypeOK'
  BY <1>4 DEF SendHeartbeat, AgentDies
<1>5. ASSUME NEW j \in Node, Heartbeat(j) \/ MinutePasses(j)
      PROVE  TypeOK'
  BY <1>5 DEF Heartbeat, MinutePasses
<1>6. ASSUME NEW j \in Node, SetMaintenance(j) \/ BeginDrain(j) \/ EndDrain(j)
      PROVE  TypeOK'
  BY <1>6 DEF SetMaintenance, BeginDrain, EndDrain
<1>7. ASSUME NEW j \in Node, CountVms(j) \/ RemoveNode(j)
      PROVE  TypeOK'
  BY <1>7 DEF CountVms, RemoveNode
<1>8. CASE MarkStaleNodesOffline
  BY <1>8 DEF MarkStaleNodesOffline
<1>9. ASSUME NEW v \in Vm, PickNode(v) \/ PlaceVm(v)
      PROVE  TypeOK'
  BY <1>9 DEF PickNode, PlaceVm
<1>10. CASE UNCHANGED vars
  BY <1>10 DEF vars
<1> QED
  BY <1>1, <1>2, <1>3, <1>4, <1>5, <1>6, <1>7, <1>8, <1>9, <1>10 DEF Next

\* Every step but the insert and the delete of a row keeps the nodes that
\* exist.
SameNodes ==
  /\ \A j \in Node : Exists(j)' <=> Exists(j)
  /\ \A j \in Node : (node'[j] = "none") <=> (node[j] = "none")

\* What the unique index, the foreign key and the removal rely on is kept by
\* every step.
LEMMA FleetStep ==
  FleetInv /\ [Next]_vars => JoinedInv' /\ NamesDiffer' /\ HostExists'
<1> DEFINE Goal == JoinedInv' /\ NamesDiffer' /\ HostExists'
<1> SUFFICES ASSUME FleetInv, [Next]_vars
             PROVE  Goal
  OBVIOUS
<1> USE FleetAssumption DEF FleetInv, TypeOK
<1>1. ASSUME SameNodes, UNCHANGED <<joining, removing, host>>
      PROVE  Goal
  BY <1>1 DEF SameNodes, JoinedInv, NamesDiffer, HostExists, NodeName
<1>2. ASSUME UNCHANGED node
      PROVE  SameNodes
  BY <1>2 DEF SameNodes, Exists
<1>3. ASSUME NEW j \in Node, CheckToken(j)
      PROVE  Goal
  BY <1>3 DEF CheckToken, agents, placing, admin, JoinedInv, NamesDiffer,
              HostExists, Exists, NodeName
<1>4. ASSUME NEW j \in Node, CommitJoin(j)
      PROVE  Goal
  <2>1. CASE NameFree(j)
    <3>1. /\ node' = [node EXCEPT ![j] = "joining"]
          /\ joining' = [joining EXCEPT ![j] = "joined"]
          /\ UNCHANGED <<removing, host>>
      BY <1>4, <2>1 DEF CommitJoin, InitialState, placing, admin
    <3>2. JoinedInv'
      BY <3>1 DEF JoinedInv
    <3>3. HostExists'
      BY <3>1 DEF HostExists, Exists, NodeState
    <3>4. NamesDiffer'
      BY <2>1, <3>1 DEF NamesDiffer, NameFree, Exists, NodeState, NodeName
    <3> QED
      BY <3>2, <3>3, <3>4
  <2>2. CASE ~NameFree(j)
    <3>1. /\ joining[j] = "signing"
          /\ joining' = [joining EXCEPT ![j] = "rejected"]
          /\ UNCHANGED <<node, removing, host>>
      BY <1>4, <2>2 DEF CommitJoin, placing, admin
    <3> QED
      BY <3>1 DEF JoinedInv, NamesDiffer, HostExists, Exists, NodeName
  <2> QED
    BY <2>1, <2>2
<1>5. ASSUME NEW k \in Token, Expire(k)
      PROVE  Goal
  BY <1>1, <1>2, <1>5 DEF Expire, placing, admin
<1>6. ASSUME NEW j \in Node, SendHeartbeat(j) \/ AgentDies(j) \/ MinutePasses(j)
      PROVE  Goal
  BY <1>1, <1>2, <1>6
     DEF SendHeartbeat, AgentDies, MinutePasses, tokens, placing, admin
<1>7. ASSUME NEW j \in Node,
             Heartbeat(j) \/ SetMaintenance(j) \/ BeginDrain(j) \/ EndDrain(j)
      PROVE  Goal
  <2>1. SameNodes
    BY <1>7 DEF Heartbeat, SetMaintenance, BeginDrain, EndDrain, SameNodes,
                Exists, NodeState
  <2>2. UNCHANGED <<joining, removing, host>>
    BY <1>7 DEF Heartbeat, SetMaintenance, BeginDrain, EndDrain, tokens,
                placing, admin
  <2> QED
    BY <1>1, <2>1, <2>2
<1>8. CASE MarkStaleNodesOffline
  <2>1. SameNodes
    BY <1>8 DEF MarkStaleNodesOffline, IsStale, SameNodes, Exists, NodeState
  <2> QED
    BY <1>1, <1>8, <2>1 DEF MarkStaleNodesOffline, tokens, placing, admin
<1>9. ASSUME NEW j \in Node, CountVms(j)
      PROVE  Goal
  <2>1. /\ Exists(j)
        /\ removing' = removing \union {j}
        /\ UNCHANGED <<node, joining, host>>
    BY <1>9 DEF CountVms, tokens, placing
  <2> QED
    BY <2>1 DEF JoinedInv, NamesDiffer, HostExists, Exists, NodeState, NodeName
<1>10. ASSUME NEW j \in Node, RemoveNode(j)
       PROVE  Goal
  <2>1. UNCHANGED <<joining, host>> /\ removing' = removing \ {j}
    BY <1>10 DEF RemoveNode, tokens, placing
  <2>2. \/ node' = node
        \/ node' = [node EXCEPT ![j] = "gone"] /\ VmsOn(j) = {}
    BY <1>10 DEF RemoveNode, Deletable
  <2>3. JoinedInv'
    BY <1>10, <2>1, <2>2 DEF RemoveNode, JoinedInv
  <2>4. NamesDiffer'
    BY <2>2 DEF NamesDiffer, Exists, NodeState, NodeName
  <2>5. HostExists'
    BY <2>1, <2>2 DEF HostExists, VmsOn, Exists, NodeState
  <2> QED
    BY <2>3, <2>4, <2>5
<1>11. ASSUME NEW v \in Vm, PickNode(v)
       PROVE  Goal
  BY <1>1, <1>2, <1>11 DEF PickNode, tokens, admin
<1>12. ASSUME NEW v \in Vm, PlaceVm(v)
       PROVE  Goal
  BY <1>12 DEF PlaceVm, tokens, admin, JoinedInv, NamesDiffer, HostExists,
               Exists, NodeName
<1>13. CASE UNCHANGED vars
  BY <1>1, <1>2, <1>13 DEF vars
<1> QED
  BY <1>3, <1>4, <1>5, <1>6, <1>7, <1>8, <1>9, <1>10, <1>11, <1>12, <1>13
     DEF Next

\* The invariant is inductive.
THEOREM FleetInductive == Spec => []FleetInv
<1>1. FleetInv /\ [Next]_vars => FleetInv'
  BY FleetTypeStep, FleetStep DEF FleetInv
<1> QED
  BY InitFleet, <1>1, PTL DEF Spec

\* Every variable keeps its type.
THEOREM FleetTypeCorrect == Spec => []TypeOK
<1>1. FleetInv => TypeOK
  BY DEF FleetInv
<1> QED
  BY FleetInductive, <1>1, PTL

\* A join token makes one node, however many calls present it at the same
\* time: the later insert runs into the unique name.
THEOREM OneNodePerToken == Spec => []TokenMakesOneNode
<1>1. FleetInv => TokenMakesOneNode
  <2> SUFFICES ASSUME FleetInv, NEW k \in Token,
                      NEW i \in JoinedWith(k), NEW j \in JoinedWith(k), i # j
               PROVE  "gone" \in {node[i], node[j]}
    BY DEF TokenMakesOneNode
  <2>1. i \in Node /\ j \in Node /\ NodeName(i) = NodeName(j)
    BY DEF JoinedWith, NodeName
  <2>2. node[i] # "none" /\ node[j] # "none"
    BY DEF FleetInv, JoinedInv, JoinedWith
  <2>3. ~(Exists(i) /\ Exists(j))
    BY <2>1 DEF FleetInv, NamesDiffer
  <2> QED
    BY <2>1, <2>2, <2>3 DEF FleetInv, TypeOK, Exists
<1> QED
  BY FleetInductive, <1>1, PTL

\* A VM lives on a node that exists, although a removal counts the VMs in one
\* step and deletes the node in another.
THEOREM HostsExist == Spec => []HostExists
<1>1. FleetInv => HostExists
  BY DEF FleetInv
<1> QED
  BY FleetInductive, <1>1, PTL

-----------------------------------------------------------------------------
(* TemplateCache.                                                          *)

\* The two names never refer to one inode, and an inode with a name has been
\* opened by its creator.
NamesInv ==
  /\ part # NoFile => part # cached
  /\ \A d \in Download : d \in {part, cached} => pc[d] \notin {"idle", "get"}

\* How far each call is.
OffsetInv ==
  \A d \in Download :
    /\ pc[d] \in {"idle", "get"} => offset[d] = 0
    /\ pc[d] \in {"verify", "rename"} => offset[d] = Size
    /\ pc[d] = "rename" => HashMatches(d)

\* A call that has the file open while no other call ever ran beside one.
OwnsFile(d) ==
  /\ part # NoFile
  /\ file[d] = part
  /\ \A b \in Block : b <= offset[d] => blocks[part][b] = version[d]

AloneInv ==
  ~shared =>
    /\ \A d, e \in Active : d = e
    /\ Active # {} => cached = NoFile
    /\ \A d \in Active : pc[d] # "get" => OwnsFile(d)

CacheInv ==
  /\ CacheTypeOK
  /\ NamesInv
  /\ OffsetInv
  /\ AloneInv
  /\ CachedIsVerified
  /\ OkMeansCached

\* Initially there are no files.
LEMMA InitCache == CacheInit => CacheInv
<1> SUFFICES ASSUME CacheInit
             PROVE  CacheInv
  OBVIOUS
<1> USE CacheAssumption DEF CacheInit
<1>1. CacheTypeOK
  <2>1. Empty \in [Block -> Version \union {Hole}]
    BY DEF Empty
  <2>2. blocks \in [Download -> [Block -> Version \union {Hole}]]
    BY <2>1
  <2>3. 0 \in 0 .. Size /\ 0 \in 0 .. MaxCrashes
    OBVIOUS
  <2> QED
    BY <2>2, <2>3 DEF CacheTypeOK
<1>2. NamesInv /\ OffsetInv
  BY DEF NamesInv, OffsetInv
<1>3. Active = {}
  BY DEF Active, Running
<1>4. AloneInv /\ CachedIsVerified /\ OkMeansCached
  BY <1>3 DEF AloneInv, CachedIsVerified, OkMeansCached
<1> QED
  BY <1>1, <1>2, <1>3, <1>4 DEF CacheInv

\* Every step keeps every variable in its type.
LEMMA CacheTypeStep == CacheInv /\ [CacheNext]_cacheVars => CacheTypeOK'
<1> SUFFICES ASSUME CacheInv, [CacheNext]_cacheVars
             PROVE  CacheTypeOK'
  OBVIOUS
<1> USE CacheAssumption DEF CacheInv, CacheTypeOK, Running, Goto, names, GiveUp
<1>1. ASSUME NEW d \in Download, Begin(d)
      PROVE  CacheTypeOK'
  BY <1>1 DEF Begin
<1>2. ASSUME NEW d \in Download, Create(d)
      PROVE  CacheTypeOK'
  <2>1. Opened(d) \in Download /\ Empty \in [Block -> Version \union {Hole}]
    BY DEF Opened, Empty
  <2>2. \/ /\ file' = [file EXCEPT ![d] = Opened(d)]
           /\ part' = Opened(d)
           /\ blocks' = [blocks EXCEPT ![Opened(d)] = Empty]
        \/ UNCHANGED <<part, blocks, file>>
    BY <1>2 DEF Create
  <2>3. pc' \in [Download -> Running \union {"idle", "ok", "err", "killed"}]
    BY <1>2 DEF Create
  <2>4. blocks' \in [Download -> [Block -> Version \union {Hole}]]
    BY <2>1, <2>2
  <2>5. part' \in Download \union {NoFile}
    BY <2>1, <2>2
  <2>6. file' \in [Download -> Download \union {NoFile}]
    BY <2>1, <2>2
  <2> QED
    BY <1>2, <2>3, <2>4, <2>5, <2>6 DEF Create
<1>3. ASSUME NEW d \in Download, WriteBlock(d)
      PROVE  CacheTypeOK'
  <2>1. blocks' \in [Download -> [Block -> Version \union {Hole}]]
    BY <1>3 DEF WriteBlock
  <2>2. offset' \in [Download -> 0 .. Size]
    BY <1>3 DEF WriteBlock
  <2> QED
    BY <1>3, <2>1, <2>2 DEF WriteBlock
<1>4. ASSUME NEW d \in Download, StreamFails(d) \/ Verify(d) \/ Rename(d)
      PROVE  CacheTypeOK'
  BY <1>4 DEF StreamFails, Verify, Rename, RenameResult
<1>5. CASE Crash
  BY <1>5 DEF Crash, Cut
<1>6. CASE UNCHANGED cacheVars
  BY <1>6 DEF cacheVars
<1> QED
  BY <1>1, <1>2, <1>3, <1>4, <1>5, <1>6 DEF CacheNext

\* Every step keeps the names apart.
LEMMA NamesStep == CacheInv /\ [CacheNext]_cacheVars => NamesInv'
<1> SUFFICES ASSUME CacheInv, [CacheNext]_cacheVars
             PROVE  NamesInv'
  OBVIOUS
<1> USE CacheAssumption
        DEF CacheInv, CacheTypeOK, NamesInv, Running, Goto, names, GiveUp
<1>1. ASSUME NEW d \in Download, Begin(d) \/ WriteBlock(d)
      PROVE  NamesInv'
  BY <1>1 DEF Begin, WriteBlock
<1>2. ASSUME NEW d \in Download, Create(d)
      PROVE  NamesInv'
  BY <1>2 DEF Create, Opened
<1>3. ASSUME NEW d \in Download, StreamFails(d) \/ Verify(d) \/ Rename(d)
      PROVE  NamesInv'
  BY <1>3 DEF StreamFails, Verify, Rename, RenameResult
<1>4. CASE Crash
  BY <1>4 DEF Crash, Cut
<1>5. CASE UNCHANGED cacheVars
  BY <1>5 DEF cacheVars
<1> QED
  BY <1>1, <1>2, <1>3, <1>4, <1>5 DEF CacheNext

\* Every step keeps the account of what each call has done.
LEMMA OffsetStep == CacheInv /\ [CacheNext]_cacheVars => OffsetInv' /\ OkMeansCached'
<1> DEFINE Goal == OffsetInv' /\ OkMeansCached'
<1> SUFFICES ASSUME CacheInv, [CacheNext]_cacheVars
             PROVE  Goal
  OBVIOUS
<1> USE CacheAssumption
        DEF CacheInv, CacheTypeOK, OffsetInv, OkMeansCached, HashMatches, Running,
            Goto, names, GiveUp
<1>1. ASSUME NEW d \in Download, Begin(d)
      PROVE  Goal
  BY <1>1 DEF Begin
<1>2. ASSUME NEW d \in Download, Create(d)
      PROVE  Goal
  BY <1>2 DEF Create
<1>3. ASSUME NEW d \in Download, WriteBlock(d)
      PROVE  Goal
  BY <1>3 DEF WriteBlock
<1>4. ASSUME NEW d \in Download, StreamFails(d) \/ Verify(d)
      PROVE  Goal
  BY <1>4 DEF StreamFails, Verify
<1>5. ASSUME NEW d \in Download, Rename(d)
      PROVE  Goal
  BY <1>5 DEF Rename, RenameResult
<1>6. CASE Crash
  BY <1>6 DEF Crash, Cut
<1>7. CASE UNCHANGED cacheVars
  BY <1>7 DEF cacheVars
<1> QED
  BY <1>1, <1>2, <1>3, <1>4, <1>5, <1>6, <1>7 DEF CacheNext

\* As long as no two calls ever ran together, the one call that runs owns the
\* file behind <cached>.part, and what gets the other name is the image.
LEMMA AloneStep == CacheInv /\ [CacheNext]_cacheVars => AloneInv' /\ CachedIsVerified'
<1> DEFINE Goal == AloneInv' /\ CachedIsVerified'
<1> SUFFICES ASSUME CacheInv, [CacheNext]_cacheVars, ~shared'
             PROVE  Goal
  BY DEF AloneInv, CachedIsVerified
<1> USE CacheAssumption DEF CacheInv, CacheTypeOK
<1> ~shared
  <2>1. ASSUME NEW d \in Download, Begin(d)
        PROVE  ~shared
    BY <2>1 DEF Begin
  <2> QED
    BY <2>1 DEF CacheNext, Create, WriteBlock, StreamFails, Verify, Rename, Crash,
                cacheVars
<1>1. ASSUME NEW d \in Download, Begin(d)
      PROVE  Goal
  <2>1. UNCHANGED <<part, cached, blocks, file, offset, version>>
    BY <1>1 DEF Begin, names
  <2>2. CASE cached = NoFile
    <3>1. Active = {}
      BY <1>1, <2>2 DEF Begin
    <3>2. pc' = [pc EXCEPT ![d] = "get"]
      BY <1>1, <2>2 DEF Begin, Goto
    <3>3. Active' = {d} /\ pc'[d] = "get"
      BY <3>1, <3>2 DEF Active, Running
    <3> QED
      BY <2>1, <2>2, <3>3 DEF AloneInv, CachedIsVerified
  <2>3. CASE cached # NoFile
    <3>1. Active = {} /\ Active' = {}
      BY <1>1, <2>3 DEF Begin, Goto, Active, Running, AloneInv
    <3> QED
      BY <2>1, <3>1 DEF AloneInv, CachedIsVerified, Image
  <2> QED
    BY <2>2, <2>3
<1>2. ASSUME NEW d \in Download, d \in Active, pc'[d] \notin Running,
             \A e \in Download : e # d => pc'[e] = pc[e]
      PROVE  Active' = {}
  BY <1>2 DEF Active, AloneInv
<1>3. ASSUME NEW d \in Download, d \in Active, pc'[d] \in Running,
             \A e \in Download : e # d => pc'[e] = pc[e]
      PROVE  Active' = {d}
  BY <1>3 DEF Active, AloneInv
<1>4. ASSUME Active' = {}, UNCHANGED <<cached, blocks>>
      PROVE  Goal
  BY <1>4 DEF AloneInv, CachedIsVerified, Image
<1>5. ASSUME NEW d \in Download, d \in Active, Active' = {d},
             UNCHANGED cached, pc'[d] # "get" => OwnsFile(d)'
      PROVE  Goal
  BY <1>5 DEF AloneInv, CachedIsVerified
<1>6. ASSUME NEW d \in Download, Create(d)
      PROVE  Goal
  <2>1. /\ d \in Active
        /\ \A e \in Download : e # d => pc'[e] = pc[e]
        /\ UNCHANGED cached
    BY <1>6 DEF Create, Active, Running, Goto
  <2>2. CASE pc'[d] = "write"
    <3>1. /\ file'[d] = part' /\ part' # NoFile
          /\ offset'[d] = 0
      BY <1>6, <2>2 DEF Create, Opened, Goto, OffsetInv
    <3>2. OwnsFile(d)'
      BY <3>1 DEF OwnsFile, Block
    <3> QED
      BY <1>3, <1>5, <2>1, <2>2, <3>2 DEF Running
  <2>3. CASE pc'[d] = "err"
    <3>1. UNCHANGED blocks
      BY <1>6, <2>3 DEF Create, Goto
    <3> QED
      BY <1>2, <1>4, <2>1, <2>3, <3>1 DEF Running
  <2> QED
    BY <1>6, <2>2, <2>3 DEF Create, Goto
<1>7. ASSUME NEW d \in Download, WriteBlock(d)
      PROVE  Goal
  <2>1. /\ d \in Active /\ OwnsFile(d)
        /\ pc'[d] \in {"verify", "write"}
        /\ \A e \in Download : e # d => pc'[e] = pc[e]
        /\ UNCHANGED <<part, cached, file, version>>
        /\ offset' = [offset EXCEPT ![d] = @ + 1]
        /\ blocks' = [blocks EXCEPT ![part][offset[d] + 1] = version[d]]
    BY <1>7 DEF WriteBlock, Active, Running, Goto, names, AloneInv, OwnsFile
  <2>2. \A b \in Block :
          b <= offset'[d] => b <= offset[d] \/ b = offset[d] + 1
    BY <2>1 DEF Block
  <2>3. OwnsFile(d)'
    BY <2>1, <2>2 DEF OwnsFile
  <2> QED
    BY <1>3, <1>5, <2>1, <2>3 DEF Running
<1>8. ASSUME NEW d \in Download, StreamFails(d)
      PROVE  Goal
  <2>1. /\ d \in Active /\ pc'[d] = "err"
        /\ \A e \in Download : e # d => pc'[e] = pc[e]
        /\ UNCHANGED <<cached, blocks>>
    BY <1>8 DEF StreamFails, GiveUp, Active, Running, Goto
  <2> QED
    BY <1>2, <1>4, <2>1 DEF Running
<1>9. ASSUME NEW d \in Download, Verify(d)
      PROVE  Goal
  <2>1. /\ d \in Active /\ OwnsFile(d)
        /\ \A e \in Download : e # d => pc'[e] = pc[e]
        /\ UNCHANGED <<cached, blocks, file, offset, version>>
    BY <1>9 DEF Verify, GiveUp, Active, Running, Goto, AloneInv
  <2>2. CASE HashMatches(d)
    <3>1. pc'[d] = "rename" /\ OwnsFile(d)'
      BY <1>9, <2>1, <2>2 DEF Verify, Goto, OwnsFile
    <3> QED
      BY <1>3, <1>5, <2>1, <3>1 DEF Running
  <2>3. CASE ~HashMatches(d)
    <3>1. pc'[d] = "err"
      BY <1>9, <2>3 DEF Verify, GiveUp, Goto
    <3> QED
      BY <1>2, <1>4, <2>1, <3>1 DEF Running
  <2> QED
    BY <2>2, <2>3
<1>10. ASSUME NEW d \in Download, Rename(d)
       PROVE  Goal
  <2>1. /\ d \in Active /\ OwnsFile(d) /\ HashMatches(d) /\ offset[d] = Size
        /\ pc'[d] = "ok"
        /\ \A e \in Download : e # d => pc'[e] = pc[e]
        /\ cached' = part /\ UNCHANGED blocks
    BY <1>10 DEF Rename, RenameResult, Active, Running, Goto, AloneInv,
                 OffsetInv, OwnsFile
  <2>2. Active' = {}
    BY <1>2, <2>1 DEF Running
  <2>3. ASSUME HasChecksum
        PROVE  blocks[part] = Image
    <3>1. \A b \in Block : blocks[part][b] = Expected
      BY <2>1, <2>3 DEF OwnsFile, HashMatches, Block
    <3> QED
      BY <2>1, <3>1 DEF Image, OwnsFile
  <2> QED
    BY <2>1, <2>2, <2>3 DEF AloneInv, CachedIsVerified, Image
<1>11. CASE Crash
  <2>1. Active' = {}
    BY <1>11 DEF Crash, Cut, Active, Running
  <2> QED
    BY <1>4, <1>11, <2>1 DEF Crash, names
<1>12. CASE UNCHANGED cacheVars
  BY <1>12 DEF cacheVars, AloneInv, CachedIsVerified, Active, OwnsFile, Image
<1> QED
  BY <1>1, <1>6, <1>7, <1>8, <1>9, <1>10, <1>11, <1>12 DEF CacheNext

\* The invariant is inductive.
THEOREM CacheInductive == CacheSpec => []CacheInv
<1>1. CacheInv /\ [CacheNext]_cacheVars => CacheInv'
  BY CacheTypeStep, NamesStep, OffsetStep, AloneStep DEF CacheInv
<1> QED
  BY InitCache, <1>1, PTL DEF CacheSpec

\* Every variable keeps its type.
THEOREM CacheTypeCorrect == CacheSpec => []CacheTypeOK
<1>1. CacheInv => CacheTypeOK
  BY DEF CacheInv
<1> QED
  BY CacheInductive, <1>1, PTL

\* Unless downloads ever ran together, what lies in the cache is the complete
\* image with the configured checksum, through broken streams, wrong images
\* and restarts of the agent.
THEOREM LoneDownloadIsVerified == CacheSpec => []CachedIsVerified
<1>1. CacheInv => CachedIsVerified
  BY DEF CacheInv
<1> QED
  BY CacheInductive, <1>1, PTL

\* EnsureTemplate reports success only with an image in the cache.
THEOREM SuccessHasImage == CacheSpec => []OkMeansCached
<1>1. CacheInv => OkMeansCached
  BY DEF CacheInv
<1> QED
  BY CacheInductive, <1>1, PTL

\* No download, alone or not, truncates the file that has the cached name.
THEOREM CacheIsNotTruncated == CacheSpec => CachedIsNotTruncated
<1> DEFINE Keeps ==
      cached = cached' /\ cached # NoFile =>
        \A b \in Block : blocks[cached][b] # Hole => blocks'[cached][b] # Hole
<1>1. ASSUME CacheInv, CacheNext
      PROVE  Keeps
  <2> USE <1>1, CacheAssumption DEF CacheInv, CacheTypeOK
  <2>1. ASSUME NEW d \in Download, Create(d)
        PROVE  Keeps
    <3>1. cached # NoFile => Opened(d) # cached
      BY <2>1 DEF Create, Opened, NamesInv
    <3> QED
      BY <2>1, <3>1 DEF Create
  <2>2. ASSUME NEW d \in Download, WriteBlock(d)
        PROVE  Keeps
    <3>1. blocks' = [blocks EXCEPT ![file[d]][offset[d] + 1] = version[d]]
      BY <2>2 DEF WriteBlock
    <3>2. version[d] # Hole
      OBVIOUS
    <3> QED
      BY <3>1, <3>2
  <2>3. ASSUME UNCHANGED blocks
        PROVE  Keeps
    BY <2>3
  <2> QED
    BY <1>1, <2>1, <2>2, <2>3
       DEF CacheNext, Begin, StreamFails, Verify, Rename, Crash
<1>2. CacheInv /\ [CacheNext]_cacheVars => [\A d \in Download : Keeps]_cacheVars
  BY <1>1
<1> QED
  BY CacheInductive, <1>2, PTL DEF CacheSpec, CachedIsNotTruncated

-----------------------------------------------------------------------------
(* Firewall.  A chain is what was rendered from rules in the order of their *)
(* priority, so its first line that matches comes from a rule of the lowest *)
(* priority number that speaks of the packet.                               *)

Sorted(rs) == \A i, j \in DOMAIN rs : i < j => rs[i].priority <= rs[j].priority

FirewallInv ==
  /\ FirewallTypeOK
  /\ \A c \in Calls : Sorted(sending[c].rules)
  /\ source \in Seq(RuleKinds) /\ Sorted(source)
  /\ \A i \in DOMAIN source : ~Malformed(source[i])
  /\ chain = Render(source)

\* What the rows allow.
RuleIs(k) ==
  /\ k.direction \in {"in", "out"} /\ k.action \in {"accept", "drop"}
  /\ k.protocol \in {"tcp", "udp", "icmp", "any"}
  /\ k.from \in Nat /\ k.to \in Nat /\ k.priority \in Nat

LEMMA RuleKindIs == \A k \in RuleKinds : RuleIs(k)
  BY FirewallAssumption DEF RuleIs

\* A set of numbers that is not empty has a least one.
LEMMA LeastNumber ==
  ASSUME NEW S, S \subseteq Nat, S # {}
  PROVE  \E i \in S : \A j \in S : i <= j
<1>1. PICK i \in S : \A j \in S : ~(<<j, i>> \in OpToRel(<, Nat))
  BY NatLessThanWellFounded, WFMin
<1>2. \A j \in S : ~(j < i)
  BY <1>1 DEF OpToRel
<1> QED
  BY <1>2

\* The lines of a chain: one for each rule, then the drops of the directions mentioned.
LEMMA RenderIs ==
  ASSUME NEW rs \in Seq(RuleKinds)
  PROVE  \E n \in Nat :
           /\ n >= Len(rs) /\ DOMAIN Render(rs) = 1..n
           /\ \A i \in 1..Len(rs) : Render(rs)[i] = BuildRule(rs[i])
           /\ \A i \in Len(rs) + 1..n :
                \E d \in {"in", "out"} : Mentions(rs, d) /\ Render(rs)[i] = DropAll(d)
           /\ \A d \in {"in", "out"} : Mentions(rs, d) =>
                \E i \in Len(rs) + 1..n : Render(rs)[i] = DropAll(d)
<1> DEFINE L == {BuildRule(k) : k \in RuleKinds} \cup {DropAll("in"), DropAll("out")}
           body == [i \in DOMAIN rs |-> BuildRule(rs[i])]
           ins == IF Mentions(rs, "in") THEN <<DropAll("in")>> ELSE <<>>
           outs == IF Mentions(rs, "out") THEN <<DropAll("out")>> ELSE <<>>
<1>1. Render(rs) = (body \o ins) \o outs
  BY DEF Render
<1>2. Len(rs) \in Nat /\ DOMAIN rs = 1..Len(rs) /\ \A i \in 1..Len(rs) : rs[i] \in RuleKinds
  OBVIOUS
<1>3. body \in Seq(L) /\ Len(body) = Len(rs) /\ \A i \in 1..Len(rs) : body[i] = BuildRule(rs[i])
  BY <1>2
<1>4. /\ ins \in Seq(L) /\ Len(ins) \in {0, 1}
      /\ Mentions(rs, "in") <=> Len(ins) = 1
      /\ Len(ins) = 1 => ins[1] = DropAll("in")
  <2>1. DropAll("in") \in L
    OBVIOUS
  <2> HIDE DEF L
  <2>2. CASE Mentions(rs, "in")
    <3>1. ins = <<DropAll("in")>>
      BY <2>2
    <3> HIDE DEF ins
    <3> QED
      BY <2>1, <2>2, <3>1
  <2>3. CASE ~Mentions(rs, "in")
    <3>1. ins = <<>>
      BY <2>3
    <3> HIDE DEF ins
    <3> QED
      BY <2>3, <3>1
  <2> QED
    BY <2>2, <2>3
<1>5. /\ outs \in Seq(L) /\ Len(outs) \in {0, 1}
      /\ Mentions(rs, "out") <=> Len(outs) = 1
      /\ Len(outs) = 1 => outs[1] = DropAll("out")
  <2>1. DropAll("out") \in L
    OBVIOUS
  <2> HIDE DEF L
  <2>2. CASE Mentions(rs, "out")
    <3>1. outs = <<DropAll("out")>>
      BY <2>2
    <3> HIDE DEF outs
    <3> QED
      BY <2>1, <2>2, <3>1
  <2>3. CASE ~Mentions(rs, "out")
    <3>1. outs = <<>>
      BY <2>3
    <3> HIDE DEF outs
    <3> QED
      BY <2>3, <3>1
  <2> QED
    BY <2>2, <2>3
<1> HIDE DEF L, body, ins, outs
<1> DEFINE t == body \o ins
<1>6. /\ t \in Seq(L) /\ Len(t) = Len(body) + Len(ins)
      /\ \A i \in 1..Len(body) + Len(ins) : t[i] = IF i <= Len(body) THEN body[i]
                                                                    ELSE ins[i - Len(body)]
  BY SMTT(30), <1>3, <1>4, ConcatProperties
<1> HIDE DEF t
<1>7. /\ t \o outs \in Seq(L) /\ Len(t \o outs) = Len(t) + Len(outs)
      /\ \A i \in 1..Len(t) + Len(outs) : (t \o outs)[i] = IF i <= Len(t) THEN t[i]
                                                                        ELSE outs[i - Len(t)]
  <2>1. t \in Seq(L) /\ outs \in Seq(L)
    BY <1>5, <1>6
  <2> QED
    BY <2>1, ConcatProperties
<1> DEFINE u == t \o outs
<1>8. u = Render(rs)
  BY <1>1 DEF t
<1> HIDE DEF u
<1>9. u \in Seq(L) /\ Len(u) = Len(rs) + Len(ins) + Len(outs)
  BY <1>2, <1>3, <1>4, <1>5, <1>6, <1>7 DEF u
<1>10. /\ Len(u) \in Nat /\ Len(u) >= Len(rs) /\ DOMAIN u = 1..Len(u)
  BY <1>2, <1>4, <1>5, <1>9
<1>11. ASSUME NEW i \in 1..Len(rs)
       PROVE  u[i] = BuildRule(rs[i])
  <2>1. u[i] = t[i]
    BY <1>2, <1>3, <1>4, <1>5, <1>6, <1>7 DEF u
  <2>2. t[i] = body[i]
    BY <1>2, <1>3, <1>4, <1>6
  <2> QED
    BY <1>3, <2>1, <2>2
<1>12. ASSUME Mentions(rs, "in")
       PROVE  Len(rs) + 1 \in Len(rs) + 1..Len(u) /\ u[Len(rs) + 1] = DropAll("in")
  <2>1. Len(ins) = 1 /\ ins[1] = DropAll("in")
    BY <1>4, <1>12
  <2>2. u[Len(rs) + 1] = t[Len(rs) + 1]
    BY <1>2, <1>3, <1>5, <1>6, <1>7, <2>1 DEF u
  <2>3. t[Len(rs) + 1] = ins[1]
    BY <1>2, <1>3, <1>6, <2>1
  <2>4. Len(rs) + 1 \in Len(rs) + 1..Len(u)
    BY <1>2, <1>5, <1>9, <2>1
  <2> QED
    BY <2>1, <2>2, <2>3, <2>4
<1>13. ASSUME Mentions(rs, "out")
       PROVE  Len(u) \in Len(rs) + 1..Len(u) /\ u[Len(u)] = DropAll("out")
  <2>1. Len(outs) = 1 /\ outs[1] = DropAll("out")
    BY <1>5, <1>13
  <2>2. Len(u) = Len(t) + 1 /\ Len(t) \in Nat /\ Len(t) >= Len(rs)
    BY <1>2, <1>3, <1>4, <1>6, <1>9, <2>1
  <2>3. u[Len(t) + 1] = outs[1]
    BY <1>7, <2>1, <2>2 DEF u
  <2>4. Len(u) \in Len(rs) + 1..Len(u)
    BY <1>2, <2>2
  <2> QED
    BY <2>1, <2>2, <2>3, <2>4
<1>14. ASSUME NEW i \in Len(rs) + 1..Len(u)
       PROVE  \E d \in {"in", "out"} : Mentions(rs, d) /\ u[i] = DropAll(d)
  <2>1. CASE Len(outs) = 1 /\ i = Len(u)
    BY <1>5, <1>13, <2>1
  <2>2. CASE ~(Len(outs) = 1 /\ i = Len(u))
    <3>1. Len(ins) = 1 /\ i = Len(rs) + 1
      <4>1. /\ Len(rs) \in Nat /\ Len(ins) \in {0, 1} /\ Len(outs) \in {0, 1}
            /\ Len(u) = Len(rs) + Len(ins) + Len(outs)
        BY <1>2, <1>4, <1>5, <1>9
      <4>2. i \in Int /\ Len(rs) + 1 <= i /\ i <= Len(u)
        BY <4>1
      <4>3. CASE Len(ins) = 0
        BY SMTT(30), <2>2, <4>1, <4>2, <4>3
      <4>4. CASE Len(ins) = 1
        <5>1. CASE Len(outs) = 0
          BY <4>1, <4>2, <4>4, <5>1
        <5>2. CASE Len(outs) = 1
          <6>1. i # Len(u)
            BY <2>2, <5>2
          <6> QED
            BY <4>1, <4>2, <4>4, <5>2, <6>1
        <5> QED
          BY <4>1, <5>1, <5>2
      <4> QED
        BY <4>1, <4>3, <4>4
    <3> QED
      BY <1>4, <1>12, <3>1
  <2> QED
    BY <2>1, <2>2
<1>15. \A d \in {"in", "out"} : Mentions(rs, d) => \E i \in Len(rs) + 1..Len(u) : u[i] = DropAll(d)
  BY <1>12, <1>13
<1> QED
  BY ZenonT(60), <1>8, <1>10, <1>11, <1>14, <1>15

\* The line of a rule that nft takes matches the packets the rule speaks of.
LEMMA LineSpeaks ==
  ASSUME NEW k \in RuleKinds, ~Malformed(k), NEW p \in Packets
  PROVE  LineMatches(BuildRule(k), p) <=> SpeaksOf(k, p)
<1>1. RuleIs(k)
  BY RuleKindIs
<1>2. p.port \in Ports /\ p.port \in Nat
  BY FirewallAssumption DEF Packets
<1>3. /\ BuildRule(k).side = k.direction /\ BuildRule(k).cidr = k.cidr
      /\ BuildRule(k).protocol = k.protocol /\ BuildRule(k).ports = PortMatch(k)
  BY DEF BuildRule
<1> DEFINE OfPorts == PortMatch(k).lo > 0 => PortMatch(k).lo <= p.port /\ p.port <= PortMatch(k).hi
           OfRule == k.protocol \in {"tcp", "udp"} /\ k.from > 0 =>
                       p.port \in {q \in Ports : k.from <= q /\ (IF k.to = 0 THEN q = k.from
                                                                              ELSE q <= k.to)}
<1>4. OfPorts <=> OfRule
  <2>1. CASE k.protocol \notin {"tcp", "udp"} \/ k.from = 0
    <3>1. PortMatch(k).lo = 0
      BY <2>1 DEF PortMatch
    <3>2. OfPorts
      BY <3>1
    <3>3. OfRule
      BY <1>1, <2>1 DEF RuleIs
    <3> QED
      BY <3>2, <3>3
  <2>2. CASE k.protocol \in {"tcp", "udp"} /\ k.from # 0
    <3>1. /\ PortMatch(k).lo = k.from
          /\ PortMatch(k).hi = IF k.to > 0 /\ k.to # k.from THEN k.to ELSE k.from
      BY <2>2 DEF PortMatch
    <3>2. k.from \in Nat /\ k.to \in Nat /\ k.from > 0
      BY <1>1, <2>2 DEF RuleIs
    <3>3. k.to \notin 1..k.from - 1
      BY <2>2 DEF Malformed
    <3>4. OfRule <=> k.from <= p.port /\ (IF k.to = 0 THEN p.port = k.from ELSE p.port <= k.to)
      BY <1>2, <2>2, <3>2
    <3>5. OfPorts <=> k.from <= p.port /\ p.port <= PortMatch(k).hi
      BY <3>1, <3>2
    <3>6. CASE k.to = 0
      BY <1>2, <3>1, <3>2, <3>4, <3>5, <3>6
    <3>7. CASE k.to # 0
      BY <1>2, <3>1, <3>2, <3>3, <3>4, <3>5, <3>7
    <3> QED
      BY <3>6, <3>7
  <2> QED
    BY <2>1, <2>2
<1>5. LineMatches(BuildRule(k), p) <=> /\ k.direction = p.side
                                       /\ k.cidr \in {"0.0.0.0/0", p.cidr}
                                       /\ k.protocol \in {"any", p.protocol}
                                       /\ OfPorts
  BY <1>3 DEF LineMatches
<1>6. SpeaksOf(k, p) <=> /\ k.direction = p.side
                         /\ k.cidr \in {"0.0.0.0/0", p.cidr}
                         /\ k.protocol \in {"any", p.protocol}
                         /\ OfRule
  BY DEF SpeaksOf
<1> QED
  BY <1>4, <1>5, <1>6

\* A drop of a direction matches the packets of that direction.
LEMMA DropMatches ==
  ASSUME NEW d \in {"in", "out"}, NEW p \in Packets
  PROVE  (LineMatches(DropAll(d), p) <=> d = p.side) /\ DropAll(d).action = "drop"
  BY DEF DropAll, LineMatches

\* The chain decides as the rules it was rendered from.
LEMMA ChainDecides == FirewallInv => ChainMeansRules
<1> SUFFICES ASSUME FirewallInv, NEW p \in Packets
             PROVE  LET S == {i \in DOMAIN source : SpeaksOf(source[i], p)}
                        first == {i \in S : \A j \in S : source[i].priority <= source[j].priority}
                    IN IF S = {}
                         THEN Verdict(chain, p) = IF Mentions(source, p.side) THEN "drop" ELSE "accept"
                         ELSE Verdict(chain, p) \in {source[i].action : i \in first}
  BY DEF ChainMeansRules
<1> DEFINE S == {i \in DOMAIN source : SpeaksOf(source[i], p)}
           first == {i \in S : \A j \in S : source[i].priority <= source[j].priority}
           hits == {i \in DOMAIN chain : LineMatches(chain[i], p)}
           least == CHOOSE i \in hits : \A j \in hits : i <= j
<1>1. /\ source \in Seq(RuleKinds) /\ Sorted(source) /\ chain = Render(source)
      /\ \A i \in DOMAIN source : ~Malformed(source[i])
  BY DEF FirewallInv
<1>2. Len(source) \in Nat /\ DOMAIN source = 1..Len(source)
      /\ \A i \in 1..Len(source) : source[i] \in RuleKinds
  BY <1>1
<1>3. PICK n \in Nat :
        /\ n >= Len(source) /\ DOMAIN chain = 1..n
        /\ \A i \in 1..Len(source) : chain[i] = BuildRule(source[i])
        /\ \A i \in Len(source) + 1..n :
             \E d \in {"in", "out"} : Mentions(source, d) /\ chain[i] = DropAll(d)
        /\ \A d \in {"in", "out"} : Mentions(source, d) =>
             \E i \in Len(source) + 1..n : chain[i] = DropAll(d)
  BY <1>1, RenderIs
<1>4. \A i \in 1..Len(source) : i \in hits <=> i \in S
  <2> SUFFICES ASSUME NEW i \in 1..Len(source)
               PROVE  i \in hits <=> i \in S
    OBVIOUS
  <2>1. i \in DOMAIN chain /\ i \in DOMAIN source
    BY <1>2, <1>3
  <2>2. LineMatches(BuildRule(source[i]), p) <=> SpeaksOf(source[i], p)
    BY <1>1, <1>2, LineSpeaks
  <2> QED
    BY <1>3, <2>1, <2>2
<1>5. p.side \in {"in", "out"}
  BY DEF Packets
<1>6. ASSUME NEW i \in Len(source) + 1..n, i \in hits
      PROVE  Mentions(source, p.side) /\ chain[i].action = "drop"
  <2>1. PICK d \in {"in", "out"} : Mentions(source, d) /\ chain[i] = DropAll(d)
    BY <1>3
  <2>2. LineMatches(DropAll(d), p)
    BY <1>6, <2>1
  <2> QED
    BY <2>1, <2>2, DropMatches
<1>7. Verdict(chain, p) = IF hits = {} THEN "accept" ELSE chain[least].action
  BY DEF Verdict
<1>8. hits \subseteq Nat /\ hits \subseteq 1..n /\ S \subseteq 1..Len(source)
  BY <1>2, <1>3
<1>9. hits # {} => least \in hits /\ \A j \in hits : least <= j
  <2> SUFFICES ASSUME hits # {}
               PROVE  least \in hits /\ \A j \in hits : least <= j
    OBVIOUS
  <2> HIDE DEF hits
  <2>1. \E i \in hits : \A j \in hits : i <= j
    BY <1>8, LeastNumber
  <2> QED
    BY <2>1
<1> HIDE DEF hits, least
<1>10. CASE S = {}
  <2>1. \A i \in hits : i \in Len(source) + 1..n
    BY <1>2, <1>4, <1>8, <1>10
  <2>2. CASE Mentions(source, p.side)
    <3>1. PICK i \in Len(source) + 1..n : chain[i] = DropAll(p.side)
      BY <1>3, <1>5, <2>2
    <3>2. i \in DOMAIN chain /\ LineMatches(chain[i], p)
      BY <1>2, <1>3, <1>5, <3>1, DropMatches
    <3>3. hits # {}
      BY <3>2 DEF hits
    <3>4. least \in Len(source) + 1..n /\ least \in hits
      BY <1>9, <2>1, <3>3
    <3>5. chain[least].action = "drop"
      BY <1>6, <3>4
    <3> QED
      BY <1>7, <1>10, <2>2, <3>3, <3>5
  <2>3. CASE ~Mentions(source, p.side)
    <3>1. hits = {}
      BY <1>6, <2>1, <2>3
    <3> QED
      BY <1>7, <1>10, <2>3, <3>1
  <2> QED
    BY <2>2, <2>3
<1>11. CASE S # {}
  <2>1. PICK s \in S : s \in 1..Len(source) /\ s \in hits
    BY <1>4, <1>8, <1>11
  <2>2. least \in hits /\ least <= s
    BY <1>9, <2>1
  <2>3. least \in 1..Len(source)
    BY <1>2, <1>8, <2>1, <2>2
  <2>4. least \in S /\ chain[least] = BuildRule(source[least])
    BY <1>3, <1>4, <2>2, <2>3
  <2>5. chain[least].action = source[least].action
    BY <2>4 DEF BuildRule
  <2>6. ASSUME NEW j \in S
        PROVE  source[least].priority <= source[j].priority
    <3>1. j \in 1..Len(source) /\ j \in hits
      BY <1>4, <1>8
    <3>2. least <= j
      BY <1>9, <3>1
    <3>3. RuleIs(source[least])
      BY <1>2, <2>3, RuleKindIs
    <3>4. CASE least = j
      BY <3>3, <3>4 DEF RuleIs
    <3>5. CASE least # j
      <4>1. least < j
        BY <1>2, <2>3, <3>1, <3>2, <3>5
      <4> QED
        BY <1>1, <1>2, <2>3, <3>1, <4>1 DEF Sorted
    <3> QED
      BY <3>4, <3>5
  <2>7. least \in first
    BY <2>4, <2>6
  <2>8. Verdict(chain, p) = source[least].action
    BY <1>7, <2>2, <2>5
  <2> QED
    BY <1>11, <2>7, <2>8
<1> QED
  BY <1>10, <1>11

\* Every line of a chain accepts or drops.
LEMMA LinesDecide ==
  ASSUME NEW rs \in Seq(RuleKinds), NEW i \in DOMAIN Render(rs)
  PROVE  Render(rs)[i].action \in {"accept", "drop"}
<1>1. PICK n \in Nat :
        /\ n >= Len(rs) /\ DOMAIN Render(rs) = 1..n
        /\ \A j \in 1..Len(rs) : Render(rs)[j] = BuildRule(rs[j])
        /\ \A j \in Len(rs) + 1..n :
             \E d \in {"in", "out"} : Mentions(rs, d) /\ Render(rs)[j] = DropAll(d)
  BY RenderIs
<1>2. CASE i \in 1..Len(rs)
  <2>1. RuleIs(rs[i]) /\ Render(rs)[i] = BuildRule(rs[i])
    BY <1>1, <1>2, RuleKindIs
  <2> QED
    BY <2>1 DEF BuildRule, RuleIs
<1>3. CASE i \in Len(rs) + 1..n
  BY <1>1, <1>3 DEF DropAll
<1>4. Len(rs) \in Nat
  OBVIOUS
<1> QED
  BY <1>1, <1>2, <1>3, <1>4

\* Initially there is no rule and the chain is empty.
LEMMA FirewallInvInit == FirewallInit => FirewallInv
<1> SUFFICES ASSUME FirewallInit
             PROVE  FirewallInv
  OBVIOUS
<1>1. Unsent \in [step : {"idle", "read", "sent"}, rules : Seq(RuleKinds)] /\ Sorted(Unsent.rules)
  BY DEF Unsent, Sorted
<1>2. source = <<>> /\ source \in Seq(RuleKinds) /\ Sorted(source)
  BY DEF FirewallInit, Sorted
<1>3. Render(source) = <<>>
  <2>1. DOMAIN source = {}
    BY <1>2
  <2>2. ~Mentions(source, "in") /\ ~Mentions(source, "out")
    BY <2>1 DEF Mentions
  <2>3. [i \in DOMAIN source |-> BuildRule(source[i])] = <<>>
    BY <1>2
  <2>4. (<<>> \o <<>>) \o <<>> = <<>>
    OBVIOUS
  <2> QED
    BY <2>2, <2>3, <2>4 DEF Render
<1>4. FirewallTypeOK
  <2>1. sending \in [Calls -> [step : {"idle", "read", "sent"}, rules : Seq(RuleKinds)]]
    BY <1>1 DEF FirewallInit
  <2>2. rule \in [RuleIds -> RuleKinds \cup {NoRule}] /\ vmUp \in BOOLEAN
    BY DEF FirewallInit
  <2>3. DOMAIN chain = {}
    BY DEF FirewallInit
  <2> QED
    BY <1>2, <2>1, <2>2, <2>3 DEF FirewallTypeOK
<1> QED
  BY <1>1, <1>2, <1>3, <1>4 DEF FirewallInit, FirewallInv

\* A step of one request that leaves the chain alone.
LEMMA SendingKeeps ==
  ASSUME FirewallInv, rule' \in [RuleIds -> RuleKinds \cup {NoRule}], UNCHANGED <<vmUp, chain, source>>,
         NEW c \in Calls, NEW x \in [step : {"idle", "read", "sent"}, rules : Seq(RuleKinds)],
         sending' = [sending EXCEPT ![c] = x], Sorted(x.rules)
  PROVE  FirewallInv'
<1>1. sending \in [Calls -> [step : {"idle", "read", "sent"}, rules : Seq(RuleKinds)]]
  BY DEF FirewallInv, FirewallTypeOK
<1>2. sending' \in [Calls -> [step : {"idle", "read", "sent"}, rules : Seq(RuleKinds)]]
  BY <1>1
<1>3. sending'[c] = x /\ \A d \in Calls \ {c} : sending'[d] = sending[d]
  BY <1>1
<1>4. FirewallTypeOK'
  BY <1>2 DEF FirewallInv, FirewallTypeOK
<1>5. \A d \in Calls : Sorted(sending'[d].rules)
  BY <1>3 DEF FirewallInv
<1> QED
  BY <1>4, <1>5 DEF FirewallInv

\* The rows come in the order of their priority.
LEMMA ReadIsSorted ==
  ASSUME FirewallInv, NEW s \in Ordered(Rows)
  PROVE  /\ [i \in DOMAIN s |-> rule[s[i]]] \in Seq(RuleKinds)
         /\ Sorted([i \in DOMAIN s |-> rule[s[i]]])
<1>1. rule \in [RuleIds -> RuleKinds \cup {NoRule}]
  BY DEF FirewallInv, FirewallTypeOK
<1>2. IsFiniteSet(Rows)
  BY FirewallAssumption, FS_Subset DEF Rows
<1>3. Cardinality(Rows) \in Nat
  BY <1>2, FS_CardinalityType
<1>4. s \in [1..Cardinality(Rows) -> Rows]
  BY DEF Ordered, SetToSeqs
<1>5. \A i \in DOMAIN s : rule[s[i]] \in RuleKinds
  BY <1>1, <1>4 DEF Rows
<1>6. [i \in DOMAIN s |-> rule[s[i]]] \in Seq(RuleKinds)
  BY <1>3, <1>4, <1>5
<1>7. \A i, j \in DOMAIN s : i < j => rule[s[i]].priority <= rule[s[j]].priority
  BY DEF Ordered
<1> QED
  BY <1>6, <1>7 DEF Sorted

\* Every step keeps the invariant.
LEMMA FirewallInvStep == FirewallInv /\ [FirewallNext]_firewallVars => FirewallInv'
<1> SUFFICES ASSUME FirewallInv, [FirewallNext]_firewallVars
             PROVE  FirewallInv'
  OBVIOUS
<1> DEFINE Request == [step : {"idle", "read", "sent"}, rules : Seq(RuleKinds)]
<1>1. /\ rule \in [RuleIds -> RuleKinds \cup {NoRule}] /\ sending \in [Calls -> Request]
      /\ \A c \in Calls : Sorted(sending[c].rules)
  BY DEF FirewallInv, FirewallTypeOK
<1>2. Unsent \in Request /\ Sorted(Unsent.rules)
  BY DEF Unsent, Sorted
<1>3. ASSUME NEW c \in Calls, NEW r \in RuleIds,
             DeleteRule(c, r) \/ \E k \in RuleKinds : CreateRule(c, r, k)
      PROVE  FirewallInv'
  <2> DEFINE x == [sending[c] EXCEPT !.step = "read"]
  <2>1. x \in Request /\ x.rules = sending[c].rules
    BY <1>1
  <2>2. sending' = [sending EXCEPT ![c] = x] /\ UNCHANGED <<vmUp, chain, source>>
    BY <1>3 DEF DeleteRule, CreateRule, ThenApply
  <2>3. rule' \in [RuleIds -> RuleKinds \cup {NoRule}]
    BY <1>1, <1>3 DEF DeleteRule, CreateRule
  <2>4. Sorted(x.rules)
    BY <1>1, <2>1
  <2> HIDE DEF x
  <2> QED
    BY <2>1, <2>2, <2>3, <2>4, SendingKeeps
<1>4. ASSUME NEW c \in Calls, sending' = [sending EXCEPT ![c] = Unsent],
             UNCHANGED <<rule, vmUp, chain, source>>
      PROVE  FirewallInv'
  BY <1>1, <1>2, <1>4, SendingKeeps
<1>5. ASSUME NEW c \in Calls, ReadRules(c)
      PROVE  FirewallInv'
  <2>1. UNCHANGED <<rule, vmUp, chain, source>>
    BY <1>5 DEF ReadRules
  <2>2. CASE vmUp
    <3>1. PICK s \in Ordered(Rows) :
            sending' = [sending EXCEPT ![c] =
                          [step |-> "sent", rules |-> [i \in DOMAIN s |-> rule[s[i]]]]]
      BY <1>5, <2>2 DEF ReadRules
    <3> DEFINE x == [step |-> "sent", rules |-> [i \in DOMAIN s |-> rule[s[i]]]]
    <3>2. x \in Request /\ Sorted(x.rules)
      BY ReadIsSorted
    <3>3. sending' = [sending EXCEPT ![c] = x]
      BY <3>1
    <3> HIDE DEF x
    <3> QED
      BY <1>1, <2>1, <3>2, <3>3, SendingKeeps
  <2>3. CASE ~vmUp
    BY <1>4, <1>5, <2>1, <2>3 DEF ReadRules
  <2> QED
    BY <2>2, <2>3
<1>6. ASSUME NEW c \in Calls, ApplyLost(c) \/ ApplyRefused(c)
      PROVE  FirewallInv'
  BY <1>4, <1>6 DEF ApplyLost, ApplyRefused
<1>7. ASSUME NEW c \in Calls, Apply(c)
      PROVE  FirewallInv'
  <2>1. /\ \A i \in DOMAIN sending[c].rules : ~Malformed(sending[c].rules[i])
        /\ chain' = Render(sending[c].rules) /\ source' = sending[c].rules
        /\ sending' = [sending EXCEPT ![c] = Unsent] /\ UNCHANGED <<rule, vmUp>>
    BY <1>7 DEF Apply
  <2>2. sending[c].rules \in Seq(RuleKinds) /\ Sorted(sending[c].rules)
    BY <1>1
  <2>3. /\ sending' \in [Calls -> Request]
        /\ \A d \in Calls : Sorted(sending'[d].rules)
    BY <1>1, <1>2, <2>1
  <2>4. \A i \in DOMAIN chain' : chain'[i].action \in {"accept", "drop"}
    BY <2>1, <2>2, LinesDecide
  <2>5. FirewallTypeOK'
    BY <2>1, <2>2, <2>3, <2>4 DEF FirewallInv, FirewallTypeOK
  <2> QED
    BY <2>1, <2>2, <2>3, <2>5 DEF FirewallInv
<1>8. CASE VmChanges
  BY <1>8 DEF VmChanges, FirewallInv, FirewallTypeOK
<1>9. CASE UNCHANGED firewallVars
  BY <1>9 DEF firewallVars, FirewallInv, FirewallTypeOK
<1> QED
  BY <1>3, <1>5, <1>6, <1>7, <1>8, <1>9 DEF FirewallNext

\* Whatever requests reach the agent and in whatever order, the chain means the rules it
\* was rendered from, for any rules, priorities and ports.
THEOREM ChainMeansItsRules == FirewallSpec => []ChainMeansRules
  BY FirewallInvInit, FirewallInvStep, ChainDecides, PTL DEF FirewallSpec

\* The rows, the requests and the chain keep their types.
THEOREM FirewallTypeCorrect == FirewallSpec => []FirewallTypeOK
<1>1. FirewallInv => FirewallTypeOK
  BY DEF FirewallInv
<1> QED
  BY <1>1, FirewallInvInit, FirewallInvStep, PTL DEF FirewallSpec
=============================================================================
