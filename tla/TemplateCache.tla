---------------------------- MODULE TemplateCache ----------------------------
(***************************************************************************)
(* The agent's cache of a cloud image: EnsureTemplate (and EnsureISO, which *)
(* is the same without the checksum) of agent/internal/storage/storage.go. *)
(*                                                                         *)
(* All downloads of one URL share the file `<cached>.part`.  os.Create      *)
(* truncates it when it is there, an open file stays open when its name is *)
(* renamed or removed, and every download writes at its own offset: so the *)
(* files are modelled as inodes with their blocks, and names as references *)
(* to inodes.                                                              *)
(***************************************************************************)
EXTENDS Naturals, FiniteSets

CONSTANTS
  Download,    \* the calls of EnsureTemplate for one URL
  Size,        \* blocks of the image
  Version,     \* what the server may send: versions of the image
  Expected,    \* the version with the configured checksum
  HasChecksum, \* whether the template has a checksum
  MaxParallel, \* how many calls run at the same time
  MaxCrashes,  \* bound of the model: restarts of the agent
  NoFile, Hole

ASSUME CacheAssumption ==
  /\ Size \in Nat \ {0}
  /\ Expected \in Version
  /\ HasChecksum \in BOOLEAN
  /\ MaxParallel \in Nat
  /\ MaxCrashes \in Nat
  /\ NoFile \notin Download
  /\ Hole \notin Version

VARIABLES
  part,     \* the inode that the name <cached>.part refers to
  cached,   \* the inode that the name of the cached image refers to
  blocks,   \* the blocks of each inode; an inode is named by its creator
  pc,       \* where each call stands
  file,     \* the inode that each call has open
  offset,   \* how many blocks the call has written
  version,  \* the version the server sends to the call
  crashes,  \* number of restarts
  shared    \* history: whether two downloads were ever under way together

cacheVars == <<part, cached, blocks, pc, file, offset, version, crashes, shared>>
names == <<part, cached>>

Block == 1 .. Size
Running == {"get", "write", "verify", "rename"}
Empty == [b \in Block |-> Hole]

CacheTypeOK ==
  /\ part \in Download \union {NoFile}
  /\ cached \in Download \union {NoFile}
  /\ blocks \in [Download -> [Block -> Version \union {Hole}]]
  /\ pc \in [Download -> Running \union {"idle", "ok", "err", "killed"}]
  /\ file \in [Download -> Download \union {NoFile}]
  /\ offset \in [Download -> 0 .. Size]
  /\ version \in [Download -> Version]
  /\ crashes \in 0 .. MaxCrashes
  /\ shared \in BOOLEAN

CacheInit ==
  /\ part = NoFile
  /\ cached = NoFile
  /\ blocks = [d \in Download |-> Empty]
  /\ pc = [d \in Download |-> "idle"]
  /\ file = [d \in Download |-> NoFile]
  /\ offset = [d \in Download |-> 0]
  /\ version \in [Download -> Version]
  /\ crashes = 0
  /\ shared = FALSE

Goto(d, label) == pc' = [pc EXCEPT ![d] = label]

Active == {d \in Download : pc[d] \in Running}

\* os.Stat: an image that is there is used as it is.
Begin(d) ==
  /\ pc[d] = "idle"
  /\ Cardinality(Active) < MaxParallel
  /\ Goto(d, IF cached = NoFile THEN "get" ELSE "ok")
  /\ shared' = (shared \/ (cached = NoFile /\ Active # {}))
  /\ UNCHANGED <<names, blocks, file, offset, version, crashes>>

\* os.Create opens a new inode, or the one that has the name already.
Opened(d) == IF part = NoFile THEN d ELSE part

\* The GET has been answered and the file is opened and cut to length zero; or
\* the GET fails.
Create(d) ==
  /\ pc[d] = "get"
  /\ \/ /\ file' = [file EXCEPT ![d] = Opened(d)]
        /\ part' = Opened(d)
        /\ blocks' = [blocks EXCEPT ![Opened(d)] = Empty]
        /\ Goto(d, "write")
     \/ UNCHANGED <<part, blocks, file>> /\ Goto(d, "err")
  /\ UNCHANGED <<cached, offset, version, crashes, shared>>

\* io.Copy writes the next block of the stream into the file and the hash.
WriteBlock(d) ==
  /\ pc[d] = "write"
  /\ offset[d] < Size
  /\ offset' = [offset EXCEPT ![d] = @ + 1]
  /\ blocks' = [blocks EXCEPT ![file[d]][offset[d] + 1] = version[d]]
  /\ Goto(d, IF offset[d] + 1 = Size THEN "verify" ELSE "write")
  /\ UNCHANGED <<names, file, version, crashes, shared>>

\* The file is closed and the name <cached>.part removed, whoever made it.
GiveUp(d) ==
  /\ part' = NoFile
  /\ Goto(d, "err")

\* The stream breaks.
StreamFails(d) ==
  /\ pc[d] = "write"
  /\ GiveUp(d)
  /\ UNCHANGED <<cached, blocks, file, offset, version, crashes, shared>>

MutantUnverified(d) == TRUE

\* The hash is that of the stream, not of the file.
HashMatches(d) == HasChecksum => version[d] = Expected

Verify(d) ==
  /\ pc[d] = "verify"
  /\ IF HashMatches(d) THEN Goto(d, "rename") /\ UNCHANGED part ELSE GiveUp(d)
  /\ UNCHANGED <<cached, blocks, file, offset, version, crashes, shared>>

\* os.Rename fails when the name <cached>.part has gone.
RenameResult(d) == IF part = NoFile THEN "err" ELSE "ok"

Rename(d) ==
  /\ pc[d] = "rename"
  /\ cached' = IF part = NoFile THEN cached ELSE part
  /\ part' = NoFile
  /\ Goto(d, RenameResult(d))
  /\ UNCHANGED <<blocks, file, offset, version, crashes, shared>>

Cut(pcs) == IF pcs \in Running THEN "killed" ELSE pcs

\* The agent is restarted: its calls are gone, its files stay.
Crash ==
  /\ crashes < MaxCrashes
  /\ crashes' = crashes + 1
  /\ pc' = [d \in Download |-> Cut(pc[d])]
  /\ UNCHANGED <<names, blocks, file, offset, version, shared>>

CacheNext ==
  \/ \E d \in Download :
       \/ Begin(d)
       \/ Create(d)
       \/ WriteBlock(d)
       \/ StreamFails(d)
       \/ Verify(d)
       \/ Rename(d)
  \/ Crash

CacheSpec == CacheInit /\ [][CacheNext]_cacheVars
-----------------------------------------------------------------------------
(* Properties.                                                             *)

Image == [b \in Block |-> Expected]

\* An image in the cache is complete and has the configured checksum, unless
\* downloads of it were ever under way together: broken streams, wrong images
\* and restarts in the middle of a download leave no other file there.
CachedIsVerified ==
  HasChecksum /\ cached # NoFile /\ ~shared => blocks[cached] = Image

\* What the comment on EnsureTemplate says: the download goes into the cache
\* once and its checksum is verified.  No exception for parallel downloads.
CachedIsAlwaysVerified ==
  HasChecksum /\ cached # NoFile => blocks[cached] = Image

\* A call that reports success has left an image in the cache, even when
\* another call removed or renamed the shared file under it.
OkMeansCached ==
  \A d \in Download : pc[d] = "ok" => cached # NoFile

\* However many downloads share the file, the name of the cached image never
\* refers to a file that a download will truncate: os.Create opens the other
\* name only.
CachedIsNotTruncated ==
  [][\A d \in Download :
       cached = cached' /\ cached # NoFile =>
         \A b \in Block : blocks[cached][b] # Hole => blocks'[cached][b] # Hole]_cacheVars
=============================================================================
