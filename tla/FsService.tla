----------------------------- MODULE FsService -----------------------------
(***************************************************************************)
(* The file system service (userland/system/LtFsService): its start        *)
(* (main.cpp, FsManager.cpp), the commands it executes                     *)
(* (ServiceCommands.cpp), the tree of cached files through which a path is *)
(* followed (File.cpp), and the library a program opens files with         *)
(* (StdLib/src/FileSystem.cpp).                                            *)
(*                                                                         *)
(* main receives one message and stops; the loop that would hand messages  *)
(* to ServiceExecuteCommand is commented out.  Here the commands are       *)
(* executed one after the other, in whatever order they come, while the    *)
(* service is listening.  It has one thread: a command is cut only where   *)
(* it reads the disk, which may fail each time.  New objects are zero      *)
(* where their creator does not fill them (Heap, ZeroUntilMerged).         *)
(***************************************************************************)
EXTENDS Integers, Sequences, FiniteSets

CONSTANTS
  Procs,            (* processes that use the service                      *)
  Ids,              (* names of IPC servers                                *)
  TimeId,           (* __TIME__: the name every program of a build uses    *)
  Inodes, RootInode,
  Entries,          (* the disk: for each directory, its names and inodes  *)
  Paths,            (* paths that are asked for: [names, slash]            *)
  ShareModes,       (* "none", "read", "write"                             *)
  None,             (* null                                                *)
  MaxProcesses,     (* bound: process entries                              *)
  MaxFiles          (* bound: files that are open                          *)

ASSUME FsAssumption ==
  /\ TimeId \in Ids /\ None \notin Ids /\ RootInode \in Inodes /\ DOMAIN Entries \subseteq Inodes
  /\ RootInode \in DOMAIN Entries
  /\ MaxProcesses \in Nat /\ MaxFiles \in Nat

(* A directory has finitely many names, and its entries are of inodes; "." *)
(* and ".." are skipped when it is read, so they are not among them.  What *)
(* a path is made of.                                                      *)
ASSUME TreeAssumption ==
  /\ \A d \in DOMAIN Entries :
       /\ IsFiniteSet(DOMAIN Entries[d])
       /\ "." \notin DOMAIN Entries[d] /\ ".." \notin DOMAIN Entries[d]
       /\ \A n \in DOMAIN Entries[d] : Entries[d][n] \in Inodes
  /\ \A path \in Paths : path \in [names : Seq(STRING), slash : BOOLEAN]

VARIABLES
  stage,        (* of the service: start, up, listening, ended, failed     *)
  servers,      (* names of the IPC servers that exist                     *)
  init,         (* gFsContext.isInitilaized of each process                *)
  processes,    (* gSvcContext.processes: [handle, server, freed]          *)
  fileEntries,  (* gSvcContext.fileEntries: [file, share]                  *)
  cache,        (* File objects: [inum, name, parent, opened]              *)
  leaves,       (* for each of them, the objects in its leaf list          *)
  prio,         (* priority of the thread of the service                   *)
  req,          (* RequestOpenFile in progress                             *)
  named,        (* history: the server each process had registered         *)
  last          (* history: what the last command came to                  *)

fsVars == <<stage, servers, init, processes, fileEntries, cache, leaves,
            prio, req, named, last>>
treeVars == <<cache, leaves>>
listVars == <<processes, named>>
clientVars == <<servers, init>>

Root == 1
NormalPriority == 0
MaxPriority == 2
NoPath == [names |-> <<>>, slash |-> FALSE]
NoRequest == [proc |-> None, entry |-> 0, path |-> NoPath, share |-> "none", at |-> 0, dir |-> Root]
NoAnswer == [proc |-> None, path |-> NoPath, res |-> "none", server |-> None, inum |-> RootInode]

(* SysRaiseThreadPriority, SysLowerThreadPriority                          *)
Raise(n) == IF n < MaxPriority THEN n + 1 ELSE n

Lower(n) == IF n > NormalPriority THEN n - 1 ELSE n

FsStart ==
  /\ stage = "start"
  /\ servers = {}
  /\ init = [p \in Procs |-> FALSE]
  /\ processes = <<>> /\ fileEntries = <<>>
  /\ cache = <<>> /\ leaves = <<>>
  /\ prio = NormalPriority
  /\ req = NoRequest /\ last = NoAnswer
  /\ named = [p \in Procs |-> None]

-----------------------------------------------------------------------------
(* The tree of cached files                                                *)

(* CreateFile, and the objects that BrowseAndCacheDirectory makes.         *)
FileObject(inum, name, parent) ==
  [inum |-> inum, name |-> name, parent |-> parent, opened |-> FALSE]

(* IsCached: the file with that name in the leaf list, or 0.               *)
IsCached(d, name) ==
  LET found == {k \in DOMAIN leaves[d] : cache[leaves[d][k]].name = name}
  IN IF found = {} THEN 0
     ELSE leaves[d][CHOOSE k \in found : \A l \in found : k <= l]

(* The names of a directory that BrowseAndCacheDirectory has to add.       *)
NotCached(d) == {n \in DOMAIN Entries[cache[d].inum] : IsCached(d, n) = 0}

IsDirectory(f) == f.inum \in DOMAIN Entries

(* The names of a directory in the order in which the disk has them.       *)
InOrder(names) ==
  CHOOSE s \in [1 .. Cardinality(names) -> names] : \A i, j \in DOMAIN s : i # j => s[i] # s[j]

(* The files C and their leaf lists L, after the disk was read into the    *)
(* object of directory d, now f: the names new get an object each, at the  *)
(* head of its leaf list.                                                  *)
Browsed(C, L, d, f, new) ==
  LET n == Cardinality(new)
      names == InOrder(new)
  IN [cache |-> [C EXCEPT ![d] = f] \o
                  [k \in 1 .. n |-> FileObject(Entries[f.inum][names[k]], names[k], d)],
      leaves |-> [L EXCEPT ![d] = [k \in 1 .. n |-> Len(C) + n + 1 - k] \o @]
                   \o [k \in 1 .. n |-> <<>>]]

SetTree(t) == cache' = t.cache /\ leaves' = t.leaves

(* BrowseAndCacheDirectory(d), for a directory that is open.  For a file   *)
(* it fails, and nobody looks at the result.                               *)
BrowseAndCache(d, f) ==
  SetTree(Browsed(cache, leaves, d, f, IF IsDirectory(f) THEN NotCached(d) ELSE {}))

(* OpenFile: the inode is read once, then the content.                     *)
Opened(f) == [f EXCEPT !.opened = TRUE]

(* InitRootFile: the root is its own parent.                               *)
RootFile == Opened(FileObject(RootInode, "/", Root))

(* InitRoot: the object of the root, and those of the files in it.         *)
InitRoot ==
  SetTree(Browsed(<<RootFile>>, << <<>> >>, Root, RootFile, DOMAIN Entries[RootInode]))

(* AtaDeviceCreate: the drive, the super block, the group descriptors and  *)
(* the root directory are read, or one of them is not.                     *)
AtaDeviceCreateFails ==
  /\ stage = "start"
  /\ stage' = "failed"
  /\ prio' = Lower(Raise(prio))
  /\ UNCHANGED <<treeVars, listVars, clientVars, fileEntries, req, last>>

AtaDeviceCreate ==
  /\ stage = "start"
  /\ stage' = "up"
  /\ prio' = Lower(Raise(prio))
  /\ InitRoot
  /\ UNCHANGED <<listVars, clientVars, fileEntries, req, last>>

(* StartListening: the server is created, and one message is received, as  *)
(* soon as a program has sent one.                                         *)
IpcServerCreate ==
  /\ stage = "up"
  /\ stage' = "listening"
  /\ UNCHANGED <<treeVars, listVars, clientVars, fileEntries, prio, req, last>>

Serving == stage = "listening" /\ req = NoRequest

Listen ==
  /\ Serving /\ \E p \in Procs : init[p]
  /\ stage' = "ended"
  /\ last' = NoAnswer
  /\ UNCHANGED <<treeVars, listVars, clientVars, fileEntries, prio, req>>

-----------------------------------------------------------------------------
(* Commands                                                                *)

(* LookForProcessFromHandle: the first entry of the list with that handle, *)
(* 0 if there is none.  An entry that was freed is memory that the heap    *)
(* has given to something else: it may hold that handle or not.            *)
LookForProcessFromHandle(p) ==
  LET found == {k \in DOMAIN processes : processes[k].handle = p}
      first == IF found = {} THEN 0 ELSE CHOOSE k \in found : \A l \in found : k <= l
  IN {first} \cup {k \in DOMAIN processes : processes[k].freed /\ (first = 0 \/ k < first)}

(* RequestConnect of a process that is in the list: not an error, but its  *)
(* entry is given to HeapFree, which clears it, and stays in the list.     *)
RequestConnectAgain(p) ==
  /\ Serving
  /\ \E k \in LookForProcessFromHandle(p) \ {0} :
       processes' = [processes EXCEPT ![k] = [handle |-> None, server |-> None, freed |-> TRUE]]
  /\ last' = NoAnswer
  /\ UNCHANGED <<stage, treeVars, clientVars, named, fileEntries, prio, req>>

(* CreateProcessEntry: only the handle is set.                             *)
CreateProcessEntry(p) == [handle |-> p, server |-> None, freed |-> FALSE]

(* The service connects to the server that the request names.              *)
RequestConnect(p, i) ==
  /\ Serving
  /\ 0 \in LookForProcessFromHandle(p)
  /\ i \in servers
  /\ Len(processes) < MaxProcesses
  /\ processes' = Append(processes, [CreateProcessEntry(p) EXCEPT !.server = i])
  /\ named' = [named EXCEPT ![p] = i]
  /\ last' = NoAnswer
  /\ UNCHANGED <<stage, treeVars, clientVars, fileEntries, prio, req>>

(* Mutant of RequestConnectFails: the entry is in the list already.        *)
RequestConnectFailsListed(p, i) ==
  /\ Serving
  /\ 0 \in LookForProcessFromHandle(p)
  /\ i \notin servers
  /\ Len(processes) < MaxProcesses
  /\ processes' = Append(processes, CreateProcessEntry(p))
  /\ last' = NoAnswer
  /\ UNCHANGED <<stage, treeVars, clientVars, named, fileEntries, prio, req>>

(* There is no such server: the new entry is freed before it is listed.    *)
RequestConnectFails(p, i) ==
  /\ Serving
  /\ 0 \in LookForProcessFromHandle(p)
  /\ i \notin servers
  /\ last' = NoAnswer
  /\ UNCHANGED <<stage, treeVars, clientVars, listVars, fileEntries, prio, req>>

(* Mutant of EndOpen: the priority is lowered only when an answer is sent. *)
EndOpenRaised(res, server, inum) ==
  /\ prio' = IF server # None THEN Lower(prio) ELSE prio
  /\ last' = [proc |-> req.proc, path |-> req.path, res |-> res, server |-> server, inum |-> inum]
  /\ req' = NoRequest

(* clean: the priority is lowered, whatever happened.                      *)
EndOpen(res, server, inum) ==
  /\ prio' = Lower(prio)
  /\ last' = [proc |-> req.proc, path |-> req.path, res |-> res, server |-> server, inum |-> inum]
  /\ req' = NoRequest

(* RequestOpenFile of a process that is not registered: the priority is    *)
(* lowered although it was not raised.                                     *)
RequestOpenFileUnknown(p) ==
  /\ Serving
  /\ 0 \in LookForProcessFromHandle(p)
  /\ prio' = Lower(prio)
  /\ last' = NoAnswer
  /\ UNCHANGED <<stage, treeVars, listVars, clientVars, fileEntries, req>>

(* The entry of the process is looked up before the disk is read, and used *)
(* after.                                                                  *)
RequestOpenFile(p, path, share) ==
  /\ Serving /\ Len(fileEntries) < MaxFiles
  /\ \E k \in LookForProcessFromHandle(p) \ {0} :
       req' = [proc |-> p, entry |-> k, path |-> path, share |-> share, at |-> 1, dir |-> Root]
  /\ prio' = Raise(prio)
  /\ last' = NoAnswer
  /\ UNCHANGED <<stage, treeVars, listVars, clientVars, fileEntries>>

(* LookForFileEntryFromFilePtr: the oldest entry of the file.              *)
LookForFileEntryFromFilePtr(f) ==
  LET found == {k \in DOMAIN fileEntries : fileEntries[k].file = f}
  IN IF found = {} THEN 0 ELSE CHOOSE k \in found : \A l \in found : k <= l

(* Mutant of IsFileAccessible: the wrong flag.                             *)
IsFileAccessibleWrite(e) == e.share = "write"

(* IsFileAccessible for FILE_READ, the only access there is.               *)
IsFileAccessible(e) == e.share = "read"

NewFileEntry(f) == [file |-> f, share |-> req.share]

(* OpenFileFromName found object f: the answer is sent to the server of    *)
(* the process.  The push to the list of the process does nothing:         *)
(* CreateProcessEntry made no list.                                        *)
Answer(f) ==
  LET k == LookForFileEntryFromFilePtr(f)
      entry == processes[req.entry]
      denied == k # 0 /\ ~IsFileAccessible(fileEntries[k])
  IN /\ fileEntries' = IF denied THEN fileEntries ELSE Append(fileEntries, NewFileEntry(f))
     /\ \E server \in IF entry.freed THEN Ids \cup {None} ELSE {entry.server} :
          EndOpen(IF denied THEN "denied" ELSE "ok", server, cache[f].inum)

-----------------------------------------------------------------------------
(* OpenFileFromName, one name of the path per turn                         *)

Name == req.path.names[req.at]
Walking == req # NoRequest /\ req.at <= Len(req.path.names)
LastName == req.at = Len(req.path.names) /\ ~req.path.slash

(* path = &path[indexSlash + 1]                                            *)
StepTo(d) == req' = [req EXCEPT !.at = @ + 1, !.dir = d]

(* Mutant of Parent: every directory is in the root.                       *)
ParentRoot(d) == Root

(* directory->parent, which is the root itself for the root                *)
Parent(d) == cache[d].parent

(* "." and "..", but not as the last name, where they are looked up.       *)
WalkDots ==
  /\ Walking /\ ~LastName /\ Name \in {".", ".."}
  /\ StepTo(IF Name = ".." THEN Parent(req.dir) ELSE req.dir)
  /\ UNCHANGED <<stage, treeVars, listVars, clientVars, fileEntries, prio, last>>

(* A directory on the way: it is opened and its files are cached.          *)
WalkDirectory ==
  /\ Walking /\ ~LastName /\ Name \notin {".", ".."}
  /\ LET d == IsCached(req.dir, Name)
     IN d # 0 /\ BrowseAndCache(d, Opened(cache[d])) /\ StepTo(d)
  /\ UNCHANGED <<stage, listVars, clientVars, fileEntries, prio, last>>

(* The last name: the file is opened.                                      *)
WalkFile ==
  /\ Walking /\ LastName
  /\ LET f == IsCached(req.dir, Name)
     IN /\ f # 0
        /\ cache' = [cache EXCEPT ![f] = Opened(@)]
        /\ Answer(f)
  /\ UNCHANGED <<stage, leaves, listVars, clientVars>>

(* The name is not in the directory.                                       *)
WalkNotFound ==
  /\ Walking
  /\ LastName \/ Name \notin {".", ".."}
  /\ IsCached(req.dir, Name) = 0
  /\ EndOpen("notfound", None, RootInode)
  /\ UNCHANGED <<stage, treeVars, listVars, clientVars, fileEntries>>

(* OpenFile fails to read the inode or the content.                        *)
WalkReadFails ==
  /\ Walking
  /\ LastName \/ Name \notin {".", ".."}
  /\ LET f == IsCached(req.dir, Name)
     IN f # 0 /\ ~cache[f].opened
  /\ EndOpen("io", None, RootInode)
  /\ UNCHANGED <<stage, treeVars, listVars, clientVars, fileEntries>>

(* The path has ended without a file: "/" is the root, a path that ends    *)
(* with a slash, or is empty, is a success without a file.                 *)
WalkEnd ==
  /\ req # NoRequest /\ req.at > Len(req.path.names)
  /\ IF req.path.names = <<>> /\ req.path.slash
     THEN Answer(Root)
     ELSE EndOpen("nofile", None, RootInode) /\ UNCHANGED fileEntries
  /\ UNCHANGED <<stage, treeVars, listVars, clientVars>>

(* LTFS_REQUEST_TERMINATE                                                  *)
Terminate ==
  /\ Serving
  /\ stage' = "ended"
  /\ last' = NoAnswer
  /\ UNCHANGED <<treeVars, listVars, clientVars, fileEntries, prio, req>>

-----------------------------------------------------------------------------
(* The programs                                                            *)

(* A program creates an IPC server of another name.                        *)
CreateServer(i) ==
  /\ i \notin servers
  /\ servers' = servers \cup {i}
  /\ UNCHANGED <<stage, treeVars, listVars, init, fileEntries, prio, req, last>>

(* FsInit connects to the service, creates an IPC server, where a name in  *)
(* use is refused, and sends the connect request.                          *)
FsInit(p) ==
  /\ stage \in {"listening", "ended"}
  /\ TimeId \notin servers
  /\ servers' = servers \cup {TimeId}
  /\ init' = [init EXCEPT ![p] = TRUE]
  /\ UNCHANGED <<stage, treeVars, listVars, fileEntries, prio, req, last>>

(* FsOpenFile: the first one initialises the library.  From then on it     *)
(* only sends: the wait for the response is commented out.                 *)
FsOpenFile(p) == ~init[p] /\ FsInit(p)

-----------------------------------------------------------------------------
Walk == WalkDots \/ WalkDirectory \/ WalkFile \/ WalkNotFound \/ WalkReadFails \/ WalkEnd

Command ==
  \/ \E p \in Procs : RequestConnectAgain(p)
  \/ \E p \in Procs, i \in Ids : RequestConnect(p, i)
  \/ \E p \in Procs, i \in Ids : RequestConnectFails(p, i)
  \/ \E p \in Procs : RequestOpenFileUnknown(p)
  \/ \E p \in Procs, path \in Paths, share \in ShareModes : RequestOpenFile(p, path, share)
  \/ Terminate

FsNext ==
  \/ AtaDeviceCreateFails \/ AtaDeviceCreate \/ IpcServerCreate \/ Listen
  \/ Command
  \/ Walk
  \/ \E i \in Ids \ {TimeId} : CreateServer(i)
  \/ \E p \in Procs : FsOpenFile(p)

FsSpec == FsStart /\ [][FsNext]_fsVars

-----------------------------------------------------------------------------
(* Properties                                                              *)

(* Every variable has its type; objects refer to objects that exist.       *)
FsTypeOK ==
  /\ stage \in {"start", "up", "listening", "ended", "failed"}
  /\ servers \subseteq Ids /\ named \in [Procs -> Ids \cup {None}]
  /\ init \in [Procs -> BOOLEAN]
  /\ Len(processes) <= MaxProcesses /\ Len(fileEntries) <= MaxFiles
  /\ DOMAIN leaves = DOMAIN cache
  /\ \A f \in DOMAIN cache : cache[f].inum \in Inodes /\ cache[f].parent \in DOMAIN cache
  /\ \A k \in DOMAIN fileEntries : fileEntries[k].file \in DOMAIN cache
  /\ req.entry \in 0 .. Len(processes)
  /\ prio \in NormalPriority .. MaxPriority

(* However paths are followed and reads fail in between, a directory has   *)
(* at most one object for each name, filed under it, with the inode that   *)
(* the disk has for that name (BrowseAndCacheDirectory with IsCached).     *)
CacheMatchesDisk ==
  \A d \in DOMAIN cache :
    /\ \A j, k \in DOMAIN leaves[d] : cache[leaves[d][j]].name = cache[leaves[d][k]].name => j = k
    /\ \A k \in DOMAIN leaves[d] :
         LET f == cache[leaves[d][k]] IN
         /\ f.parent = d
         /\ cache[d].inum \in DOMAIN Entries
         /\ f.name \in DOMAIN Entries[cache[d].inum]
         /\ f.inum = Entries[cache[d].inum][f.name]

(* One more name: from the inodes d between the root and a file, <<>> for  *)
(* none, to those of the file that has this name in it.                    *)
Follow(d, name) ==
  IF d = <<>> \/ name = "." THEN d
  ELSE IF name = ".." THEN IF Len(d) > 1 THEN SubSeq(d, 1, Len(d) - 1) ELSE d
  ELSE IF d[Len(d)] \notin DOMAIN Entries THEN <<>>
  ELSE IF name \notin DOMAIN Entries[d[Len(d)]] THEN <<>>
  ELSE Append(d, Entries[d[Len(d)]][name])

(* The inodes from the root to what names lead to on the disk, <<>> when   *)
(* they lead nowhere.                                                      *)
Trail(names) ==
  LET t[n \in 0 .. Len(names)] ==
        IF n = 0 THEN <<RootInode>> ELSE Follow(t[n - 1], names[n])
  IN t[Len(names)]

(* OpenFileFromName agrees with the disk, whatever was cached before: it   *)
(* finds the file the path leads to, and finds nothing exactly when the    *)
(* path leads nowhere, or ends with "." or "..", which no list holds.  The *)
(* cache itself agrees with the disk, after reads that failed half way     *)
(* too.                                                                    *)
OpenMatchesDisk ==
  LET names == last.path.names
      end == Trail(names)
      dots == names # <<>> /\ names[Len(names)] \in {".", ".."}
  IN /\ FsTypeOK
     /\ CacheMatchesDisk
     /\ last.res \in {"ok", "denied"} => end # <<>> /\ last.inum = end[Len(end)] /\ ~dots
     /\ last.res = "notfound" => end = <<>> \/ dots

(* As long as no process has connected twice: the entry of a process is    *)
(* found if and only if its connect request succeeded, and what it opens   *)
(* is answered to the server that request named (RequestConnect,           *)
(* RequestOpenFile).  A second connect frees the entry in the list, and    *)
(* nothing of this is left.                                                *)
AnswersReachRequester ==
  (\A k \in DOMAIN processes : ~processes[k].freed) =>
    /\ \A p \in Procs :
         \A k \in LookForProcessFromHandle(p) :
           IF k = 0 THEN named[p] = None ELSE processes[k].server = named[p] /\ named[p] # None
    /\ last.res \in {"ok", "denied"} => last.server = named[last.proc]

(* A file whose oldest entry does not share reads is open once: later      *)
(* requests, on whatever path, are denied (IsFileAccessible).              *)
SoleWhenNotShared ==
  \A j, k \in DOMAIN fileEntries :
    /\ j # k /\ fileEntries[j].file = fileEntries[k].file
    /\ j = LookForFileEntryFromFilePtr(fileEntries[j].file)
    => fileEntries[j].share = "read"

(* The service is at its normal priority between commands, although an     *)
(* early return lowers a priority that was never raised.                   *)
PriorityRestored == (req = NoRequest) => (prio = NormalPriority)

=============================================================================
