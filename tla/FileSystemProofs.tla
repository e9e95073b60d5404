------------------------- MODULE FileSystemProofs --------------------------
(***************************************************************************)
(* Proofs about the file system: FsService, for any disk, any paths and    *)
(* any programs, and Disk, for any disk, any files and any number of       *)
(* errors.                                                                 *)
(***************************************************************************)
EXTENDS FsService, Disk, TLAPS, FiniteSetTheorems, WellFoundedInduction

(* A request in progress has raised the priority once, and is told apart   *)
(* from none by its place in the path.                                     *)
PriorityInv ==
  /\ req = NoRequest => prio = NormalPriority
  /\ req # NoRequest => prio = NormalPriority + 1
  /\ "at" \in DOMAIN req /\ req.at \in Nat
  /\ req # NoRequest => req.at > 0

(* At most one program is ever initialised: all programs of a build name   *)
(* their server __TIME__, and a second one of that name is refused, so     *)
(* that no answer goes to a program that did not ask.                      *)
OneIsInitialised == \A p, q \in Procs : init[p] /\ init[q] => p = q

(* Whoever is initialised has taken the one name there is.                 *)
NameInv ==
  /\ init \in [Procs -> BOOLEAN]
  /\ \A p \in Procs : init[p] => TimeId \in servers
  /\ OneIsInitialised

(* A sequence of something, whatever that is.                              *)
IsSequence(s) == \E S : s \in Seq(S)

(* Entries were appended only while the oldest entry of their file shared  *)
(* reads.                                                                  *)
SoleInv ==
  /\ IsSequence(fileEntries)
  /\ \A j, k \in DOMAIN fileEntries :
       /\ j < k /\ fileEntries[j].file = fileEntries[k].file
       /\ \A l \in DOMAIN fileEntries : fileEntries[l].file = fileEntries[j].file => j <= l
       => fileEntries[j].share = "read"

(* No entry of the process list was given to HeapFree.                     *)
NoneFreed == \A k \in DOMAIN processes : ~processes[k].freed

(* The list and the history agree; a request in progress and the last      *)
(* answer are those of a process that has its server.                      *)
ListedInv ==
  /\ IsSequence(processes)
  /\ named \in [Procs -> Ids \cup {None}]
  /\ {"proc", "entry", "at", "dir"} \subseteq DOMAIN req
  /\ req # NoRequest => req.proc \in Procs /\ req.entry \in DOMAIN processes /\ req.at > 0
  /\ req.at \in Nat
  /\ NoneFreed =>
       /\ \A k \in DOMAIN processes : \A p \in Procs :
            processes[k].handle = p => processes[k].server = named[p] /\ named[p] # None
       /\ \A p \in Procs :
            named[p] # None => \E k \in DOMAIN processes : processes[k].handle = p
       /\ req # NoRequest => processes[req.entry].handle = req.proc
       /\ last.res \in {"ok", "denied"} => last.server = named[last.proc]

-----------------------------------------------------------------------------
(* What raising and lowering do at the normal priority and above it.       *)
LEMMA PriorityNumbers ==
  /\ Raise(NormalPriority) = NormalPriority + 1
  /\ Lower(NormalPriority) = NormalPriority
  /\ Lower(NormalPriority + 1) = NormalPriority
  /\ Lower(Raise(NormalPriority)) = NormalPriority
BY DEF Raise, Lower, NormalPriority, MaxPriority

(* However an open request ends, the priority is the normal one again.     *)
LEMMA EndOpenRestores ==
  ASSUME PriorityInv, req # NoRequest, NEW res, NEW server, NEW inum, EndOpen(res, server, inum)
  PROVE  PriorityInv'
BY PriorityNumbers DEF PriorityInv, EndOpen, NoRequest

(* The answer to a request ends it.                                        *)
LEMMA AnswerRestores ==
  ASSUME PriorityInv, req # NoRequest, NEW f, Answer(f)
  PROVE  PriorityInv'
<1>1. PICK res, server, inum : EndOpen(res, server, inum)
  BY DEF Answer
<1> QED
  BY <1>1, EndOpenRestores

(* One name further on the path, the request is still one.                 *)
LEMMA StepToKeeps ==
  ASSUME PriorityInv, req # NoRequest, NEW d, StepTo(d), UNCHANGED prio
  PROVE  PriorityInv'
<1>1. "at" \in DOMAIN req' /\ req'.at = req.at + 1
  BY DEF StepTo, PriorityInv
<1>2. req' # NoRequest
  BY <1>1 DEF NoRequest, PriorityInv
<1> QED
  BY <1>1, <1>2 DEF PriorityInv

(* Every step of the service, of its commands and of the programs.         *)
LEMMA PriorityStep == PriorityInv /\ [FsNext]_fsVars => PriorityInv'
<1> SUFFICES ASSUME PriorityInv, [FsNext]_fsVars PROVE PriorityInv'
  OBVIOUS
<1>1. CASE AtaDeviceCreateFails \/ AtaDeviceCreate
  <2>1. UNCHANGED req /\ prio' = Lower(Raise(prio))
    BY <1>1 DEF AtaDeviceCreateFails, AtaDeviceCreate
  <2>2. Lower(Raise(prio)) = prio
    BY DEF PriorityInv, Raise, Lower, NormalPriority, MaxPriority
  <2> QED
    BY <2>1, <2>2 DEF PriorityInv
<1>2. CASE IpcServerCreate \/ Listen
  BY <1>2 DEF IpcServerCreate, Listen, PriorityInv
<1>3. ASSUME NEW p \in Procs, RequestConnectAgain(p) PROVE PriorityInv'
  BY <1>3 DEF RequestConnectAgain, PriorityInv
<1>4. ASSUME NEW p \in Procs, NEW i \in Ids, RequestConnect(p, i) \/ RequestConnectFails(p, i)
      PROVE PriorityInv'
  BY <1>4 DEF RequestConnect, RequestConnectFails, PriorityInv
<1>5. ASSUME NEW p \in Procs, RequestOpenFileUnknown(p) PROVE PriorityInv'
  BY <1>5, PriorityNumbers DEF RequestOpenFileUnknown, Serving, PriorityInv
<1>6. ASSUME NEW p \in Procs, NEW path \in Paths, NEW share \in ShareModes,
             RequestOpenFile(p, path, share)
      PROVE PriorityInv'
  BY <1>6, PriorityNumbers DEF RequestOpenFile, Serving, PriorityInv, NoRequest
<1>7. CASE Terminate
  BY <1>7 DEF Terminate, PriorityInv
<1>8. CASE WalkDots \/ WalkDirectory
  <2>1. req # NoRequest /\ UNCHANGED prio /\ \E d : StepTo(d)
    BY <1>8 DEF WalkDots, WalkDirectory, Walking
  <2> QED
    BY <2>1, StepToKeeps
<1>9. CASE WalkFile
  <2>1. req # NoRequest /\ \E f : Answer(f)
    BY <1>9 DEF WalkFile, Walking
  <2> QED
    BY <2>1, AnswerRestores
<1>10. CASE WalkNotFound \/ WalkReadFails
  <2>1. req # NoRequest /\ \E res, server, inum : EndOpen(res, server, inum)
    BY <1>10 DEF WalkNotFound, WalkReadFails, Walking
  <2> QED
    BY <2>1, EndOpenRestores
<1>11. CASE WalkEnd
  <2>1. req # NoRequest
    BY <1>11 DEF WalkEnd
  <2>2. Answer(Root) \/ EndOpen("nofile", None, RootInode)
    BY <1>11 DEF WalkEnd
  <2> QED
    BY <2>1, <2>2, AnswerRestores, EndOpenRestores
<1>12. ASSUME NEW i \in Ids, CreateServer(i) PROVE PriorityInv'
  BY <1>12 DEF CreateServer, PriorityInv
<1>13. ASSUME NEW p \in Procs, FsOpenFile(p) PROVE PriorityInv'
  BY <1>13 DEF FsOpenFile, FsInit, PriorityInv
<1>14. CASE UNCHANGED fsVars
  BY <1>14 DEF fsVars, PriorityInv
<1> QED
  BY <1>1, <1>2, <1>3, <1>4, <1>5, <1>6, <1>7, <1>8, <1>9, <1>10, <1>11, <1>12, <1>13, <1>14
  DEF FsNext, Command, Walk

(* A program that is initialised has just created the server that no one   *)
(* had; nobody gives a name back.                                          *)
LEMMA NameStep == NameInv /\ [FsNext]_fsVars => NameInv'
<1> SUFFICES ASSUME NameInv, [FsNext]_fsVars PROVE NameInv'
  OBVIOUS
<1>1. ASSUME NEW p \in Procs, FsOpenFile(p) PROVE NameInv'
  <2>1. /\ TimeId \notin servers /\ TimeId \in servers'
        /\ init' = [init EXCEPT ![p] = TRUE]
    BY <1>1 DEF FsOpenFile, FsInit
  <2>2. \A q \in Procs : ~init[q]
    BY <2>1 DEF NameInv
  <2>3. \A q \in Procs : init'[q] => q = p
    BY <2>1, <2>2 DEF NameInv
  <2>4. init' \in [Procs -> BOOLEAN]
    BY <2>1 DEF NameInv
  <2> QED
    BY <2>1, <2>3, <2>4 DEF NameInv, OneIsInitialised
<1>2. ASSUME NEW i \in Ids, CreateServer(i) PROVE NameInv'
  BY <1>2 DEF CreateServer, NameInv, OneIsInitialised
<1>3. ASSUME UNCHANGED clientVars PROVE NameInv'
  BY <1>3 DEF clientVars, NameInv, OneIsInitialised
<1>4. AtaDeviceCreateFails \/ AtaDeviceCreate \/ IpcServerCreate \/ Listen => UNCHANGED clientVars
  BY DEF AtaDeviceCreateFails, AtaDeviceCreate, IpcServerCreate, Listen
<1>5. Command => UNCHANGED clientVars
  BY DEF Command, RequestConnectAgain, RequestConnect, RequestConnectFails,
     RequestOpenFileUnknown, RequestOpenFile, Terminate
<1>6. Walk => UNCHANGED clientVars
  BY DEF Walk, WalkDots, WalkDirectory, WalkFile, WalkNotFound, WalkReadFails, WalkEnd
<1>7. UNCHANGED fsVars => UNCHANGED clientVars
  BY DEF fsVars, clientVars
<1> QED
  BY <1>1, <1>2, <1>3, <1>4, <1>5, <1>6, <1>7 DEF FsNext

-----------------------------------------------------------------------------
(* A set of numbers that is not empty has a smallest one.                  *)
LEMMA FirstExists ==
  ASSUME NEW T, T \subseteq Nat, T # {}
  PROVE  \E k \in T : \A l \in T : k <= l
<1> DEFINE R == OpToRel(<, Nat)
<1>1. IsWellFoundedOn(R, Nat)
  BY NatLessThanWellFounded, Zenon
<1>2. \A l, k \in Nat : l < k => <<l, k>> \in R
  BY DEF OpToRel
<1> HIDE DEF R
<1>3. PICK k \in T : \A l \in T : ~(<<l, k>> \in R)
  BY <1>1, WFMin
<1>4. \A l \in T : ~(l < k)
  BY <1>2, <1>3
<1>5. k \in Nat /\ \A l \in T : l \in Nat /\ k <= l
  BY <1>4
<1> QED
  BY <1>5

(* What Append does, for a sequence of something.                          *)
LEMMA AppendedTo ==
  ASSUME NEW s, IsSequence(s), NEW e
  PROVE  /\ IsSequence(Append(s, e))
         /\ Len(s) \in Nat /\ DOMAIN s = 1 .. Len(s)
         /\ DOMAIN Append(s, e) = 1 .. Len(s) + 1
         /\ Append(s, e)[Len(s) + 1] = e
         /\ \A k \in DOMAIN s : Append(s, e)[k] = s[k]
<1>1. PICK S : s \in Seq(S)
  BY DEF IsSequence
<1>2. s \in Seq(S \cup {e})
  BY <1>1
<1>3. Append(s, e) \in Seq(S \cup {e})
  BY <1>2
<1> QED
  BY <1>2, <1>3 DEF IsSequence

(* The entry that LookForFileEntryFromFilePtr finds is the oldest one.     *)
LEMMA OldestEntry ==
  ASSUME IsSequence(fileEntries), NEW f
  PROVE  LET k == LookForFileEntryFromFilePtr(f)
         IN  \/ k = 0 /\ \A l \in DOMAIN fileEntries : fileEntries[l].file # f
             \/ /\ k \in DOMAIN fileEntries /\ fileEntries[k].file = f
                /\ \A l \in DOMAIN fileEntries : fileEntries[l].file = f => k <= l
<1> DEFINE found == {k \in DOMAIN fileEntries : fileEntries[k].file = f}
<1>1. found \subseteq Nat
  BY DEF IsSequence
<1>2. found # {} => \E k \in found : \A l \in found : k <= l
  BY <1>1, FirstExists
<1> QED
  BY <1>2 DEF LookForFileEntryFromFilePtr

(* An answer appends an entry for a file that nobody has open, or whose    *)
(* oldest entry shares reads.                                              *)
LEMMA AnswerSole ==
  ASSUME SoleInv, NEW f, Answer(f)
  PROVE  SoleInv'
<1> DEFINE k0 == LookForFileEntryFromFilePtr(f)
           e == NewFileEntry(f)
           n == Len(fileEntries)
<1>1. IsSequence(fileEntries)
  BY DEF SoleInv
<1>2. \/ UNCHANGED fileEntries
      \/ fileEntries' = Append(fileEntries, e) /\ (k0 = 0 \/ fileEntries[k0].share = "read")
  BY DEF Answer, IsFileAccessible
<1>3. CASE UNCHANGED fileEntries
  BY <1>3 DEF SoleInv
<1>4. CASE fileEntries' = Append(fileEntries, e) /\ (k0 = 0 \/ fileEntries[k0].share = "read")
  <2>1. /\ IsSequence(fileEntries')
        /\ n \in Nat /\ DOMAIN fileEntries = 1 .. n /\ DOMAIN fileEntries' = 1 .. n + 1
        /\ fileEntries'[n + 1] = e /\ \A k \in 1 .. n : fileEntries'[k] = fileEntries[k]
    BY <1>1, <1>4, AppendedTo
  <2>2. e.file = f
    BY DEF NewFileEntry
  <2> SUFFICES ASSUME NEW j \in DOMAIN fileEntries', NEW k \in DOMAIN fileEntries',
                      j < k, fileEntries'[j].file = fileEntries'[k].file,
                      \A l \in DOMAIN fileEntries' :
                        fileEntries'[l].file = fileEntries'[j].file => j <= l
               PROVE  fileEntries'[j].share = "read"
    BY <2>1 DEF SoleInv
  <2>3. j \in 1 .. n /\ fileEntries'[j] = fileEntries[j]
    BY <2>1
  <2>4. \A l \in 1 .. n : fileEntries[l].file = fileEntries[j].file => j <= l
    BY <2>1, <2>3
  <2>5. CASE k \in 1 .. n
    BY <2>1, <2>3, <2>4, <2>5 DEF SoleInv
  <2>6. CASE k = n + 1
    <3>1. fileEntries[j].file = f
      BY <2>1, <2>2, <2>3, <2>6
    <3>2. k0 \in 1 .. n /\ fileEntries[k0].file = f /\ k0 <= j
      BY <1>1, <2>1, <2>3, <3>1, OldestEntry
    <3>3. k0 = j
      BY <2>3, <2>4, <3>1, <3>2
    <3> QED
      BY <1>4, <2>3, <3>2, <3>3
  <2> QED
    BY <2>1, <2>5, <2>6
<1> QED
  BY <1>2, <1>3, <1>4

(* Only an answer touches the entries.                                     *)
LEMMA SoleStep == SoleInv /\ [FsNext]_fsVars => SoleInv'
<1> SUFFICES ASSUME SoleInv, [FsNext]_fsVars PROVE SoleInv'
  OBVIOUS
<1>1. ASSUME UNCHANGED fileEntries PROVE SoleInv'
  BY <1>1 DEF SoleInv
<1>2. AtaDeviceCreateFails \/ AtaDeviceCreate \/ IpcServerCreate \/ Listen => UNCHANGED fileEntries
  BY DEF AtaDeviceCreateFails, AtaDeviceCreate, IpcServerCreate, Listen
<1>3. Command => UNCHANGED fileEntries
  BY DEF Command, RequestConnectAgain, RequestConnect, RequestConnectFails,
     RequestOpenFileUnknown, RequestOpenFile, Terminate
<1>4. WalkDots \/ WalkDirectory \/ WalkNotFound \/ WalkReadFails => UNCHANGED fileEntries
  BY DEF WalkDots, WalkDirectory, WalkNotFound, WalkReadFails
<1>5. WalkFile \/ WalkEnd => UNCHANGED fileEntries \/ \E f : Answer(f)
  BY DEF WalkFile, WalkEnd
<1>6. \A i \in Ids : CreateServer(i) => UNCHANGED fileEntries
  BY DEF CreateServer
<1>7. \A p \in Procs : FsOpenFile(p) => UNCHANGED fileEntries
  BY DEF FsOpenFile, FsInit
<1>8. UNCHANGED fsVars => UNCHANGED fileEntries
  BY DEF fsVars
<1> QED
  BY <1>1, <1>2, <1>3, <1>4, <1>5, <1>6, <1>7, <1>8, AnswerSole DEF FsNext, Walk

(* The entry that LookForProcessFromHandle finds while none was freed.     *)
LEMMA ListedEntry ==
  ASSUME IsSequence(processes), NoneFreed, NEW p, NEW k \in LookForProcessFromHandle(p)
  PROVE  IF k = 0 THEN \A l \in DOMAIN processes : processes[l].handle # p
                  ELSE k \in DOMAIN processes /\ processes[k].handle = p
<1> DEFINE found == {l \in DOMAIN processes : processes[l].handle = p}
           first == IF found = {} THEN 0 ELSE CHOOSE l \in found : \A m \in found : l <= m
<1>1. DOMAIN processes \subseteq Nat \ {0}
  BY DEF IsSequence
<1>2. found # {} => \E l \in found : \A m \in found : l <= m
  BY <1>1, FirstExists
<1>3. found # {} => first \in found
  BY <1>2
<1>4. k = first
  BY DEF LookForProcessFromHandle, NoneFreed
<1> QED
  BY <1>1, <1>3, <1>4

(* A new entry and a new name, for a process that had none.                *)
LEMMA ConnectListed ==
  ASSUME ListedInv, NEW p \in Procs, NEW i \in Ids, RequestConnect(p, i)
  PROVE  ListedInv'
<1> DEFINE e == [CreateProcessEntry(p) EXCEPT !.server = i]
           n == Len(processes)
<1>1. /\ processes' = Append(processes, e)
      /\ named' = [named EXCEPT ![p] = i]
      /\ req = NoRequest /\ UNCHANGED req /\ last' = NoAnswer
  BY DEF RequestConnect, Serving
<1>2. e.handle = p /\ e.server = i /\ ~e.freed
  BY DEF CreateProcessEntry
<1>3. IsSequence(processes)
  BY DEF ListedInv
<1>4. /\ IsSequence(processes')
      /\ n \in Nat /\ DOMAIN processes = 1 .. n /\ DOMAIN processes' = 1 .. n + 1
      /\ processes'[n + 1] = e /\ \A k \in 1 .. n : processes'[k] = processes[k]
  BY <1>1, <1>3, AppendedTo
<1>5. named' \in [Procs -> Ids \cup {None}]
  BY <1>1 DEF ListedInv
<1>6. ASSUME NoneFreed'
      PROVE  /\ \A k \in DOMAIN processes' : \A q \in Procs :
                  processes'[k].handle = q => processes'[k].server = named'[q] /\ named'[q] # None
             /\ \A q \in Procs :
                  named'[q] # None => \E k \in DOMAIN processes' : processes'[k].handle = q
  <2>1. NoneFreed
    BY <1>4, <1>6 DEF NoneFreed
  <2>2. \A k \in 1 .. n : processes[k].handle # p
    BY <1>3, <1>4, <2>1, ListedEntry DEF RequestConnect
  <2>3. named'[p] = i /\ i # None /\ \A q \in Procs \ {p} : named'[q] = named[q]
    BY <1>1, FsAssumption DEF ListedInv
  <2> HIDE DEF e, n
  <2>4. ASSUME NEW k \in 1 .. n + 1, NEW q \in Procs, processes'[k].handle = q
        PROVE  processes'[k].server = named'[q] /\ named'[q] # None
    <3>1. CASE k = n + 1
      BY <1>2, <1>4, <2>3, <2>4, <3>1
    <3>2. CASE k \in 1 .. n
      <4>1. q # p /\ processes[k].handle = q /\ processes'[k] = processes[k]
        BY <1>4, <2>2, <2>4, <3>2
      <4> QED
        BY <1>4, <2>1, <2>3, <3>2, <4>1 DEF ListedInv
    <3> QED
      BY <1>4, <3>1, <3>2
  <2>5. ASSUME NEW q \in Procs, named'[q] # None
        PROVE  \E k \in 1 .. n + 1 : processes'[k].handle = q
    <3>1. CASE q = p
      BY <1>2, <1>4, <3>1
    <3>2. CASE q # p
      <4>1. PICK k \in 1 .. n : processes[k].handle = q
        BY <1>4, <2>1, <2>3, <2>5, <3>2 DEF ListedInv
      <4> QED
        BY <1>4, <4>1
    <3> QED
      BY <3>1, <3>2
  <2> QED
    BY <1>4, <2>4, <2>5
<1>7. last'.res = "none"
  BY <1>1 DEF NoAnswer
<1> QED
  BY <1>1, <1>4, <1>5, <1>6, <1>7 DEF ListedInv

(* An entry that was freed stays in the list, and ListedInv says nothing   *)
(* any more.                                                               *)
LEMMA ConnectAgainListed ==
  ASSUME ListedInv, NEW p \in Procs, RequestConnectAgain(p)
  PROVE  ListedInv'
<1> DEFINE gone == [handle |-> None, server |-> None, freed |-> TRUE]
<1>1. PICK k \in LookForProcessFromHandle(p) \ {0} : processes' = [processes EXCEPT ![k] = gone]
  BY DEF RequestConnectAgain
<1>2. PICK S : processes \in Seq(S)
  BY DEF ListedInv, IsSequence
<1>3. k \in DOMAIN processes
  <2> DEFINE found == {l \in DOMAIN processes : processes[l].handle = p}
  <2>1. found \subseteq Nat
    BY <1>2
  <2>2. found # {} => \E l \in found : \A m \in found : l <= m
    BY <2>1, FirstExists
  <2> QED
    BY <2>2 DEF LookForProcessFromHandle
<1>4. processes' \in Seq(S \cup {gone}) /\ DOMAIN processes' = DOMAIN processes
  <2>1. processes \in Seq(S \cup {gone})
    BY <1>2
  <2> QED
    BY <1>1, <1>3, <2>1
<1>5. processes'[k].freed
  BY <1>1, <1>3
<1>6. ~NoneFreed'
  BY <1>3, <1>4, <1>5 DEF NoneFreed
<1>7. req = NoRequest /\ UNCHANGED <<req, named>>
  BY DEF RequestConnectAgain, Serving
<1> QED
  BY <1>4, <1>6, <1>7 DEF ListedInv, IsSequence

(* The request has the entry of its process, and keeps it on its way.      *)
LEMMA OpenListed ==
  ASSUME ListedInv, NEW p \in Procs, NEW path, NEW share, RequestOpenFile(p, path, share)
  PROVE  ListedInv'
<1>1. PICK k \in LookForProcessFromHandle(p) \ {0} :
        req' = [proc |-> p, entry |-> k, path |-> path, share |-> share, at |-> 1, dir |-> Root]
  BY DEF RequestOpenFile
<1>2. IsSequence(processes) /\ UNCHANGED listVars /\ last' = NoAnswer
  BY DEF RequestOpenFile, ListedInv
<1>3. k \in DOMAIN processes
  <2> DEFINE found == {l \in DOMAIN processes : processes[l].handle = p}
  <2>1. found \subseteq Nat
    BY <1>2 DEF IsSequence
  <2>2. found # {} => \E l \in found : \A m \in found : l <= m
    BY <2>1, FirstExists
  <2> QED
    BY <2>2 DEF LookForProcessFromHandle
<1>4. NoneFreed => processes[k].handle = p
  BY <1>2, ListedEntry
<1>5. last'.res = "none"
  BY <1>2 DEF NoAnswer
<1> QED
  BY <1>1, <1>2, <1>3, <1>4, <1>5 DEF ListedInv, listVars, NoneFreed

(* However a request ends: no answer, or one to the server of its entry.   *)
LEMMA EndListed ==
  ASSUME ListedInv, req # NoRequest, UNCHANGED listVars,
         NEW res, NEW server, NEW inum, EndOpen(res, server, inum),
         res \in {"ok", "denied"} /\ ~processes[req.entry].freed =>
           server = processes[req.entry].server
  PROVE  ListedInv'
<1>1. /\ req' = NoRequest
      /\ last'.res = res /\ last'.proc = req.proc /\ last'.server = server
  BY DEF EndOpen
<1>2. req'.at \in Nat /\ {"proc", "entry", "at", "dir"} \subseteq DOMAIN req'
  BY <1>1 DEF NoRequest
<1>3. ASSUME NoneFreed, res \in {"ok", "denied"} PROVE last'.server = named[last'.proc]
  BY <1>1, <1>3 DEF ListedInv, NoneFreed
<1> QED
  BY <1>1, <1>2, <1>3 DEF ListedInv, listVars, NoneFreed

(* The answer goes to the server of the entry.                             *)
LEMMA AnswerListed ==
  ASSUME ListedInv, req # NoRequest, UNCHANGED listVars, NEW f, Answer(f)
  PROVE  ListedInv'
<1> DEFINE entry == processes[req.entry]
<1>1. PICK res, server, inum :
        /\ EndOpen(res, server, inum)
        /\ ~entry.freed => server = entry.server
  <2>1. PICK server \in IF entry.freed THEN Ids \cup {None} ELSE {entry.server} :
          \E res, inum : EndOpen(res, server, inum)
    BY DEF Answer
  <2> QED
    BY <2>1
<1> QED
  BY <1>1, EndListed

(* Every step of the service, of its commands and of the programs.         *)
LEMMA ListedStep == ListedInv /\ [FsNext]_fsVars => ListedInv'
<1> SUFFICES ASSUME ListedInv, [FsNext]_fsVars PROVE ListedInv'
  OBVIOUS
<1>1. ASSUME UNCHANGED <<listVars, req>>, last' \in {last, NoAnswer} PROVE ListedInv'
  <2>1. last' = last \/ last'.res = "none"
    BY <1>1 DEF NoAnswer
  <2> QED
    BY <1>1, <2>1 DEF ListedInv, listVars, NoneFreed
<1>2. CASE AtaDeviceCreateFails \/ AtaDeviceCreate \/ IpcServerCreate \/ Listen \/ Terminate
  BY <1>1, <1>2 DEF AtaDeviceCreateFails, AtaDeviceCreate, IpcServerCreate, Listen, Terminate
<1>3. ASSUME NEW p \in Procs, NEW i \in Ids, RequestConnectFails(p, i) PROVE ListedInv'
  BY <1>1, <1>3 DEF RequestConnectFails
<1>4. ASSUME NEW p \in Procs, RequestOpenFileUnknown(p) PROVE ListedInv'
  BY <1>1, <1>4 DEF RequestOpenFileUnknown
<1>5. CASE WalkDots \/ WalkDirectory
  <2>1. req # NoRequest /\ UNCHANGED <<listVars, last>>
    BY <1>5 DEF WalkDots, WalkDirectory, Walking
  <2>2. PICK d : req' = [req EXCEPT !.at = req.at + 1, !.dir = d]
    BY <1>5 DEF WalkDots, WalkDirectory, StepTo
  <2>3. /\ req'.proc = req.proc /\ req'.entry = req.entry /\ req'.at = req.at + 1
        /\ DOMAIN req' = DOMAIN req
    BY <2>2 DEF ListedInv
  <2> QED
    BY <2>1, <2>3 DEF ListedInv, listVars, NoneFreed
<1>6. CASE WalkFile
  BY <1>6, AnswerListed DEF WalkFile, Walking
<1>7. CASE WalkNotFound \/ WalkReadFails
  <2>1. /\ req # NoRequest /\ UNCHANGED listVars
        /\ EndOpen("notfound", None, RootInode) \/ EndOpen("io", None, RootInode)
    BY <1>7 DEF WalkNotFound, WalkReadFails, Walking
  <2> QED
    BY <2>1, EndListed
<1>8. CASE WalkEnd
  <2>1. /\ req # NoRequest /\ UNCHANGED listVars
        /\ Answer(Root) \/ EndOpen("nofile", None, RootInode)
    BY <1>8 DEF WalkEnd
  <2> QED
    BY <2>1, EndListed, AnswerListed
<1>9. ASSUME NEW i \in Ids, CreateServer(i) PROVE ListedInv'
  BY <1>1, <1>9 DEF CreateServer
<1>10. ASSUME NEW p \in Procs, FsOpenFile(p) PROVE ListedInv'
  BY <1>1, <1>10 DEF FsOpenFile, FsInit
<1>11. CASE UNCHANGED fsVars
  BY <1>1, <1>11 DEF fsVars, listVars
<1> QED
  BY <1>2, <1>3, <1>4, <1>5, <1>6, <1>7, <1>8, <1>9, <1>10, <1>11,
     ConnectListed, ConnectAgainListed, OpenListed
  DEF FsNext, Command, Walk

-----------------------------------------------------------------------------
(* Between commands the service is at its normal priority, whatever read   *)
(* of the disk failed and whatever path was asked for (RequestOpenFile).   *)
THEOREM FsPriorityRestored == FsSpec => []PriorityRestored
<1>1. FsStart => PriorityInv
  BY DEF FsStart, PriorityInv, NoRequest
<1>2. PriorityInv => PriorityRestored
  BY DEF PriorityInv, PriorityRestored
<1> QED
  BY <1>1, <1>2, PriorityStep, PTL DEF FsSpec

(* At most one program of a build is ever initialised (FsInit).            *)
THEOREM FsOneIsInitialised == FsSpec => []OneIsInitialised
<1>1. FsStart => NameInv
  BY DEF FsStart, NameInv, OneIsInitialised
<1>2. NameInv => OneIsInitialised
  BY DEF NameInv
<1> QED
  BY <1>1, <1>2, NameStep, PTL DEF FsSpec

(* A file whose oldest entry does not share reads is open once             *)
(* (RequestOpenFile, IsFileAccessible), however many files are open.       *)
THEOREM FsSoleWhenNotShared == FsSpec => []SoleWhenNotShared
<1>1. FsStart => SoleInv
  BY DEF FsStart, SoleInv, IsSequence
<1>2. SoleInv => SoleWhenNotShared
  <2> SUFFICES ASSUME SoleInv, NEW j \in DOMAIN fileEntries, NEW k \in DOMAIN fileEntries,
                      j # k, fileEntries[j].file = fileEntries[k].file,
                      j = LookForFileEntryFromFilePtr(fileEntries[j].file)
               PROVE  fileEntries[j].share = "read"
    BY DEF SoleWhenNotShared
  <2>1. j \in Nat /\ k \in Nat
    BY DEF SoleInv, IsSequence
  <2>2. \A l \in DOMAIN fileEntries : fileEntries[l].file = fileEntries[j].file => j <= l
    BY OldestEntry DEF SoleInv
  <2>3. j < k
    BY <2>1, <2>2
  <2> QED
    BY <2>2, <2>3 DEF SoleInv
<1> QED
  BY <1>1, <1>2, SoleStep, PTL DEF FsSpec

(* As long as no process has connected twice, the entry of a process is    *)
(* found exactly when its connect request succeeded, and what it opens is  *)
(* answered to the server that request named (RequestConnect,              *)
(* RequestOpenFile).                                                       *)
THEOREM FsAnswersReachRequester == FsSpec => []AnswersReachRequester
<1>1. FsStart => ListedInv
  BY DEF FsStart, ListedInv, IsSequence, NoRequest, NoAnswer
<1>2. ListedInv => AnswersReachRequester
  <2> SUFFICES ASSUME ListedInv, NoneFreed,
                      NEW p \in Procs, NEW k \in LookForProcessFromHandle(p)
               PROVE  IF k = 0 THEN named[p] = None
                      ELSE processes[k].server = named[p] /\ named[p] # None
    BY DEF AnswersReachRequester, NoneFreed, ListedInv
  <2>1. IF k = 0 THEN \A l \in DOMAIN processes : processes[l].handle # p
                 ELSE k \in DOMAIN processes /\ processes[k].handle = p
    BY ListedEntry DEF ListedInv
  <2> QED
    BY <2>1 DEF ListedInv
<1> QED
  BY <1>1, <1>2, ListedStep, PTL DEF FsSpec

-----------------------------------------------------------------------------
(* The objects of the tree, and the paths that lead to them.               *)
Names == {"/"} \cup (UNION {DOMAIN Entries[d] : d \in DOMAIN Entries})
Objects == [inum : Inodes, name : Names, parent : Nat, opened : BOOLEAN]
PathType == [names : Seq(STRING), slash : BOOLEAN]

(* The files C and the leaf lists L are a tree that agrees with the disk.  *)
TreeOK(C, L) ==
  /\ C \in Seq(Objects) /\ L \in Seq(Seq(Nat)) /\ Len(L) = Len(C)
  /\ \A f \in 1 .. Len(C) : C[f].parent \in 1 .. Len(C)
  /\ \A d \in 1 .. Len(C) : \A k \in 1 .. Len(L[d]) :
       /\ L[d][k] \in 1 .. Len(C)
       /\ C[L[d][k]].parent = d
       /\ C[d].inum \in DOMAIN Entries
       /\ C[L[d][k]].name \in DOMAIN Entries[C[d].inum]
       /\ C[L[d][k]].inum = Entries[C[d].inum][C[L[d][k]].name]
  /\ \A d \in 1 .. Len(C) : \A j, k \in 1 .. Len(L[d]) :
       C[L[d][j]].name = C[L[d][k]].name => j = k

(* Name n of directory d has its object; every name has.                   *)
Has(C, L, d, n) == \E k \in 1 .. Len(L[d]) : C[L[d][k]].name = n

Full(C, L, d) ==
  C[d].inum \in DOMAIN Entries => \A n \in DOMAIN Entries[C[d].inum] : Has(C, L, d, n)

(* Nothing of the tree is lost, when the files are D and their lists M.    *)
Kept(C, L, D, M) ==
  /\ Len(C) <= Len(D)
  /\ \A i \in 1 .. Len(C) :
       /\ D[i].inum = C[i].inum /\ D[i].parent = C[i].parent
       /\ \A n : Has(C, L, i, n) => Has(D, M, i, n)

(* The objects os lead from the root to d, their names were all read, and  *)
(* their inodes are trail.                                                 *)
OnWay(C, L, os, d, trail) ==
  /\ os \in Seq(Nat) /\ Len(os) >= 1 /\ os[1] = Root /\ os[Len(os)] = d
  /\ \A i \in 1 .. Len(os) : os[i] \in 1 .. Len(C) /\ Full(C, L, os[i])
  /\ \A i \in 1 .. Len(os) - 1 : C[os[i + 1]].parent = os[i]
  /\ trail \in Seq(Inodes) /\ Len(trail) = Len(os)
  /\ \A i \in 1 .. Len(os) : trail[i] = C[os[i]].inum

(* t has the trail of each beginning of names.                             *)
IsTrail(t, names) ==
  t = [n \in 0 .. Len(names) |-> IF n = 0 THEN <<RootInode>> ELSE Follow(t[n - 1], names[n])]

Trails(names) == CHOOSE t : IsTrail(t, names)

(* The last answer agrees with the disk.                                   *)
AnswerOK ==
  LET names == last.path.names
      end == Trail(names)
      dots == names # <<>> /\ names[Len(names)] \in {".", ".."}
  IN /\ last.res \in {"ok", "denied"} => end # <<>> /\ last.inum = end[Len(end)] /\ ~dots
     /\ last.res = "notfound" => end = <<>> \/ dots

(* The tree agrees with the disk, and its root is complete, once the       *)
(* service is up.                                                          *)
TreeInv ==
  /\ TreeOK(cache, leaves)
  /\ stage \in {"start", "up", "listening", "ended", "failed"}
  /\ stage \in {"start", "failed"} => cache = <<>> /\ fileEntries = <<>> /\ req = NoRequest
  /\ stage \notin {"start", "failed"} =>
       /\ Len(cache) >= 1 /\ cache[Root].parent = Root /\ cache[Root].inum = RootInode
       /\ Full(cache, leaves, Root)
  /\ IsSequence(fileEntries) /\ Len(fileEntries) <= MaxFiles
  /\ \A k \in DOMAIN fileEntries : fileEntries[k].file \in 1 .. Len(cache)

(* A request in progress has followed its path on the disk so far.         *)
PathInv ==
  /\ DOMAIN req = {"proc", "entry", "path", "share", "at", "dir"}
  /\ req # NoRequest =>
       /\ Len(fileEntries) < MaxFiles
       /\ req.path \in PathType /\ req.at \in 1 .. Len(req.path.names) + 1
       /\ \E os : OnWay(cache, leaves, os, req.dir, Trails(req.path.names)[req.at - 1])

MatchInv == TreeInv /\ PathInv /\ AnswerOK

(* The bounds of the model are kept.                                       *)
BoundedInv == servers \subseteq Ids /\ Len(processes) <= MaxProcesses

-----------------------------------------------------------------------------
(* There is a function with the trails of all beginnings of a path.        *)
LEMMA TrailsExist ==
  ASSUME NEW names \in Seq(STRING)
  PROVE  \E t : IsTrail(t, names)
<1> DEFINE Solves(t, m) ==
             t = [n \in 0 .. m |-> IF n = 0 THEN <<RootInode>> ELSE Follow(t[n - 1], names[n])]
           T == {m \in Nat : ~\E t : Solves(t, m)}
<1>1. T = {}
  <2> SUFFICES ASSUME T # {} PROVE FALSE
    OBVIOUS
  <2>1. PICK m \in T : \A l \in T : m <= l
    BY FirstExists
  <2>2. CASE m = 0
    <3> DEFINE t == [n \in 0 .. 0 |-> <<RootInode>>]
    <3>1. Solves(t, 0)
      OBVIOUS
    <3> QED
      BY <2>1, <2>2, <3>1
  <2>3. CASE m # 0
    <3>1. m \in Nat /\ m - 1 \in Nat /\ ~(m <= m - 1)
      BY <2>1, <2>3
    <3>2. PICK t : Solves(t, m - 1)
      BY <2>1, <3>1
    <3>3. /\ t[0] = <<RootInode>>
          /\ \A n \in 1 .. m - 1 : t[n] = Follow(t[n - 1], names[n])
      BY <3>1, <3>2
    <3> DEFINE u == [n \in 0 .. m |-> IF n = m THEN Follow(t[m - 1], names[m]) ELSE t[n]]
    <3>4. \A n \in 0 .. m : u[n] = IF n = 0 THEN <<RootInode>> ELSE Follow(u[n - 1], names[n])
      <4> TAKE n \in 0 .. m
      <4>1. CASE n = 0
        BY <2>3, <3>1, <3>3, <4>1
      <4>2. CASE n # 0 /\ n # m
        <5>1. n \in 1 .. m - 1 /\ n - 1 \in 0 .. m /\ n - 1 # m
          BY <3>1, <4>2
        <5>2. u[n] = t[n] /\ u[n - 1] = t[n - 1]
          BY <4>2, <5>1
        <5> QED
          BY <3>3, <4>2, <5>1, <5>2
      <4>3. CASE n # 0 /\ n = m
        <5>1. m - 1 \in 0 .. m /\ m - 1 # m
          BY <3>1
        <5>2. u[m - 1] = t[m - 1]
          BY <5>1
        <5> QED
          BY <4>3, <5>2
      <4> QED
        BY <4>1, <4>2, <4>3
    <3>5. Solves(u, m)
      <4> HIDE DEF u
      <4>1. u = [n \in 0 .. m |-> u[n]]
        BY DEF u
      <4> QED
        BY <3>4, <4>1
    <3> QED
      BY <2>1, <3>5
  <2> QED
    BY <2>2, <2>3
<1>2. Len(names) \in Nat
  OBVIOUS
<1>3. PICK t : Solves(t, Len(names))
  BY <1>1, <1>2
<1> QED
  BY <1>3 DEF IsTrail

(* What Trail computes.                                                    *)
LEMMA TrailsAre ==
  ASSUME NEW names \in Seq(STRING)
  PROVE  /\ Trails(names)[0] = <<RootInode>>
         /\ \A n \in 1 .. Len(names) : Trails(names)[n] = Follow(Trails(names)[n - 1], names[n])
         /\ Trail(names) = Trails(names)[Len(names)]
<1>1. PICK t : t = Trails(names)
  OBVIOUS
<1>2. IsTrail(t, names)
  BY <1>1, TrailsExist DEF Trails
<1>3. Len(names) \in Nat
  OBVIOUS
<1>4. t[0] = <<RootInode>> /\ \A n \in 1 .. Len(names) : t[n] = Follow(t[n - 1], names[n])
  BY <1>2, <1>3 DEF IsTrail
<1>5. Trail(names) = Trails(names)[Len(names)]
  BY DEF Trail, Trails, IsTrail
<1> QED
  BY <1>1, <1>4, <1>5

(* A path that leads nowhere half way leads nowhere.                       *)
LEMMA NowhereStays ==
  ASSUME NEW names \in Seq(STRING), NEW n \in 0 .. Len(names), Trails(names)[n] = <<>>
  PROVE  Trail(names) = <<>>
<1> DEFINE T == {m \in n .. Len(names) : Trails(names)[m] # <<>>}
<1>0. Len(names) \in Nat /\ n \in Nat
  OBVIOUS
<1>1. T = {}
  <2> SUFFICES ASSUME T # {} PROVE FALSE
    OBVIOUS
  <2>0. T \subseteq Nat
    BY <1>0
  <2> HIDE DEF T
  <2>1. PICK m \in T : \A l \in T : m <= l
    BY <2>0, FirstExists
  <2> USE DEF T
  <2>2. m \in 1 .. Len(names) /\ m - 1 \in n .. Len(names) /\ ~(m <= m - 1)
    BY <1>0, <2>1
  <2>3. Trails(names)[m - 1] = <<>>
    BY <2>1, <2>2
  <2>4. Trails(names)[m] = Follow(<<>>, names[m])
    BY <2>2, <2>3, TrailsAre
  <2> QED
    BY <2>1, <2>4 DEF Follow
<1>2. Len(names) \in n .. Len(names)
  BY <1>0
<1> QED
  BY <1>1, <1>2, TrailsAre

-----------------------------------------------------------------------------
(* The order in which names get their objects has each of them once.       *)
LEMMA NamesOrdered ==
  ASSUME NEW new, IsFiniteSet(new)
  PROVE  LET n == Cardinality(new)
             s == InOrder(new)
         IN
         /\ n \in Nat /\ s \in [1 .. n -> new]
         /\ \A i, j \in 1 .. n : i # j => s[i] # s[j]
         /\ \A x \in new : \E k \in 1 .. n : s[k] = x
<1> DEFINE n == Cardinality(new)
           s == InOrder(new)
<1>1. n \in Nat /\ ExistsBijection(1 .. n, new)
  BY FS_CardinalityType
<1> HIDE DEF n
<1> DEFINE F == [1 .. n -> new]
           Q(r) == \A i, j \in DOMAIN r : i # j => r[i] # r[j]
<1>2. \E r \in F : Q(r)
  BY <1>1 DEF ExistsBijection, Bijection, Injection, IsInjective
<1>3. s = CHOOSE r \in F : Q(r)
  BY DEF InOrder, n
<1>4. s \in F /\ Q(s)
  <2> HIDE DEF F, Q
  <2> QED
    BY <1>2, <1>3
<1>5. s \in Injection(1 .. n, new)
  BY <1>4 DEF Injection, IsInjective
<1>6. Cardinality(1 .. n) = n
  BY <1>1, FS_Interval
<1>7. s \in Surjection(1 .. n, new)
  <2>1. Cardinality(1 .. n) = Cardinality(new)
    BY <1>6 DEF n
  <2> QED
    BY <1>5, <2>1, FS_Injection, FS_Interval, <1>1
<1>8. \A x \in new : \E k \in 1 .. n : s[k] = x
  <2> HIDE DEF s
  <2> QED
    BY <1>7 DEF Surjection
<1> QED
  BY <1>1, <1>4, <1>8 DEF n

(* What a tree is made of.                                                 *)
LEMMA TreeParts ==
  ASSUME NEW C, NEW L, TreeOK(C, L)
  PROVE  C \in Seq(Objects) /\ L \in Seq(Seq(Nat)) /\ Len(L) = Len(C) /\ Len(C) \in Nat
<1>1. C \in Seq(Objects) /\ L \in Seq(Seq(Nat)) /\ Len(L) = Len(C)
  BY Zenon DEF TreeOK
<1> QED
  BY <1>1

(* Each object of a leaf list is an entry of its directory on the disk.    *)
LEMMA TreeLeaves ==
  ASSUME NEW C, NEW L, TreeOK(C, L)
  PROVE  \A d \in 1 .. Len(C) : \A k \in 1 .. Len(L[d]) :
           /\ L[d][k] \in 1 .. Len(C) /\ C[L[d][k]].parent = d /\ C[d].inum \in DOMAIN Entries
           /\ C[L[d][k]].name \in DOMAIN Entries[C[d].inum]
           /\ C[L[d][k]].inum = Entries[C[d].inum][C[L[d][k]].name]
<1> TAKE d \in 1 .. Len(C)
<1> TAKE k \in 1 .. Len(L[d])
<1>1. \A j \in 1 .. Len(L[d]) :
         /\ L[d][j] \in 1 .. Len(C)
         /\ C[L[d][j]].parent = d
         /\ C[d].inum \in DOMAIN Entries
         /\ C[L[d][j]].name \in DOMAIN Entries[C[d].inum]
         /\ C[L[d][j]].inum = Entries[C[d].inum][C[L[d][j]].name]
  BY Zenon DEF TreeOK
<1> QED
  BY <1>1, Zenon

(* Objects and leaf lists of which all this is known are a tree.           *)
LEMMA TreeMade ==
  ASSUME NEW C \in Seq(Objects), NEW L \in Seq(Seq(Nat)), Len(L) = Len(C),
         \A i \in 1 .. Len(C) : C[i].parent \in 1 .. Len(C),
         \A e \in 1 .. Len(C) : \A k \in 1 .. Len(L[e]) :
            /\ L[e][k] \in 1 .. Len(C)
            /\ C[L[e][k]].parent = e
            /\ C[e].inum \in DOMAIN Entries
            /\ C[L[e][k]].name \in DOMAIN Entries[C[e].inum]
            /\ C[L[e][k]].inum = Entries[C[e].inum][C[L[e][k]].name],
         \A e \in 1 .. Len(C) : \A j, k \in 1 .. Len(L[e]) :
            C[L[e][j]].name = C[L[e][k]].name => j = k
  PROVE  TreeOK(C, L)
BY Zenon DEF TreeOK

(* The sizes of a tree and of what it becomes.                             *)
LEMMA KeptSizes ==
  ASSUME NEW C, NEW L, NEW D, NEW M, TreeOK(C, L), TreeOK(D, M), Kept(C, L, D, M)
  PROVE  Len(C) \in Nat /\ Len(D) \in Nat /\ Len(C) <= Len(D)
<1>1. Len(C) <= Len(D)
  BY Zenon DEF Kept
<1> QED
  BY <1>1, TreeParts

(* Two sequences behind each other.                                        *)
LEMMA Joined ==
  ASSUME NEW S, NEW a \in Seq(S), NEW b \in Seq(S)
  PROVE  /\ Len(a) \in Nat /\ Len(b) \in Nat
         /\ a \o b \in Seq(S) /\ Len(a \o b) = Len(a) + Len(b)
         /\ \A i \in 1 .. Len(a) : (a \o b)[i] = a[i]
         /\ \A k \in 1 .. Len(b) : (a \o b)[Len(a) + k] = b[k]
  OBVIOUS

(* One element of a sequence is replaced.                                  *)
LEMMA Replaced ==
  ASSUME NEW S, NEW a \in Seq(S), NEW d \in 1 .. Len(a), NEW e \in S
  PROVE  /\ [a EXCEPT ![d] = e] \in Seq(S) /\ Len([a EXCEPT ![d] = e]) = Len(a)
         /\ \A i \in 1 .. Len(a) : [a EXCEPT ![d] = e][i] = IF i = d THEN e ELSE a[i]
  OBVIOUS

(* What BrowsedIs says of the new objects and leaf lists, for names that   *)
(* the disk has and the directory had not yet.                             *)
Grown(C, L, D, M, c, d, inum, new, n, s, h, l) ==
  /\ \A i, j \in 1 .. n : i # j => s[i] # s[j]
  /\ \A x \in new : \E k \in 1 .. n : s[k] = x
  /\ Len(h) = n + Len(l)
  /\ \A k \in 1 .. n : h[k] = c + n + 1 - k
  /\ \A k \in 1 .. Len(l) : h[n + k] = l[k]
  /\ Len(D) = c + n /\ Len(M) = c + n
  /\ \A i \in 1 .. c : D[i].inum = C[i].inum /\ D[i].name = C[i].name /\ D[i].parent = C[i].parent
  /\ \A k \in 1 .. n : /\ D[c + k].inum = Entries[inum][s[k]] /\ D[c + k].name = s[k]
                       /\ D[c + k].parent = d
  /\ M[d] = h
  /\ \A i \in 1 .. c : i # d => M[i] = L[i]
  /\ \A k \in 1 .. n : M[c + k] = <<>>

(* What Browsed is: the names new have an object each, behind the others,  *)
(* and the last one is the first of the leaf list.                         *)
LEMMA BrowsedIs ==
  ASSUME NEW C \in Seq(Objects), NEW L \in Seq(Seq(Nat)), Len(L) = Len(C),
         NEW c \in Nat, c = Len(C), NEW d \in 1 .. c, NEW f \in Objects, NEW inum, f.inum = inum,
         inum = C[d].inum, f.name = C[d].name, f.parent = C[d].parent,
         NEW new, IsFiniteSet(new),
         \A x \in new : x \in Names /\ Entries[inum][x] \in Inodes,
         NEW D, D = Browsed(C, L, d, f, new).cache,
         NEW M, M = Browsed(C, L, d, f, new).leaves
  PROVE  /\ D \in Seq(Objects) /\ M \in Seq(Seq(Nat))
         /\ \E n \in Nat : \E s \in [1 .. n -> new], h \in Seq(Nat) :
              Grown(C, L, D, M, c, d, inum, new, n, s, h, L[d])
<1>1. PICK n : n = Cardinality(new)
  OBVIOUS
<1>2. PICK s : s = InOrder(new)
  OBVIOUS
<1>3. /\ n \in Nat /\ s \in [1 .. n -> new]
      /\ \A i, j \in 1 .. n : i # j => s[i] # s[j]
      /\ \A x \in new : \E k \in 1 .. n : s[k] = x
  <2>1. IsFiniteSet(new)
    OBVIOUS
  <2> QED
    <3>1. /\ n \in Nat
          /\ InOrder(new) \in [1 .. n -> new]
          /\ \A i, j \in 1 .. n : i # j => InOrder(new)[i] # InOrder(new)[j]
          /\ \A x \in new : \E k \in 1 .. n : InOrder(new)[k] = x
      BY ONLY <1>1, <2>1, NamesOrdered
    <3> QED
      BY <1>2, <3>1, Zenon
<1> DEFINE fresh == [k \in 1 .. n |-> FileObject(Entries[inum][s[k]], s[k], d)]
           heads == [k \in 1 .. n |-> Len(C) + n + 1 - k]
           none == [k \in 1 .. n |-> <<>>]
           E == [C EXCEPT ![d] = f]
           h == heads \o L[d]
           K == [L EXCEPT ![d] = h]
<1>5. D = E \o fresh /\ M = K \o none
  BY <1>1, <1>2 DEF Browsed
<1>10. fresh \in Seq(Objects) /\ Len(fresh) = n
  <2>2. \A k \in 1 .. n : FileObject(Entries[inum][s[k]], s[k], d) \in Objects
    BY <1>3 DEF Objects, FileObject
  <2> QED
    BY <1>3, <2>2
<1>11. heads \in Seq(Nat) /\ Len(heads) = n /\ \A k \in 1 .. n : heads[k] = c + n + 1 - k
  <2>1. n \in Nat /\ \A k \in 1 .. n : Len(C) + n + 1 - k \in Nat
    BY <1>3
  <2>2. \A k \in 1 .. n : heads[k] = c + n + 1 - k
    OBVIOUS
  <2>3. heads \in [1 .. n -> Nat]
    BY <2>1
  <2> QED
    BY <2>1, <2>2, <2>3
<1>12. none \in Seq(Seq(Nat)) /\ Len(none) = n /\ \A k \in 1 .. n : none[k] = <<>>
  BY <1>3
<1>13. \A k \in 1 .. n : fresh[k] = FileObject(Entries[inum][s[k]], s[k], d)
  OBVIOUS
<1> HIDE DEF fresh, heads, none
<1>14. L[d] \in Seq(Nat)
  OBVIOUS
<1>15. /\ h \in Seq(Nat) /\ Len(h) = n + Len(L[d])
       /\ \A k \in 1 .. n : h[k] = c + n + 1 - k
       /\ \A k \in 1 .. Len(L[d]) : h[n + k] = L[d][k]
  <2>1. /\ h \in Seq(Nat) /\ Len(h) = n + Len(L[d])
        /\ \A k \in 1 .. n : h[k] = heads[k]
        /\ \A k \in 1 .. Len(L[d]) : h[n + k] = L[d][k]
    <3>1. PICK l \in Seq(Nat) : l = L[d]
      BY <1>14
    <3>2. /\ heads \o l \in Seq(Nat) /\ Len(heads \o l) = n + Len(l)
          /\ \A k \in 1 .. n : (heads \o l)[k] = heads[k]
          /\ \A k \in 1 .. Len(l) : (heads \o l)[n + k] = l[k]
      <4>1. PICK a \in Seq(Nat) : a = heads
        BY <1>11
      <4>2. /\ a \o l \in Seq(Nat) /\ Len(a \o l) = Len(a) + Len(l)
            /\ \A i \in 1 .. Len(a) : (a \o l)[i] = a[i]
            /\ \A k \in 1 .. Len(l) : (a \o l)[Len(a) + k] = l[k]
        BY Joined
      <4> QED
        BY <1>11, <4>1, <4>2
    <3> QED
      BY <3>1, <3>2
  <2> QED
    BY <1>11, <2>1
<1> HIDE DEF h
<1>16. E \in Seq(Objects) /\ Len(E) = c /\ \A i \in 1 .. c : E[i] = IF i = d THEN f ELSE C[i]
  BY Replaced
<1>17. K \in Seq(Seq(Nat)) /\ Len(K) = c /\ \A i \in 1 .. c : K[i] = IF i = d THEN h ELSE L[i]
  BY <1>15, Replaced
<1> HIDE DEF E, K
<1>18. /\ E \o fresh \in Seq(Objects) /\ Len(E \o fresh) = c + n
       /\ \A i \in 1 .. c : (E \o fresh)[i] = E[i]
       /\ \A k \in 1 .. n : (E \o fresh)[c + k] = fresh[k]
  <2>1. PICK a \in Seq(Objects) : a = E
    BY <1>16
  <2>2. PICK b \in Seq(Objects) : b = fresh
    BY <1>10
  <2>3. /\ a \o b \in Seq(Objects) /\ Len(a \o b) = Len(a) + Len(b)
        /\ \A i \in 1 .. Len(a) : (a \o b)[i] = a[i]
        /\ \A k \in 1 .. Len(b) : (a \o b)[Len(a) + k] = b[k]
    BY Joined
  <2>4. Len(a) = c /\ Len(b) = n
    BY <1>10, <1>16, <2>1, <2>2
  <2> QED
    BY <2>1, <2>2, <2>3, <2>4
<1>19. /\ K \o none \in Seq(Seq(Nat)) /\ Len(K \o none) = c + n
       /\ \A i \in 1 .. c : (K \o none)[i] = K[i]
       /\ \A k \in 1 .. n : (K \o none)[c + k] = none[k]
  <2>1. PICK a \in Seq(Seq(Nat)) : a = K
    BY <1>17
  <2>2. PICK b \in Seq(Seq(Nat)) : b = none
    BY <1>12
  <2>3. /\ a \o b \in Seq(Seq(Nat)) /\ Len(a \o b) = Len(a) + Len(b)
        /\ \A i \in 1 .. Len(a) : (a \o b)[i] = a[i]
        /\ \A k \in 1 .. Len(b) : (a \o b)[Len(a) + k] = b[k]
    BY Joined
  <2>4. Len(a) = c /\ Len(b) = n
    BY <1>12, <1>17, <2>1, <2>2
  <2> QED
    BY <2>1, <2>2, <2>3, <2>4
<1>20. /\ D \in Seq(Objects) /\ Len(D) = c + n
       /\ \A i \in 1 .. c : D[i] = IF i = d THEN f ELSE C[i]
       /\ \A k \in 1 .. n : D[c + k] = FileObject(Entries[inum][s[k]], s[k], d)
  <2>1. PICK a : a = E \o fresh
    OBVIOUS
  <2>2. /\ a \in Seq(Objects) /\ Len(a) = c + n
        /\ \A i \in 1 .. c : a[i] = IF i = d THEN f ELSE C[i]
        /\ \A k \in 1 .. n : a[c + k] = FileObject(Entries[inum][s[k]], s[k], d)
    BY <1>13, <1>16, <1>18, <2>1
  <2> QED
    BY <1>5, <2>1, <2>2
<1>21. /\ M \in Seq(Seq(Nat)) /\ Len(M) = c + n
       /\ \A i \in 1 .. c : M[i] = IF i = d THEN h ELSE L[i]
       /\ \A k \in 1 .. n : M[c + k] = <<>>
  <2>1. PICK a : a = K \o none
    OBVIOUS
  <2>2. /\ a \in Seq(Seq(Nat)) /\ Len(a) = c + n
        /\ \A i \in 1 .. c : a[i] = IF i = d THEN h ELSE L[i]
        /\ \A k \in 1 .. n : a[c + k] = <<>>
    BY <1>12, <1>17, <1>19, <2>1
  <2> QED
    BY <1>5, <2>1, <2>2
<1>22. \A i \in 1 .. c : D[i].inum = C[i].inum /\ D[i].name = C[i].name /\ D[i].parent = C[i].parent
  BY <1>20
<1>23. \A k \in 1 .. n : /\ D[c + k].inum = Entries[inum][s[k]] /\ D[c + k].name = s[k]
                         /\ D[c + k].parent = d
  <2> TAKE k \in 1 .. n
  <2>1. D[c + k] = FileObject(Entries[inum][s[k]], s[k], d)
    BY <1>20
  <2> QED
    BY <2>1 DEF FileObject
<1>24. M[d] = h /\ \A i \in 1 .. c : i # d => M[i] = L[i]
  BY <1>21
<1>25. Grown(C, L, D, M, c, d, inum, new, n, s, h, L[d])
  BY <1>3, <1>15, <1>20, <1>21, <1>22, <1>23, <1>24 DEF Grown
<1> QED
  BY <1>3, <1>15, <1>20, <1>21, <1>25

(* The names new were added to directory d of a tree: it is still a tree,  *)
(* nothing is lost, and the names are there.                               *)
LEMMA TreeGrows ==
  ASSUME NEW C, NEW L, TreeOK(C, L), NEW c \in Nat, c = Len(C), NEW d \in 1 .. c,
         NEW l \in Seq(Nat), l = L[d], NEW inum, inum = C[d].inum,
         NEW new,
         \A x \in new : inum \in DOMAIN Entries /\ x \in DOMAIN Entries[inum] /\ ~Has(C, L, d, x),
         NEW D \in Seq(Objects), NEW M \in Seq(Seq(Nat)),
         NEW n \in Nat, NEW s \in [1 .. n -> new], NEW h \in Seq(Nat),
         Grown(C, L, D, M, c, d, inum, new, n, s, h, l)
  PROVE  /\ TreeOK(D, M) /\ Kept(C, L, D, M)
         /\ \A x \in new : Has(D, M, d, x)
<1>1. Len(l) \in Nat
  OBVIOUS
<1>2. \A k \in 1 .. n : s[k] \in new
  OBVIOUS
<1>3. /\ \A i, j \in 1 .. n : i # j => s[i] # s[j]
      /\ \A x \in new : \E k \in 1 .. n : s[k] = x
  BY DEF Grown
<1>9. \A k \in 1 .. n : inum \in DOMAIN Entries /\ s[k] \in DOMAIN Entries[inum]
  BY <1>2
<1>15. /\ Len(h) = n + Len(l)
       /\ \A k \in 1 .. n : h[k] = c + n + 1 - k
       /\ \A k \in 1 .. Len(l) : h[n + k] = l[k]
  BY DEF Grown
<1>21. Len(D) = c + n /\ Len(M) = c + n
  BY DEF Grown
<1>22. /\ M[d] = h
       /\ \A i \in 1 .. c : i # d => M[i] = L[i]
       /\ \A k \in 1 .. n : M[c + k] = <<>>
  BY DEF Grown
<1>23. \A i \in 1 .. c : D[i].inum = C[i].inum /\ D[i].name = C[i].name /\ D[i].parent = C[i].parent
  BY DEF Grown
<1>24. D[d].inum = inum
  BY <1>23
<1>25. \A k \in 1 .. n : /\ D[c + k].inum = Entries[inum][s[k]] /\ D[c + k].name = s[k]
                         /\ D[c + k].parent = d
  BY DEF Grown
<1>33. \A i \in 1 .. c + n : i \in 1 .. c \/ \E k \in 1 .. n : i = c + k
  <2> TAKE i \in 1 .. c + n
  <2>1. CASE i > c
    <3>1. i - c \in 1 .. n /\ i = c + (i - c)
      BY <2>1
    <3> QED
      BY <3>1
  <2> QED
    BY <2>1
<1>34. \A i \in 1 .. c : i \in 1 .. c + n
  BY <1>1
(* The leaves of the tree as it was, and the new ones.                     *)
<1>26. \A e \in 1 .. c : \A k \in 1 .. Len(L[e]) :
          /\ L[e][k] \in 1 .. c /\ C[L[e][k]].parent = e /\ C[e].inum \in DOMAIN Entries
          /\ C[L[e][k]].name \in DOMAIN Entries[C[e].inum]
          /\ C[L[e][k]].inum = Entries[C[e].inum][C[L[e][k]].name]
  <2>1. \A e \in 1 .. Len(C) : \A k \in 1 .. Len(L[e]) :
          /\ L[e][k] \in 1 .. Len(C) /\ C[L[e][k]].parent = e /\ C[e].inum \in DOMAIN Entries
          /\ C[L[e][k]].name \in DOMAIN Entries[C[e].inum]
          /\ C[L[e][k]].inum = Entries[C[e].inum][C[L[e][k]].name]
    <3> TAKE e \in 1 .. Len(C)
    <3> TAKE k \in 1 .. Len(L[e])
    <3>1. \A j \in 1 .. Len(L[e]) :
             /\ L[e][j] \in 1 .. Len(C)
             /\ C[L[e][j]].parent = e
             /\ C[e].inum \in DOMAIN Entries
             /\ C[L[e][j]].name \in DOMAIN Entries[C[e].inum]
             /\ C[L[e][j]].inum = Entries[C[e].inum][C[L[e][j]].name]
      BY Zenon DEF TreeOK
    <3> QED
      BY <3>1, Zenon
  <2> QED
    BY <2>1
<1>27. \A e \in 1 .. c : \A j, k \in 1 .. Len(L[e]) : C[L[e][j]].name = C[L[e][k]].name => j = k
  BY DEF TreeOK
<1>28. \A k \in 1 .. Len(l) : /\ l[k] \in 1 .. c /\ D[l[k]].name = C[l[k]].name
                              /\ \A x \in new : C[l[k]].name # x
  BY <1>23, <1>24, <1>26 DEF Has
<1>29. \A k \in 1 .. n : /\ n + 1 - k \in 1 .. n /\ h[k] = c + (n + 1 - k)
                         /\ D[h[k]].name = s[n + 1 - k]
  <2> TAKE k \in 1 .. n
  <2>1. h[k] = c + n + 1 - k
    BY <1>15
  <2>2. n + 1 - k \in 1 .. n /\ c + n + 1 - k = c + (n + 1 - k)
    OBVIOUS
  <2>3. D[c + (n + 1 - k)].name = s[n + 1 - k]
    BY <1>25, <2>2
  <2> QED
    BY <2>1, <2>2, <2>3
<1>30. \A k \in 1 .. Len(h) : k \in 1 .. n \/ (\E j \in 1 .. Len(l) : k = n + j)
  <2> TAKE k \in 1 .. Len(h)
  <2>1. Len(l) \in Nat /\ k \in 1 .. n + Len(l)
    BY <1>15
  <2>2. CASE k > n
    <3>1. k - n \in 1 .. Len(l) /\ k = n + (k - n)
      BY <2>1, <2>2
    <3> QED
      BY <3>1
  <2> QED
    BY <2>1, <2>2
<1>31. \A k \in 1 .. Len(h) :
          /\ h[k] \in 1 .. c + n /\ D[h[k]].parent = d /\ inum \in DOMAIN Entries
          /\ D[h[k]].name \in DOMAIN Entries[inum]
          /\ D[h[k]].inum = Entries[inum][D[h[k]].name]
  <2> TAKE k \in 1 .. Len(h)
  <2>1. CASE k \in 1 .. n
    <3>1. PICK j \in 1 .. n : h[k] = c + j
      BY <1>29, <2>1
    <3>2. h[k] \in 1 .. c + n
      BY <3>1
    <3>3. /\ D[h[k]].inum = Entries[inum][s[j]] /\ D[h[k]].name = s[j]
          /\ D[h[k]].parent = d
      BY <1>25, <3>1
    <3>4. inum \in DOMAIN Entries /\ s[j] \in DOMAIN Entries[inum]
      BY <1>9
    <3> QED
      BY <3>2, <3>3, <3>4
  <2>2. ASSUME NEW j \in 1 .. Len(l), k = n + j PROVE
          /\ h[k] \in 1 .. c + n /\ D[h[k]].parent = d /\ inum \in DOMAIN Entries
          /\ D[h[k]].name \in DOMAIN Entries[inum]
          /\ D[h[k]].inum = Entries[inum][D[h[k]].name]
    <3>1. h[k] = l[j] /\ l[j] \in 1 .. c
      BY <1>15, <1>28, <2>2
    <3>2. l[j] \in 1 .. c + n
      BY <1>34, <3>1
    <3>3. PICK o : o = l[j]
      OBVIOUS
    <3>4. /\ C[o].parent = d /\ inum \in DOMAIN Entries
          /\ C[o].name \in DOMAIN Entries[inum]
          /\ C[o].inum = Entries[inum][C[o].name]
      <4>1. d \in 1 .. c /\ j \in 1 .. Len(L[d])
        OBVIOUS
      <4>2. /\ C[L[d][j]].parent = d /\ C[d].inum \in DOMAIN Entries
            /\ C[L[d][j]].name \in DOMAIN Entries[C[d].inum]
            /\ C[L[d][j]].inum = Entries[C[d].inum][C[L[d][j]].name]
        BY <1>26, <4>1, Zenon
      <4> QED
        BY <3>3, <4>2
    <3>5. D[o].inum = C[o].inum /\ D[o].name = C[o].name /\ D[o].parent = C[o].parent
      BY <1>23, <3>1, <3>3
    <3> QED
      BY <3>1, <3>2, <3>3, <3>4, <3>5
  <2> QED
    BY <1>30, <2>1, <2>2
<1>32. \A j, k \in 1 .. Len(h) : D[h[j]].name = D[h[k]].name => j = k
  <2> TAKE j, k \in 1 .. Len(h)
  <2>0. HAVE D[h[j]].name = D[h[k]].name
  <2>1. CASE j \in 1 .. n /\ k \in 1 .. n
    <3>1. s[n + 1 - j] = s[n + 1 - k] /\ n + 1 - j \in 1 .. n /\ n + 1 - k \in 1 .. n
      BY <1>29, <2>0, <2>1
    <3>2. n + 1 - j = n + 1 - k
      BY <1>3, <3>1
    <3> QED
      BY <2>1, <3>2
  <2>2. ASSUME NEW i \in 1 .. Len(l), j \in 1 .. n, k = n + i PROVE FALSE
    <3>1. D[h[j]].name \in new
      BY <1>2, <1>29, <2>2
    <3>2. h[k] = l[i] /\ D[l[i]].name = C[l[i]].name /\ C[l[i]].name \notin new
      BY <1>15, <1>28, <2>2
    <3> QED
      BY <2>0, <3>1, <3>2
  <2>3. ASSUME NEW i \in 1 .. Len(l), k \in 1 .. n, j = n + i PROVE FALSE
    <3>1. D[h[k]].name \in new
      BY <1>2, <1>29, <2>3
    <3>2. h[j] = l[i] /\ D[l[i]].name = C[l[i]].name /\ C[l[i]].name \notin new
      BY <1>15, <1>28, <2>3
    <3> QED
      BY <2>0, <3>1, <3>2
  <2>4. ASSUME NEW i \in 1 .. Len(l), NEW m \in 1 .. Len(l), j = n + i, k = n + m PROVE j = k
    <3>1. C[l[i]].name = C[l[m]].name
      <4>1. h[j] = l[i] /\ h[k] = l[m]
        BY <1>15, <2>4
      <4>2. D[l[i]].name = C[l[i]].name /\ D[l[m]].name = C[l[m]].name
        BY <1>28
      <4> QED
        BY <2>0, <4>1, <4>2
    <3> QED
      BY <1>24, <1>27, <2>4, <3>1
  <2> QED
    BY <1>30, <2>1, <2>2, <2>3, <2>4
(* The tree.                                                               *)
<1>35. \A i \in 1 .. c + n : D[i].parent \in 1 .. c + n
  <2>1. \A i \in 1 .. c : C[i].parent \in 1 .. c
    BY DEF TreeOK
  <2> TAKE i \in 1 .. c + n
  <2>2. CASE i \in 1 .. c
    BY <1>23, <1>34, <2>1, <2>2
  <2>3. ASSUME NEW k \in 1 .. n, i = c + k PROVE D[i].parent \in 1 .. c + n
    BY <1>25, <1>34, <2>3
  <2> QED
    BY <1>33, <2>2, <2>3
<1>36. \A e \in 1 .. c + n : \A k \in 1 .. Len(M[e]) :
          /\ M[e][k] \in 1 .. c + n /\ D[M[e][k]].parent = e /\ D[e].inum \in DOMAIN Entries
          /\ D[M[e][k]].name \in DOMAIN Entries[D[e].inum]
          /\ D[M[e][k]].inum = Entries[D[e].inum][D[M[e][k]].name]
  <2> TAKE e \in 1 .. c + n
  <2>1. CASE e = d
    BY <1>22, <1>24, <1>31, <2>1
  <2>2. CASE e \in 1 .. c /\ e # d
    <3>1. M[e] = L[e] /\ D[e].inum = C[e].inum
      BY <1>22, <1>23, <2>2
    <3> TAKE k \in 1 .. Len(M[e])
    <3>2. PICK i \in 1 .. c : i = L[e][k]
      BY <1>26, <2>2, <3>1
    <3>3. D[i].inum = C[i].inum /\ D[i].name = C[i].name /\ D[i].parent = C[i].parent
      BY <1>23
    <3>4. /\ C[i].parent = e /\ C[e].inum \in DOMAIN Entries
          /\ C[i].name \in DOMAIN Entries[C[e].inum]
          /\ C[i].inum = Entries[C[e].inum][C[i].name]
      <4>1. k \in 1 .. Len(L[e])
        BY <3>1
      <4>2. /\ C[L[e][k]].parent = e /\ C[e].inum \in DOMAIN Entries
            /\ C[L[e][k]].name \in DOMAIN Entries[C[e].inum]
            /\ C[L[e][k]].inum = Entries[C[e].inum][C[L[e][k]].name]
        BY <1>26, <2>2, <4>1, Zenon
      <4> QED
        BY <3>2, <4>2, Zenon
    <3> QED
      BY <1>34, <3>1, <3>2, <3>3, <3>4
  <2>3. ASSUME NEW i \in 1 .. n, e = c + i PROVE 1 .. Len(M[e]) = {}
    <3>1. M[e] = <<>>
      BY <1>22, <2>3
    <3> QED
      BY <3>1
  <2>4. CASE \E i \in 1 .. n : e = c + i
    BY <2>3, <2>4, Zenon
  <2> QED
    BY <1>33, <2>1, <2>2, <2>4
<1>37. \A e \in 1 .. c + n : \A j, k \in 1 .. Len(M[e]) : D[M[e][j]].name = D[M[e][k]].name => j = k
  <2> TAKE e \in 1 .. c + n
  <2>1. CASE e = d
    BY <1>22, <1>24, <1>32, <2>1
  <2>2. CASE e \in 1 .. c /\ e # d
    <3>1. M[e] = L[e]
      BY <1>22, <2>2
    <3>2. \A k \in 1 .. Len(L[e]) : D[L[e][k]].name = C[L[e][k]].name
      BY <1>23, <1>26, <2>2
    <3> QED
      BY <1>27, <2>2, <3>1, <3>2
  <2>3. ASSUME NEW i \in 1 .. n, e = c + i PROVE 1 .. Len(M[e]) = {}
    <3>1. M[e] = <<>>
      BY <1>22, <2>3
    <3> QED
      BY <3>1
  <2>4. CASE \E i \in 1 .. n : e = c + i
    BY <2>3, <2>4, Zenon
  <2> QED
    BY <1>33, <2>1, <2>2, <2>4
<1>38. TreeOK(D, M)
  <2>1. Len(M) = Len(D) /\ Len(D) = c + n
    BY <1>21
  <2>2. \A i \in 1 .. Len(D) : D[i].parent \in 1 .. Len(D)
    BY <1>35, <2>1
  <2>3. \A e \in 1 .. Len(D) : \A k \in 1 .. Len(M[e]) :
           /\ M[e][k] \in 1 .. Len(D) /\ D[M[e][k]].parent = e /\ D[e].inum \in DOMAIN Entries
           /\ D[M[e][k]].name \in DOMAIN Entries[D[e].inum]
           /\ D[M[e][k]].inum = Entries[D[e].inum][D[M[e][k]].name]
    BY <1>36, <2>1
  <2>4. \A e \in 1 .. Len(D) : \A j, k \in 1 .. Len(M[e]) :
           D[M[e][j]].name = D[M[e][k]].name => j = k
    BY <1>37, <2>1
  <2> QED
    BY <2>1, <2>2, <2>3, <2>4, TreeMade
<1>39. Kept(C, L, D, M)
  <2> SUFFICES ASSUME NEW i \in 1 .. c, NEW x, Has(C, L, i, x) PROVE Has(D, M, i, x)
    BY <1>21, <1>23 DEF Kept
  <2>1. PICK k \in 1 .. Len(L[i]) : C[L[i][k]].name = x
    BY DEF Has
  <2>2. D[L[i][k]].name = x
    BY <1>23, <1>26, <2>1
  <2>3. CASE i = d
    <3>1. k \in 1 .. Len(l) /\ n + k \in 1 .. Len(h) /\ h[n + k] = l[k]
      <4>1. k \in 1 .. Len(l)
        BY <2>1, <2>3
      <4>2. n + k \in 1 .. n + Len(l)
        BY <1>1, <4>1
      <4> QED
        BY <1>15, <4>1, <4>2
    <3> QED
      BY <1>22, <2>2, <2>3, <3>1 DEF Has
  <2>4. CASE i # d
    BY <1>22, <2>1, <2>2, <2>4 DEF Has
  <2> QED
    BY <2>3, <2>4
<1>40. \A x \in new : Has(D, M, d, x)
  <2> TAKE x \in new
  <2>1. PICK j \in 1 .. n : s[j] = x
    BY <1>3
  <2>2. n + 1 - j \in 1 .. n /\ n + 1 - (n + 1 - j) = j
    OBVIOUS
  <2>3. n + 1 - j \in 1 .. Len(h) /\ D[h[n + 1 - j]].name = x
    <3>1. n + 1 - j \in 1 .. n + Len(l)
      BY <1>1, <2>2
    <3>2. D[h[n + 1 - j]].name = s[n + 1 - (n + 1 - j)]
      BY <1>29, <2>2
    <3> QED
      BY <1>15, <2>1, <2>2, <3>1, <3>2
  <2> QED
    BY <1>22, <1>24, <2>3 DEF Has
<1> QED
  BY <1>38, <1>39, <1>40

(* The disk was read into directory d of a tree, now f, and the names new, *)
(* which d had not yet, were added.                                        *)
LEMMA BrowsedTree ==
  ASSUME NEW C, NEW L, TreeOK(C, L), NEW d \in 1 .. Len(C), NEW f \in Objects,
         f.inum = C[d].inum, f.name = C[d].name, f.parent = C[d].parent,
         NEW new, IsFiniteSet(new),
         \A x \in new : /\ C[d].inum \in DOMAIN Entries
                        /\ x \in DOMAIN Entries[C[d].inum] /\ ~Has(C, L, d, x)
  PROVE  LET D == Browsed(C, L, d, f, new).cache
             M == Browsed(C, L, d, f, new).leaves
         IN /\ TreeOK(D, M) /\ Kept(C, L, D, M)
            /\ \A x \in new : Has(D, M, d, x)
<1>1. PICK c \in Nat : c = Len(C)
  BY DEF TreeOK
<1>2. C \in Seq(Objects) /\ L \in Seq(Seq(Nat)) /\ Len(L) = Len(C) /\ d \in 1 .. c
  BY <1>1 DEF TreeOK
<1>3. PICK inum : inum = C[d].inum
  OBVIOUS
<1>4. \A x \in new : x \in Names /\ Entries[inum][x] \in Inodes
  <2> TAKE x \in new
  <2>1. inum \in DOMAIN Entries /\ x \in DOMAIN Entries[inum]
    BY <1>3
  <2>2. \A y \in DOMAIN Entries[inum] : Entries[inum][y] \in Inodes
    BY <2>1, TreeAssumption, Zenon
  <2>3. x \in Names
    BY <2>1, Zenon DEF Names
  <2>4. Entries[inum][x] \in Inodes
    BY <2>1, <2>2, Zenon
  <2> QED
    BY <2>3, <2>4
<1>5. PICK l \in Seq(Nat) : l = L[d]
  BY <1>1, <1>2
<1>6. PICK D, M : D = Browsed(C, L, d, f, new).cache /\ M = Browsed(C, L, d, f, new).leaves
  OBVIOUS
<1>7. /\ D \in Seq(Objects) /\ M \in Seq(Seq(Nat))
      /\ \E n \in Nat : \E s \in [1 .. n -> new], h \in Seq(Nat) :
           Grown(C, L, D, M, c, d, inum, new, n, s, h, L[d])
  BY <1>1, <1>2, <1>3, <1>4, <1>6, BrowsedIs
<1>8. PICK n \in Nat : \E s \in [1 .. n -> new], h \in Seq(Nat) : Grown(C, L, D, M, c, d, inum, new, n, s, h, l)
  BY <1>5, <1>7
<1>9. PICK s \in [1 .. n -> new], h \in Seq(Nat) : Grown(C, L, D, M, c, d, inum, new, n, s, h, l)
  BY <1>8
<1>11. \A x \in new : inum \in DOMAIN Entries /\ x \in DOMAIN Entries[inum] /\ ~Has(C, L, d, x)
  BY <1>3
<1>12. /\ TreeOK(D, M) /\ Kept(C, L, D, M)
       /\ \A x \in new : Has(D, M, d, x)
  BY <1>1, <1>2, <1>3, <1>5, <1>7, <1>9, <1>11, TreeGrows
<1> QED
  BY <1>6, <1>12

(* Only what a tree says of the contents of its files changes.             *)
LEMMA SameTree ==
  ASSUME NEW C, NEW L, TreeOK(C, L), NEW D \in Seq(Objects), Len(D) = Len(C),
         \A i \in 1 .. Len(C) :
            D[i].inum = C[i].inum /\ D[i].name = C[i].name /\ D[i].parent = C[i].parent
  PROVE  TreeOK(D, L) /\ Kept(C, L, D, L)
<1>1. PICK c \in Nat : c = Len(C)
  BY DEF TreeOK
<1>2. C \in Seq(Objects) /\ L \in Seq(Seq(Nat)) /\ Len(L) = c
  BY <1>1 DEF TreeOK
<1>4. Len(D) = c
  BY <1>1
<1>5. \A i \in 1 .. c : D[i].inum = C[i].inum /\ D[i].name = C[i].name /\ D[i].parent = C[i].parent
  BY <1>1
<1>6. \A i \in 1 .. c : C[i].parent \in 1 .. c
  BY <1>1 DEF TreeOK
<1>7. \A e \in 1 .. c : \A k \in 1 .. Len(L[e]) :
        /\ L[e][k] \in 1 .. c /\ C[L[e][k]].parent = e /\ C[e].inum \in DOMAIN Entries
        /\ C[L[e][k]].name \in DOMAIN Entries[C[e].inum]
        /\ C[L[e][k]].inum = Entries[C[e].inum][C[L[e][k]].name]
  BY <1>1, TreeLeaves
<1>8. \A e \in 1 .. c : \A j, k \in 1 .. Len(L[e]) : C[L[e][j]].name = C[L[e][k]].name => j = k
  BY <1>1 DEF TreeOK
<1>9. \A e \in 1 .. c : \A k \in 1 .. Len(L[e]) :
        /\ L[e][k] \in 1 .. c /\ D[L[e][k]].parent = e /\ D[e].inum \in DOMAIN Entries
        /\ D[L[e][k]].name \in DOMAIN Entries[D[e].inum]
        /\ D[L[e][k]].inum = Entries[D[e].inum][D[L[e][k]].name]
  <2> TAKE e \in 1 .. c
  <2> TAKE k \in 1 .. Len(L[e])
  <2>1. PICK i \in 1 .. c : i = L[e][k]
    BY <1>7
  <2>2. /\ C[i].parent = e /\ C[e].inum \in DOMAIN Entries
        /\ C[i].name \in DOMAIN Entries[C[e].inum]
        /\ C[i].inum = Entries[C[e].inum][C[i].name]
    BY <1>7, <2>1
  <2>3. D[i].inum = C[i].inum /\ D[i].name = C[i].name /\ D[i].parent = C[i].parent /\ D[e].inum = C[e].inum
    BY <1>5
  <2> QED
    BY <2>1, <2>2, <2>3
<1>10. \A e \in 1 .. c : \A j, k \in 1 .. Len(L[e]) : D[L[e][j]].name = D[L[e][k]].name => j = k
  <2> TAKE e \in 1 .. c
  <2>1. \A k \in 1 .. Len(L[e]) : D[L[e][k]].name = C[L[e][k]].name
    BY <1>5, <1>7
  <2> QED
    BY <1>8, <2>1
<1>11. TreeOK(D, L)
  <2>1. \A i \in 1 .. c : D[i].parent \in 1 .. c
    BY <1>5, <1>6
  <2>2. D \in Seq(Objects) /\ L \in Seq(Seq(Nat)) /\ Len(D) = c /\ Len(L) = Len(D)
    BY <1>2, <1>4
  <2>3. \A i \in 1 .. Len(D) : D[i].parent \in 1 .. Len(D)
    BY <2>1, <2>2
  <2>4. \A e \in 1 .. Len(D) : \A k \in 1 .. Len(L[e]) :
          /\ L[e][k] \in 1 .. Len(D)
          /\ D[L[e][k]].parent = e
          /\ D[e].inum \in DOMAIN Entries
          /\ D[L[e][k]].name \in DOMAIN Entries[D[e].inum]
          /\ D[L[e][k]].inum = Entries[D[e].inum][D[L[e][k]].name]
    <3> TAKE e \in 1 .. Len(D)
    <3>1. e \in 1 .. c /\ Len(D) = c
      BY <2>2
    <3>2. \A k \in 1 .. Len(L[e]) :
          /\ L[e][k] \in 1 .. c /\ D[L[e][k]].parent = e /\ D[e].inum \in DOMAIN Entries
          /\ D[L[e][k]].name \in DOMAIN Entries[D[e].inum]
          /\ D[L[e][k]].inum = Entries[D[e].inum][D[L[e][k]].name]
      BY <1>9, <3>1, Zenon
    <3> QED
      BY <3>1, <3>2, Zenon
  <2>5. \A e \in 1 .. Len(D) : \A j, k \in 1 .. Len(L[e]) : D[L[e][j]].name = D[L[e][k]].name => j = k
    BY <1>10, <2>2
  <2>6. D \in Seq(Objects)
    OBVIOUS
  <2>7. L \in Seq(Seq(Nat))
    BY <2>2
  <2>8. Len(L) = Len(D)
    BY <2>2
  <2> QED
    BY <2>3, <2>4, <2>5, <2>6, <2>7, <2>8, TreeMade, Zenon
<1>12. Kept(C, L, D, L)
  <2>1. \A i \in 1 .. c : \A n : Has(C, L, i, n) => Has(D, L, i, n)
    <3> TAKE i \in 1 .. c
    <3>1. \A k \in 1 .. Len(L[i]) : D[L[i][k]].name = C[L[i][k]].name
      BY <1>5, <1>7
    <3> QED
      BY <3>1, Zenon DEF Has
  <2> QED
    <3>1. Len(C) <= Len(D)
      BY <1>1, <1>4
    <3> QED
      BY <1>1, <1>5, <2>1, <3>1, Zenon DEF Kept
<1> QED
  BY <1>11, <1>12

(* OpenFile changes nothing of the tree.                                   *)
LEMMA OpenedTree ==
  ASSUME NEW C, NEW L, TreeOK(C, L), NEW f \in 1 .. Len(C),
         NEW D, D = [C EXCEPT ![f] = Opened(@)]
  PROVE  /\ TreeOK(D, L) /\ Kept(C, L, D, L)
<1>1. PICK c \in Nat : c = Len(C)
  BY DEF TreeOK
<1>2. C \in Seq(Objects) /\ L \in Seq(Seq(Nat)) /\ Len(L) = c /\ f \in 1 .. c
  BY <1>1 DEF TreeOK
<1>3. C[f] \in Objects /\ Opened(C[f]) \in Objects
      /\ Opened(C[f]).inum = C[f].inum /\ Opened(C[f]).name = C[f].name /\ Opened(C[f]).parent = C[f].parent
  <2>1. PICK o \in Objects : o = C[f]
    BY <1>1, <1>2
  <2>2. /\ Opened(o) \in Objects
        /\ Opened(o).inum = o.inum /\ Opened(o).name = o.name /\ Opened(o).parent = o.parent
    BY DEF Objects, Opened
  <2> QED
    BY <2>1, <2>2
<1>4. D \in Seq(Objects) /\ Len(D) = c /\ \A i \in 1 .. c : D[i] = IF i = f THEN Opened(C[f]) ELSE C[i]
  BY <1>1, <1>2, <1>3
<1>5. \A i \in 1 .. c : D[i].inum = C[i].inum /\ D[i].name = C[i].name /\ D[i].parent = C[i].parent
  BY <1>3, <1>4
<1>6. Len(D) = Len(C)
  BY <1>1, <1>4
<1>7. \A i \in 1 .. Len(C) :
         D[i].inum = C[i].inum /\ D[i].name = C[i].name /\ D[i].parent = C[i].parent
  BY <1>1, <1>5
<1>8. D \in Seq(Objects)
  BY <1>4
<1> QED
  BY <1>6, <1>7, <1>8, SameTree

-----------------------------------------------------------------------------
(* What the tree had is still there: all names of a directory that were    *)
(* read.                                                                   *)
LEMMA FullKept ==
  ASSUME NEW C, NEW L, NEW D, NEW M, Kept(C, L, D, M), NEW d \in 1 .. Len(C), Full(C, L, d)
  PROVE  Full(D, M, d)
BY Zenon DEF Kept, Full

(* The way to a directory is still there, too.                             *)
LEMMA WayKept ==
  ASSUME NEW C, NEW L, NEW D, NEW M, TreeOK(C, L), TreeOK(D, M), Kept(C, L, D, M),
         NEW os, NEW d, NEW t, OnWay(C, L, os, d, t)
  PROVE  OnWay(D, M, os, d, t)
<1>1. Len(C) \in Nat /\ Len(D) \in Nat /\ Len(C) <= Len(D)
  BY KeptSizes
<1>2. os \in Seq(Nat) /\ Len(os) \in Nat
  BY DEF OnWay
<1>3. \A i \in 1 .. Len(os) : os[i] \in 1 .. Len(C) /\ Full(C, L, os[i])
  BY DEF OnWay
<1>4. \A i \in 1 .. Len(os) : os[i] \in 1 .. Len(D) /\ Full(D, M, os[i])
  BY <1>1, <1>3, FullKept
<1>5. \A i \in 1 .. Len(C) : D[i].inum = C[i].inum /\ D[i].parent = C[i].parent
  BY DEF Kept
<1>6. \A i \in 1 .. Len(os) - 1 : i + 1 \in 1 .. Len(os)
  BY <1>2
<1>7. \A i \in 1 .. Len(os) - 1 : D[os[i + 1]].parent = os[i]
  BY <1>3, <1>5, <1>6 DEF OnWay
<1>8. \A i \in 1 .. Len(os) : t[i] = D[os[i]].inum
  BY <1>3, <1>5 DEF OnWay
<1> QED
  BY <1>4, <1>7, <1>8 DEF OnWay

(* The way begins at the root.                                             *)
LEMMA WayFromRoot ==
  ASSUME NEW C, NEW L, TreeOK(C, L), Len(C) >= 1, C[Root].inum = RootInode, Full(C, L, Root)
  PROVE  OnWay(C, L, <<Root>>, Root, <<RootInode>>)
<1>1. Root \in 1 .. Len(C)
  BY DEF TreeOK, Root
<1>2. <<Root>> \in Seq(Nat) /\ Len(<<Root>>) = 1 /\ <<Root>>[1] = Root
  BY DEF Root
<1>3. <<RootInode>> \in Seq(Inodes) /\ Len(<<RootInode>>) = 1 /\ <<RootInode>>[1] = RootInode
  BY FsAssumption
<1> QED
  BY <1>1, <1>2, <1>3 DEF OnWay

(* One directory further.                                                  *)
LEMMA WayDown ==
  ASSUME NEW C, NEW L, TreeOK(C, L), NEW os, NEW d, NEW t, OnWay(C, L, os, d, t),
         NEW e \in 1 .. Len(C), C[e].parent = d, Full(C, L, e)
  PROVE  OnWay(C, L, Append(os, e), e, Append(t, C[e].inum))
<1>1. C[e].inum \in Inodes /\ e \in Nat
  <2>1. C \in Seq(Objects) /\ Len(C) \in Nat
    BY DEF TreeOK
  <2>2. C[e] \in Objects
    BY <2>1
  <2> QED
    BY <2>1, <2>2 DEF Objects
<1>2. PICK n \in Nat : n = Len(os)
  BY DEF OnWay
<1>3. /\ os \in Seq(Nat) /\ n >= 1 /\ os[1] = Root /\ os[n] = d
      /\ t \in Seq(Inodes) /\ Len(t) = n
  BY <1>2 DEF OnWay
<1>4. /\ Append(os, e) \in Seq(Nat) /\ Len(Append(os, e)) = n + 1
      /\ Append(os, e)[n + 1] = e /\ \A i \in 1 .. n : Append(os, e)[i] = os[i]
  BY <1>1, <1>2, <1>3
<1>5. PICK inum \in Inodes : inum = C[e].inum
  BY <1>1
<1>6. /\ Append(t, inum) \in Seq(Inodes) /\ Len(Append(t, inum)) = n + 1
      /\ Append(t, inum)[n + 1] = inum /\ \A i \in 1 .. n : Append(t, inum)[i] = t[i]
  BY <1>3
<1>7. PICK o, u : o = Append(os, e) /\ u = Append(t, inum)
  OBVIOUS
<1>8. \A i \in 1 .. n + 1 : i \in 1 .. n \/ i = n + 1
  OBVIOUS
<1>9. \A i \in 1 .. n + 1 : o[i] \in 1 .. Len(C) /\ Full(C, L, o[i])
  BY <1>2, <1>4, <1>7, <1>8 DEF OnWay
<1>10. \A i \in 1 .. n : C[o[i + 1]].parent = o[i]
  <2> TAKE i \in 1 .. n
  <2>1. CASE i = n
    BY <1>3, <1>4, <1>7, <2>1
  <2>2. CASE i # n
    <3>1. i \in 1 .. Len(os) - 1 /\ i + 1 \in 1 .. n
      BY <1>2, <2>2
    <3>2. o[i] = os[i] /\ o[i + 1] = os[i + 1]
      BY <1>4, <1>7, <3>1
    <3>3. C[os[i + 1]].parent = os[i]
      BY <3>1 DEF OnWay
    <3> QED
      BY <3>2, <3>3
  <2> QED
    BY <2>1, <2>2
<1>11. \A i \in 1 .. n + 1 : u[i] = C[o[i]].inum
  <2> TAKE i \in 1 .. n + 1
  <2>1. CASE i = n + 1
    BY <1>4, <1>5, <1>6, <1>7, <2>1
  <2>2. CASE i \in 1 .. n
    <3>1. o[i] = os[i] /\ u[i] = t[i]
      BY <1>4, <1>6, <1>7, <2>2
    <3>2. t[i] = C[os[i]].inum
      BY <1>2, <2>2 DEF OnWay
    <3> QED
      BY <3>1, <3>2
  <2> QED
    BY <1>8, <2>1, <2>2
<1>12. o \in Seq(Nat) /\ Len(o) = n + 1 /\ u \in Seq(Inodes) /\ Len(u) = n + 1 /\ o[1] = Root /\ o[n + 1] = e
  <2>1. 1 \in 1 .. n
    BY <1>3
  <2> QED
    BY <1>3, <1>4, <1>6, <1>7, <2>1
<1>13. OnWay(C, L, o, e, u)
  <2>1. Len(o) >= 1 /\ Len(o) - 1 = n
    BY <1>12
  <2> QED
    BY <1>9, <1>10, <1>11, <1>12, <2>1 DEF OnWay
<1> QED
  BY <1>5, <1>7, <1>13

(* The beginning of a sequence.                                            *)
LEMMA Beginning ==
  ASSUME NEW S, NEW a \in Seq(S), NEW m \in 1 .. Len(a), NEW b, b = SubSeq(a, 1, m)
  PROVE  b \in Seq(S) /\ Len(b) = m /\ \A i \in 1 .. m : b[i] = a[i]
OBVIOUS

(* One directory back; the root is its own parent.                         *)
LEMMA WayUp ==
  ASSUME NEW C, NEW L, TreeOK(C, L), NEW os, NEW d, NEW t, OnWay(C, L, os, d, t),
         C[Root].parent = Root
  PROVE  \E o : OnWay(C, L, o, C[d].parent, Follow(t, ".."))
<1>1. PICK n \in Nat : n = Len(os)
  BY DEF OnWay
<1>2. /\ os \in Seq(Nat) /\ n >= 1 /\ os[1] = Root /\ os[n] = d
      /\ t \in Seq(Inodes) /\ Len(t) = n
  BY <1>1 DEF OnWay
<1>3. t # <<>>
  BY <1>2
<1>4. Follow(t, "..") = IF n > 1 THEN SubSeq(t, 1, n - 1) ELSE t
  BY <1>2, <1>3 DEF Follow
<1>5. CASE n = 1
  BY <1>2, <1>4, <1>5
<1>6. CASE n > 1
  <2>1. n - 1 \in 1 .. Len(os) - 1 /\ n - 1 \in Nat /\ (n - 1) + 1 = n
    BY <1>1, <1>6
  <2>2. C[d].parent = os[n - 1]
    BY <1>2, <2>1 DEF OnWay
  <2>3. PICK o, u : o = SubSeq(os, 1, n - 1) /\ u = SubSeq(t, 1, n - 1)
    OBVIOUS
  <2>4. /\ o \in Seq(Nat) /\ Len(o) = n - 1 /\ \A i \in 1 .. n - 1 : o[i] = os[i]
        /\ u \in Seq(Inodes) /\ Len(u) = n - 1 /\ \A i \in 1 .. n - 1 : u[i] = t[i]
    <3>1. n - 1 \in 1 .. n /\ Len(os) = n /\ Len(t) = n
      BY <1>1, <1>2, <2>1
    <3>2. o \in Seq(Nat) /\ Len(o) = n - 1 /\ \A i \in 1 .. n - 1 : o[i] = os[i]
      BY <1>2, <2>3, <3>1, Beginning
    <3>3. u \in Seq(Inodes) /\ Len(u) = n - 1 /\ \A i \in 1 .. n - 1 : u[i] = t[i]
      BY <1>2, <2>3, <3>1, Beginning
    <3> QED
      BY <3>2, <3>3
  <2>5. \A i \in 1 .. n - 1 : i \in 1 .. Len(os)
    BY <1>1
  <2>6. \A i \in 1 .. n - 1 : o[i] \in 1 .. Len(C) /\ Full(C, L, o[i]) /\ u[i] = C[o[i]].inum
    BY <2>4, <2>5 DEF OnWay
  <2>7. \A i \in 1 .. Len(o) - 1 : i \in 1 .. Len(os) - 1 /\ i \in 1 .. n - 1 /\ i + 1 \in 1 .. n - 1
    BY <1>1, <2>1, <2>4
  <2>8. \A i \in 1 .. Len(o) - 1 : C[o[i + 1]].parent = o[i]
    <3> TAKE i \in 1 .. Len(o) - 1
    <3>1. C[os[i + 1]].parent = os[i]
      BY <2>7 DEF OnWay
    <3> QED
      BY <2>4, <2>7, <3>1
  <2>9. 1 \in 1 .. n - 1 /\ n - 1 \in 1 .. n - 1 /\ Len(o) >= 1
    BY <1>6, <2>4
  <2>10. o[1] = Root /\ o[Len(o)] = os[n - 1]
    BY <1>2, <2>4, <2>9
  <2>11. OnWay(C, L, o, os[n - 1], u)
    BY <2>4, <2>6, <2>8, <2>9, <2>10 DEF OnWay
  <2> QED
    BY <1>4, <1>6, <2>2, <2>3, <2>11
<1> QED
  BY <1>2, <1>5, <1>6

(* The trail ends with the inode of the directory, which is not nothing.   *)
LEMMA WayEnd ==
  ASSUME NEW C, NEW L, NEW os, NEW d, NEW t, OnWay(C, L, os, d, t)
  PROVE  /\ t # <<>> /\ t \in Seq(Inodes) /\ t[Len(t)] = C[d].inum
         /\ d \in 1 .. Len(C) /\ Full(C, L, d)
<1>1. Len(os) \in Nat /\ Len(os) \in 1 .. Len(os) /\ os[Len(os)] = d /\ Len(t) = Len(os) /\ t \in Seq(Inodes)
  BY DEF OnWay
<1>2. /\ t[Len(os)] = C[os[Len(os)]].inum
      /\ os[Len(os)] \in 1 .. Len(C) /\ Full(C, L, os[Len(os)])
  BY <1>1 DEF OnWay
<1>3. t # <<>>
  BY <1>1
<1> QED
  BY <1>1, <1>2, <1>3

-----------------------------------------------------------------------------
(* IsCached finds a name if the directory has it.                          *)
LEMMA CachedIs ==
  ASSUME TreeOK(cache, leaves), NEW d \in 1 .. Len(cache), NEW name
  PROVE  LET f == IsCached(d, name)
         IN \/ f = 0 /\ ~Has(cache, leaves, d, name)
            \/ /\ f # 0 /\ Has(cache, leaves, d, name)
               /\ f \in 1 .. Len(cache) /\ cache[f].parent = d /\ cache[f].name = name
               /\ cache[d].inum \in DOMAIN Entries /\ name \in DOMAIN Entries[cache[d].inum]
               /\ cache[f].inum = Entries[cache[d].inum][name]
<1> DEFINE found == {k \in DOMAIN leaves[d] : cache[leaves[d][k]].name = name}
           first == CHOOSE k \in found : \A l \in found : k <= l
<1>1. PICK ls \in Seq(Nat) : ls = leaves[d]
  BY DEF TreeOK
<1>2. DOMAIN leaves[d] = 1 .. Len(leaves[d]) /\ Len(leaves[d]) \in Nat
  BY <1>1
<1>3. found \subseteq Nat
  BY <1>2
<1>4. IsCached(d, name) = IF found = {} THEN 0 ELSE leaves[d][first]
  BY DEF IsCached
<1>5. CASE found = {}
  BY <1>2, <1>4, <1>5 DEF Has
<1>6. CASE found # {}
  <2>1. first \in found
    <3>1. \E k \in found : \A l \in found : k <= l
      BY <1>3, <1>6, FirstExists
    <3> HIDE DEF found
    <3> QED
      BY <3>1
  <2>2. PICK k \in 1 .. Len(leaves[d]) : k = first /\ cache[leaves[d][k]].name = name
    BY <1>2, <2>1
  <2>3. PICK f : f = leaves[d][k]
    OBVIOUS
  <2>4. /\ f \in 1 .. Len(cache) /\ cache[f].parent = d /\ cache[d].inum \in DOMAIN Entries
        /\ cache[f].name \in DOMAIN Entries[cache[d].inum]
        /\ cache[f].inum = Entries[cache[d].inum][cache[f].name]
    BY <2>3, TreeLeaves
  <2>5. f # 0
    BY <2>4, TreeParts
  <2>6. Has(cache, leaves, d, name)
    BY <2>2 DEF Has
  <2>7. IsCached(d, name) = f /\ cache[f].name = name
    BY <1>4, <1>6, <2>2, <2>3
  <2> QED
    BY <2>4, <2>5, <2>6, <2>7
<1> QED
  BY <1>5, <1>6

(* OpenFile of a directory and BrowseAndCacheDirectory: nothing of the     *)
(* tree is lost, and the directory has all its names.                      *)
LEMMA BrowseAndCacheTree ==
  ASSUME TreeOK(cache, leaves), NEW d \in 1 .. Len(cache), BrowseAndCache(d, Opened(cache[d]))
  PROVE  /\ TreeOK(cache', leaves') /\ Kept(cache, leaves, cache', leaves')
         /\ Full(cache', leaves', d)
<1> DEFINE f == Opened(cache[d])
           new == IF IsDirectory(f) THEN NotCached(d) ELSE {}
<1>1. f \in Objects /\ f.inum = cache[d].inum /\ f.name = cache[d].name /\ f.parent = cache[d].parent
  <2>1. PICK o \in Objects : o = cache[d]
    BY DEF TreeOK
  <2>2. Opened(o) \in Objects /\ Opened(o).inum = o.inum /\ Opened(o).name = o.name /\ Opened(o).parent = o.parent
    BY DEF Objects, Opened
  <2> QED
    BY <2>1, <2>2
<1>2. new = IF cache[d].inum \in DOMAIN Entries
            THEN {n \in DOMAIN Entries[cache[d].inum] : ~Has(cache, leaves, d, n)} ELSE {}
  <2>1. \A n : IsCached(d, n) = 0 <=> ~Has(cache, leaves, d, n)
    BY CachedIs
  <2>2. IsDirectory(f) <=> cache[d].inum \in DOMAIN Entries
    BY <1>1 DEF IsDirectory
  <2> QED
    BY <2>1, <2>2 DEF NotCached
<1>3. /\ cache' = Browsed(cache, leaves, d, f, new).cache
      /\ leaves' = Browsed(cache, leaves, d, f, new).leaves
  BY DEF BrowseAndCache, SetTree
<1> HIDE DEF f, new
<1>4. IsFiniteSet(new)
  <2>1. CASE cache[d].inum \in DOMAIN Entries
    <3>1. IsFiniteSet(DOMAIN Entries[cache[d].inum])
      BY <2>1, TreeAssumption, Zenon
    <3> QED
      BY <1>2, <2>1, <3>1, FS_Subset
  <2>2. CASE cache[d].inum \notin DOMAIN Entries
    BY <1>2, <2>2, FS_EmptySet
  <2> QED
    BY <2>1, <2>2
<1>5. \A x \in new : /\ cache[d].inum \in DOMAIN Entries
                     /\ x \in DOMAIN Entries[cache[d].inum] /\ ~Has(cache, leaves, d, x)
  BY <1>2
<1>6. /\ TreeOK(cache', leaves') /\ Kept(cache, leaves, cache', leaves')
      /\ \A x \in new : Has(cache', leaves', d, x)
  BY <1>1, <1>3, <1>4, <1>5, BrowsedTree
<1>7. Full(cache', leaves', d)
  <2>1. cache'[d].inum = cache[d].inum /\ \A n : Has(cache, leaves, d, n) => Has(cache', leaves', d, n)
    BY <1>6, Zenon DEF Kept
  <2>2. ASSUME cache[d].inum \in DOMAIN Entries, NEW n \in DOMAIN Entries[cache[d].inum]
        PROVE  Has(cache', leaves', d, n)
    BY <1>2, <1>6, <2>1, <2>2
  <2> QED
    BY <2>1, <2>2, Zenon DEF Full
<1> QED
  BY <1>6, <1>7

(* InitRoot: the root, and the files in it.                                *)
LEMMA InitRootTree ==
  ASSUME InitRoot
  PROVE  /\ TreeOK(cache', leaves') /\ Full(cache', leaves', Root)
         /\ Len(cache') >= 1 /\ cache'[Root].parent = Root /\ cache'[Root].inum = RootInode
<1> DEFINE new == DOMAIN Entries[RootInode]
<1>1. PICK C, L : C = <<RootFile>> /\ L = << <<>> >>
  OBVIOUS
<1>2. /\ RootFile \in Objects /\ RootFile.inum = RootInode /\ RootFile.parent = Root
      /\ Root = 1
  <2>1. RootInode \in Inodes /\ Root \in Nat /\ "/" \in Names
    <3>1. RootInode \in Inodes
      BY FsAssumption, Zenon
    <3>2. Root \in Nat
      BY DEF Root
    <3>3. "/" \in Names
      BY DEF Names
    <3> QED
      BY <3>1, <3>2, <3>3, Zenon
  <2>2. PICK o : o = FileObject(RootInode, "/", Root)
    OBVIOUS
  <2>3. o \in Objects /\ o.inum = RootInode /\ o.parent = Root
    BY <2>1, <2>2, Zenon DEF Objects, FileObject
  <2>4. Opened(o) \in Objects /\ Opened(o).inum = o.inum /\ Opened(o).parent = o.parent
    BY <2>3 DEF Objects, Opened
  <2> QED
    BY <2>2, <2>3, <2>4 DEF RootFile, Root
<1>3. C \in Seq(Objects) /\ Len(C) = 1 /\ C[1] = RootFile
  BY <1>1, <1>2
<1>4. L \in Seq(Seq(Nat)) /\ Len(L) = 1 /\ L[1] = <<>>
  BY <1>1
<1>5. TreeOK(C, L)
  <2>1. \A d \in 1 .. 1 : d = 1 /\ 1 .. Len(L[d]) = {} /\ C[d].parent \in 1 .. 1
    BY <1>2, <1>3, <1>4
  <2> QED
    BY <1>3, <1>4, <2>1 DEF TreeOK
<1>6. \A x : ~Has(C, L, Root, x)
  BY <1>2, <1>4 DEF Has
<1>7. Root \in 1 .. Len(C) /\ C[Root] = RootFile
  BY <1>2, <1>3
<1>8. IsFiniteSet(new) /\ RootInode \in DOMAIN Entries
  BY FsAssumption, TreeAssumption, Zenon
<1>9. /\ cache' = Browsed(C, L, Root, RootFile, new).cache
      /\ leaves' = Browsed(C, L, Root, RootFile, new).leaves
  BY <1>1 DEF InitRoot, SetTree
<1>10. /\ TreeOK(cache', leaves') /\ Kept(C, L, cache', leaves')
       /\ \A x \in new : Has(cache', leaves', Root, x)
  <2>1. \A x \in new : /\ C[Root].inum \in DOMAIN Entries
                       /\ x \in DOMAIN Entries[C[Root].inum] /\ ~Has(C, L, Root, x)
    BY <1>2, <1>6, <1>7, <1>8
  <2> HIDE DEF new
  <2> QED
    BY <1>2, <1>5, <1>7, <1>8, <1>9, <2>1, BrowsedTree
<1>11. cache'[Root].parent = Root /\ cache'[Root].inum = RootInode
  BY <1>2, <1>7, <1>10 DEF Kept
<1>12. Len(cache') >= 1
  <2>1. Len(cache') \in Nat /\ Len(C) <= Len(cache')
    BY <1>10 DEF TreeOK, Kept
  <2> QED
    BY <1>3, <2>1
<1>13. Full(cache', leaves', Root)
  BY <1>10, <1>11, Zenon DEF Full
<1> QED
  BY <1>10, <1>11, <1>12, <1>13

-----------------------------------------------------------------------------
(* The names of a path are strings, and a turn of the loop is for one.     *)
LEMMA PathNames ==
  ASSUME PathInv, Walking
  PROVE  /\ req # NoRequest
         /\ req.path.names \in Seq(STRING)
         /\ req.at \in 1 .. Len(req.path.names) /\ Len(req.path.names) \in Nat
         /\ req.at - 1 \in 0 .. Len(req.path.names)
         /\ Trails(req.path.names)[req.at] = Follow(Trails(req.path.names)[req.at - 1], Name)
<1>1. /\ req # NoRequest /\ req.at <= Len(req.path.names)
      /\ req.path \in PathType /\ req.at \in 1 .. Len(req.path.names) + 1
  BY DEF Walking, PathInv
<1>2. PICK names \in Seq(STRING) : names = req.path.names
  BY <1>1 DEF PathType
<1>3. Len(names) \in Nat /\ req.at \in 1 .. Len(names)
  BY <1>1, <1>2
<1>4. Trails(names)[req.at] = Follow(Trails(names)[req.at - 1], names[req.at])
  BY <1>3, TrailsAre
<1> QED
  BY <1>1, <1>2, <1>3, <1>4 DEF Name

(* One name further, when the tree and the way are what they have to be.   *)
LEMMA NextName ==
  ASSUME PathInv, Walking, NEW d, StepTo(d), UNCHANGED fileEntries,
         NEW os, OnWay(cache', leaves', os, d, Trails(req.path.names)[req.at])
  PROVE  PathInv'
<1>1. /\ DOMAIN req = {"proc", "entry", "path", "share", "at", "dir"}
      /\ Len(fileEntries) < MaxFiles /\ req.path \in PathType
  BY DEF PathInv, Walking
<1>2. /\ req.at \in 1 .. Len(req.path.names) /\ Len(req.path.names) \in Nat
  BY PathNames
<1>3. req' = [req EXCEPT !.at = @ + 1, !.dir = d]
  BY DEF StepTo
<1>4. /\ DOMAIN req' = {"proc", "entry", "path", "share", "at", "dir"}
      /\ req'.path = req.path /\ req'.at = req.at + 1 /\ req'.dir = d
  BY <1>1, <1>3
<1>5. req'.at \in 1 .. Len(req'.path.names) + 1 /\ req'.at - 1 = req.at
  BY <1>2, <1>4
<1> QED
  BY <1>1, <1>4, <1>5 DEF PathInv

(* Only the tree's own actions touch it; the others leave what the         *)
(* invariant says of it.                                                   *)
LEMMA TreeUntouched ==
  ASSUME TreeInv, UNCHANGED <<stage, cache, leaves, fileEntries>>,
         stage \in {"start", "failed"} => req' = NoRequest
  PROVE  TreeInv'
BY DEF TreeInv

(* The other actions of the service leave the request in progress, too.    *)
LEMMA PathUntouched ==
  ASSUME PathInv, UNCHANGED <<req, cache, leaves, fileEntries>>
  PROVE  PathInv'
BY DEF PathInv

(* Without a request nothing is said of it.                                *)
LEMMA NoPathInv ==
  ASSUME req' = NoRequest PROVE PathInv'
BY DEF PathInv, NoRequest

(* An answer that is not about a path says nothing of the disk.            *)
LEMMA NoAnswerOK ==
  ASSUME last'.res \notin {"ok", "denied", "notfound"} PROVE AnswerOK'
BY DEF AnswerOK

(* The tree grows: the files that are open keep their objects.             *)
LEMMA TreeGrown ==
  ASSUME TreeInv, stage \notin {"start", "failed"}, UNCHANGED <<stage, fileEntries>>,
         TreeOK(cache', leaves'), Kept(cache, leaves, cache', leaves')
  PROVE  TreeInv'
<1>1. Len(cache) \in Nat /\ Len(cache') \in Nat /\ Len(cache) <= Len(cache')
  BY KeptSizes DEF TreeInv
<1>2. Root \in 1 .. Len(cache)
  BY <1>1 DEF TreeInv, Root
<1>3. cache'[Root].parent = Root /\ cache'[Root].inum = RootInode /\ Len(cache') >= 1
  BY <1>1, <1>2 DEF TreeInv, Kept
<1>4. Full(cache', leaves', Root)
  BY <1>2, FullKept DEF TreeInv
<1>5. \A k \in DOMAIN fileEntries' : fileEntries'[k].file \in 1 .. Len(cache')
  BY <1>1 DEF TreeInv
<1>6. IsSequence(fileEntries') /\ Len(fileEntries') <= MaxFiles /\ stage' \notin {"start", "failed"}
      /\ stage' \in {"start", "up", "listening", "ended", "failed"}
  BY DEF TreeInv
<1> QED
  BY <1>3, <1>4, <1>5, <1>6, Zenon DEF TreeInv

(* A request is in progress only while the service runs.                   *)
LEMMA RequestMeansUp ==
  ASSUME TreeInv, req # NoRequest
  PROVE  /\ stage \notin {"start", "failed"} /\ TreeOK(cache, leaves)
         /\ Len(cache) >= 1 /\ cache[Root].parent = Root /\ cache[Root].inum = RootInode
         /\ Full(cache, leaves, Root)
BY DEF TreeInv

(* A name other than "." and ".." is looked up in the directory.           *)
LEMMA FollowName ==
  ASSUME NEW t \in Seq(Inodes), t # <<>>, NEW inum, inum = t[Len(t)], NEW name, name \notin {".", ".."}
  PROVE  /\ inum \in DOMAIN Entries /\ name \in DOMAIN Entries[inum]
              => Follow(t, name) = Append(t, Entries[inum][name])
         /\ inum \notin DOMAIN Entries \/ name \notin DOMAIN Entries[inum]
              => Follow(t, name) = <<>>
BY DEF Follow

(* "." and "..": the tree stays, and the way goes nowhere or back.         *)
LEMMA DotsMatch ==
  ASSUME MatchInv, WalkDots
  PROVE  MatchInv'
<1>1. /\ Walking /\ Name \in {".", ".."} /\ StepTo(IF Name = ".." THEN Parent(req.dir) ELSE req.dir)
      /\ UNCHANGED <<stage, cache, leaves, fileEntries, last>>
  BY DEF WalkDots, treeVars
<1>2. /\ req # NoRequest
      /\ Trails(req.path.names)[req.at] = Follow(Trails(req.path.names)[req.at - 1], Name)
  BY <1>1, PathNames DEF MatchInv
<1>3. PICK os : OnWay(cache, leaves, os, req.dir, Trails(req.path.names)[req.at - 1])
  BY <1>2 DEF MatchInv, PathInv
<1>4. PICK t : t = Trails(req.path.names)[req.at - 1]
  OBVIOUS
<1>5. stage \notin {"start", "failed"} /\ TreeOK(cache, leaves) /\ cache[Root].parent = Root
  BY <1>2, RequestMeansUp DEF MatchInv
<1>6. TreeInv'
  BY <1>1, <1>5, TreeUntouched DEF MatchInv
<1>7. PathInv'
  <2>1. CASE Name = ".."
    <3>1. \E o : OnWay(cache, leaves, o, cache[req.dir].parent, Follow(t, ".."))
      BY <1>3, <1>4, <1>5, WayUp
    <3>2. PICK o : OnWay(cache', leaves', o, cache[req.dir].parent, Trails(req.path.names)[req.at])
      BY <1>1, <1>2, <1>4, <2>1, <3>1
    <3>3. StepTo(cache[req.dir].parent)
      BY <1>1, <2>1 DEF Parent
    <3> QED
      BY <1>1, <3>2, <3>3, NextName DEF MatchInv
  <2>2. CASE Name # ".."
    <3>1. Name = "." /\ StepTo(req.dir)
      BY <1>1, <2>2
    <3>2. t # <<>>
      BY <1>3, <1>4, WayEnd
    <3>3. Follow(t, ".") = t
      BY <3>2 DEF Follow
    <3>4. OnWay(cache', leaves', os, req.dir, Trails(req.path.names)[req.at])
      BY <1>1, <1>2, <1>3, <1>4, <3>1, <3>3
    <3> QED
      BY <1>1, <3>1, <3>4, NextName DEF MatchInv
  <2> QED
    BY <2>1, <2>2
<1>8. AnswerOK'
  BY <1>1 DEF MatchInv, AnswerOK
<1> QED
  BY <1>6, <1>7, <1>8 DEF MatchInv

(* A directory is entered: its object has the inode that the disk has for  *)
(* the name.                                                               *)
LEMMA DirectoryMatch ==
  ASSUME MatchInv, WalkDirectory
  PROVE  MatchInv'
<1> DEFINE d == IsCached(req.dir, Name)
           t == Trails(req.path.names)[req.at - 1]
<1>1. /\ Walking /\ Name \notin {".", ".."} /\ d # 0
      /\ BrowseAndCache(d, Opened(cache[d])) /\ StepTo(d)
      /\ UNCHANGED <<stage, fileEntries, last>>
  BY DEF WalkDirectory
<1>2. /\ req # NoRequest
      /\ Trails(req.path.names)[req.at] = Follow(t, Name)
  BY <1>1, PathNames DEF MatchInv
<1>3. PICK os : OnWay(cache, leaves, os, req.dir, t)
  BY <1>2 DEF MatchInv, PathInv
<1>4. stage \notin {"start", "failed"} /\ TreeOK(cache, leaves)
  BY <1>2, RequestMeansUp DEF MatchInv
<1>5. t # <<>> /\ t \in Seq(Inodes) /\ t[Len(t)] = cache[req.dir].inum /\ req.dir \in 1 .. Len(cache)
  BY <1>3, WayEnd
<1>6. /\ d \in 1 .. Len(cache) /\ cache[d].parent = req.dir
      /\ cache[req.dir].inum \in DOMAIN Entries /\ Name \in DOMAIN Entries[cache[req.dir].inum]
      /\ cache[d].inum = Entries[cache[req.dir].inum][Name]
  BY <1>1, <1>4, <1>5, CachedIs
<1> HIDE DEF d, t
<1>7. Follow(t, Name) = Append(t, cache[d].inum)
  BY <1>1, <1>5, <1>6, FollowName
<1>8. /\ TreeOK(cache', leaves') /\ Kept(cache, leaves, cache', leaves')
      /\ Full(cache', leaves', d)
  BY <1>1, <1>4, <1>6, BrowseAndCacheTree
<1>9. OnWay(cache', leaves', os, req.dir, t)
  BY <1>3, <1>4, <1>8, WayKept
<1>10. /\ d \in 1 .. Len(cache') /\ cache'[d].parent = req.dir /\ cache'[d].inum = cache[d].inum
  <2>1. Len(cache) \in Nat /\ Len(cache') \in Nat /\ Len(cache) <= Len(cache')
    BY <1>4, <1>8, KeptSizes
  <2>2. d \in 1 .. Len(cache')
    BY <1>6, <2>1
  <2> QED
    BY <1>6, <1>8, <2>2 DEF Kept
<1>11. OnWay(cache', leaves', Append(os, d), d, Append(t, cache[d].inum))
  BY <1>8, <1>9, <1>10, WayDown
<1>12. PathInv'
  BY <1>1, <1>2, <1>7, <1>11, NextName DEF MatchInv
<1>13. TreeInv'
  BY <1>1, <1>4, <1>8, TreeGrown DEF MatchInv
<1>14. AnswerOK'
  BY <1>1 DEF MatchInv, AnswerOK
<1> QED
  BY <1>12, <1>13, <1>14 DEF MatchInv

(* An answer for a file of the tree keeps what is said of the tree.        *)
LEMMA AnswerTree ==
  ASSUME TreeInv, PathInv, req # NoRequest, NEW f \in 1 .. Len(cache), Answer(f),
         UNCHANGED <<stage, leaves>>,
         TreeOK(cache', leaves'), Kept(cache, leaves, cache', leaves')
  PROVE  TreeInv' /\ PathInv'
<1>1. stage \notin {"start", "failed"}
  BY RequestMeansUp
<1>2. req' = NoRequest
  BY DEF Answer, EndOpen
<1>3. Len(cache) \in Nat /\ Len(cache') \in Nat /\ Len(cache) <= Len(cache')
  BY KeptSizes DEF TreeInv
<1>4. Root \in 1 .. Len(cache)
  BY <1>1, <1>3 DEF TreeInv, Root
<1>5. cache'[Root].parent = Root /\ cache'[Root].inum = RootInode /\ Len(cache') >= 1
  BY <1>1, <1>3, <1>4 DEF TreeInv, Kept
<1>6. Full(cache', leaves', Root)
  BY <1>1, <1>4, FullKept DEF TreeInv
<1>7. /\ IsSequence(fileEntries') /\ Len(fileEntries') <= MaxFiles
      /\ \A k \in DOMAIN fileEntries' : fileEntries'[k].file \in 1 .. Len(cache')
  <2>1. fileEntries' = fileEntries \/ fileEntries' = Append(fileEntries, NewFileEntry(f))
    BY DEF Answer
  <2>2. /\ IsSequence(fileEntries) /\ Len(fileEntries) < MaxFiles
        /\ \A k \in DOMAIN fileEntries : fileEntries[k].file \in 1 .. Len(cache')
    BY <1>3 DEF TreeInv, PathInv
  <2>3. CASE fileEntries' = Append(fileEntries, NewFileEntry(f))
    <3>1. PICK e : e = NewFileEntry(f)
      OBVIOUS
    <3>2. /\ IsSequence(fileEntries') /\ Len(fileEntries) \in Nat
          /\ DOMAIN fileEntries = 1 .. Len(fileEntries)
          /\ DOMAIN fileEntries' = 1 .. Len(fileEntries) + 1
          /\ fileEntries'[Len(fileEntries) + 1] = e
          /\ \A k \in DOMAIN fileEntries : fileEntries'[k] = fileEntries[k]
      BY <2>2, <2>3, <3>1, AppendedTo
    <3>3. e.file \in 1 .. Len(cache')
      BY <1>3, <3>1 DEF NewFileEntry
    <3>4. Len(fileEntries') <= MaxFiles
      <4>1. DOMAIN fileEntries' = 1 .. Len(fileEntries') /\ Len(fileEntries') \in Nat
        BY <3>2 DEF IsSequence
      <4>2. Len(fileEntries') = Len(fileEntries) + 1
        BY <3>2, <4>1
      <4> QED
        BY <2>2, <3>2, <4>2, FsAssumption
    <3>5. \A k \in DOMAIN fileEntries' : k \in DOMAIN fileEntries \/ k = Len(fileEntries) + 1
      BY <3>2
    <3> QED
      BY <2>2, <3>2, <3>3, <3>4, <3>5
  <2>4. CASE fileEntries' = fileEntries
    BY <2>2, <2>4, FsAssumption DEF IsSequence
  <2> QED
    BY <2>1, <2>3, <2>4
<1>8. stage' \notin {"start", "failed"} /\ stage' \in {"start", "up", "listening", "ended", "failed"}
  BY <1>1 DEF TreeInv
<1>9. TreeInv'
  BY <1>5, <1>6, <1>7, <1>8, Zenon DEF TreeInv
<1> QED
  BY <1>2, <1>9, NoPathInv

(* The last name has its file, the one the disk has.                       *)
LEMMA FileMatch ==
  ASSUME MatchInv, WalkFile
  PROVE  MatchInv'
<1> DEFINE f == IsCached(req.dir, Name)
           names == req.path.names
           t == Trails(names)[req.at - 1]
<1>1. /\ Walking /\ LastName /\ f # 0
      /\ cache' = [cache EXCEPT ![f] = Opened(@)]
      /\ Answer(f)
      /\ UNCHANGED <<stage, leaves>>
  BY DEF WalkFile
<1>2. /\ req # NoRequest /\ names \in Seq(STRING)
      /\ Trails(names)[req.at] = Follow(t, Name)
  BY <1>1, PathNames DEF MatchInv
<1>3. PICK os : OnWay(cache, leaves, os, req.dir, t)
  BY <1>2 DEF MatchInv, PathInv
<1>4. stage \notin {"start", "failed"} /\ TreeOK(cache, leaves)
  BY <1>2, RequestMeansUp DEF MatchInv
<1>5. t # <<>> /\ t \in Seq(Inodes) /\ t[Len(t)] = cache[req.dir].inum /\ req.dir \in 1 .. Len(cache)
  BY <1>3, WayEnd
<1>6. PICK inum : inum = cache[req.dir].inum
  OBVIOUS
<1>7. /\ f \in 1 .. Len(cache)
      /\ inum \in DOMAIN Entries /\ Name \in DOMAIN Entries[inum]
      /\ cache[f].inum = Entries[inum][Name]
  BY <1>1, <1>4, <1>5, <1>6, CachedIs
<1>8. req.at = Len(names) /\ names # <<>> /\ Name = names[Len(names)]
  <2>1. req.at = Len(names) /\ req.at \in 1 .. Len(names) /\ Len(names) \in Nat
    BY <1>1, PathNames DEF LastName, MatchInv
  <2> QED
    BY <2>1 DEF Name
<1> HIDE DEF f, t, names
<1>9. Name \notin {".", ".."}
  BY <1>7, TreeAssumption, Zenon
<1>10. Follow(t, Name) = Append(t, Entries[inum][Name])
  BY <1>5, <1>6, <1>7, <1>9, FollowName
<1>11. Trail(names) = Append(t, cache[f].inum)
  BY <1>2, <1>7, <1>8, <1>10, TrailsAre
<1>12. TreeOK(cache', leaves') /\ Kept(cache, leaves, cache', leaves')
  BY <1>1, <1>4, <1>7, OpenedTree
<1>13. TreeInv' /\ PathInv'
  BY <1>1, <1>2, <1>7, <1>12, AnswerTree DEF MatchInv
<1>14. last'.path = req.path /\ last'.inum = cache[f].inum /\ last'.res \in {"ok", "denied"}
  BY <1>1 DEF Answer, EndOpen
<1>15. AnswerOK'
  <2>1. cache[f].inum \in Inodes
    <3>1. cache[f] \in Objects
      BY <1>4, <1>7 DEF TreeOK
    <3> QED
      BY <3>1 DEF Objects
  <2>2. PICK i \in Inodes : i = cache[f].inum
    BY <2>1
  <2>3. PICK u : u = Append(t, i)
    OBVIOUS
  <2>4. u # <<>> /\ u[Len(u)] = i
    BY <1>5, <2>3
  <2>5. Trail(last'.path.names) = u /\ last'.path.names = names
    BY <1>11, <1>14, <2>2, <2>3 DEF names
  <2>6. ~(names # <<>> /\ names[Len(names)] \in {".", ".."})
    BY <1>8, <1>9
  <2> QED
    BY <1>14, <2>2, <2>4, <2>5, <2>6 DEF AnswerOK
<1> QED
  BY <1>13, <1>15 DEF MatchInv

(* A name that the directory has not, and so the disk has not.             *)
LEMMA NotFoundMatch ==
  ASSUME MatchInv, WalkNotFound
  PROVE  MatchInv'
<1> DEFINE names == req.path.names
           t == Trails(names)[req.at - 1]
<1>1. /\ Walking /\ (LastName \/ Name \notin {".", ".."}) /\ IsCached(req.dir, Name) = 0
      /\ req' = NoRequest /\ last'.path = req.path /\ last'.res = "notfound"
      /\ UNCHANGED <<stage, cache, leaves, fileEntries>>
  BY DEF WalkNotFound, EndOpen, treeVars
<1>2. /\ req # NoRequest /\ names \in Seq(STRING)
      /\ req.at \in 1 .. Len(names) /\ Len(names) \in Nat
      /\ Trails(names)[req.at] = Follow(t, Name)
  BY <1>1, PathNames DEF MatchInv
<1>3. PICK os : OnWay(cache, leaves, os, req.dir, t)
  BY <1>2 DEF MatchInv, PathInv
<1>4. TreeOK(cache, leaves)
  BY <1>2, RequestMeansUp DEF MatchInv
<1>5. /\ t # <<>> /\ t \in Seq(Inodes) /\ t[Len(t)] = cache[req.dir].inum
      /\ req.dir \in 1 .. Len(cache) /\ Full(cache, leaves, req.dir)
  BY <1>3, WayEnd
<1>6. PICK inum : inum = cache[req.dir].inum
  OBVIOUS
<1>7. inum \notin DOMAIN Entries \/ Name \notin DOMAIN Entries[inum]
  <2>1. ~Has(cache, leaves, req.dir, Name)
    BY <1>1, <1>4, <1>5, CachedIs
  <2> QED
    BY <1>5, <1>6, <2>1, Zenon DEF Full
<1> HIDE DEF t
<1>8. TreeInv' /\ PathInv'
  BY <1>1, TreeUntouched, NoPathInv DEF MatchInv
<1>9. CASE Name \in {".", ".."}
  <2>1. req.at = Len(names)
    BY <1>1, <1>9 DEF LastName
  <2>2. names # <<>> /\ names[Len(names)] \in {".", ".."}
    BY <1>2, <1>9, <2>1 DEF Name
  <2>3. AnswerOK'
    BY <1>1, <2>2 DEF AnswerOK
  <2> QED
    BY <1>8, <2>3 DEF MatchInv
<1>10. CASE Name \notin {".", ".."}
  <2>1. Follow(t, Name) = <<>>
    BY <1>5, <1>6, <1>7, <1>10, FollowName
  <2>2. req.at \in 0 .. Len(names)
    BY <1>2
  <2>3. Trail(names) = <<>>
    BY <1>2, <2>1, <2>2, NowhereStays
  <2>4. AnswerOK'
    BY <1>1, <2>3 DEF AnswerOK
  <2> QED
    BY <1>8, <2>4 DEF MatchInv
<1> QED
  BY <1>9, <1>10

(* The path has ended: only "/" is a file, the root.                       *)
LEMMA EndMatch ==
  ASSUME MatchInv, WalkEnd
  PROVE  MatchInv'
<1>1. /\ req # NoRequest /\ UNCHANGED <<stage, cache, leaves>>
      /\ \/ req.path.names = <<>> /\ Answer(Root)
         \/ EndOpen("nofile", None, RootInode) /\ UNCHANGED fileEntries
  BY DEF WalkEnd, treeVars
<1>2. /\ TreeOK(cache, leaves) /\ cache[Root].inum = RootInode /\ Len(cache) >= 1
  BY <1>1, RequestMeansUp DEF MatchInv
<1>3. CASE EndOpen("nofile", None, RootInode) /\ UNCHANGED fileEntries
  <2>1. req' = NoRequest /\ last'.res = "nofile"
    BY <1>3 DEF EndOpen
  <2> QED
    BY <1>1, <1>3, <2>1, TreeUntouched, NoPathInv, NoAnswerOK DEF MatchInv
<1>4. CASE req.path.names = <<>> /\ Answer(Root)
  <2>1. Root \in 1 .. Len(cache)
    BY <1>2 DEF TreeOK, Root
  <2>2. Kept(cache, leaves, cache', leaves') /\ TreeOK(cache', leaves')
    <3>1. Len(cache) \in Nat
      BY <1>2, TreeParts
    <3>2. Kept(cache, leaves, cache, leaves)
      BY <3>1 DEF Kept
    <3> QED
      BY <1>1, <1>2, <3>2
  <2>3. TreeInv' /\ PathInv'
    BY <1>1, <1>4, <2>1, <2>2, AnswerTree DEF MatchInv
  <2>4. last'.path = req.path /\ last'.inum = RootInode /\ last'.res \in {"ok", "denied"}
    BY <1>2, <1>4 DEF Answer, EndOpen
  <2>5. Trail(<<>>) = <<RootInode>>
    <3>1. <<>> \in Seq(STRING) /\ Len(<<>>) = 0
      OBVIOUS
    <3> QED
      BY <3>1, TrailsAre
  <2>6. PICK u : u = Trail(last'.path.names)
    OBVIOUS
  <2>7. u # <<>> /\ u[Len(u)] = RootInode /\ last'.path.names = <<>>
    <3>1. last'.path.names = <<>>
      BY <1>4, <2>4
    <3>2. u = <<RootInode>>
      BY <2>5, <2>6, <3>1
    <3> QED
      BY <3>1, <3>2
  <2>8. AnswerOK'
    BY <2>4, <2>6, <2>7 DEF AnswerOK
  <2> QED
    BY <2>3, <2>8 DEF MatchInv
<1> QED
  BY <1>1, <1>3, <1>4

(* A request begins at the root.                                           *)
LEMMA RequestMatch ==
  ASSUME MatchInv, NEW p, NEW path \in Paths, NEW share, RequestOpenFile(p, path, share)
  PROVE  MatchInv'
<1>1. /\ stage = "listening" /\ Len(fileEntries) < MaxFiles /\ last' = NoAnswer
      /\ \E k : req' = [proc |-> p, entry |-> k, path |-> path, share |-> share, at |-> 1, dir |-> Root]
      /\ UNCHANGED <<stage, cache, leaves, fileEntries>>
  BY DEF RequestOpenFile, Serving, treeVars
<1>2. /\ DOMAIN req' = {"proc", "entry", "path", "share", "at", "dir"}
      /\ req'.path = path /\ req'.at = 1 /\ req'.dir = Root
  BY <1>1
<1>3. path \in PathType
  BY TreeAssumption DEF PathType
<1>4. PICK names \in Seq(STRING) : names = path.names
  BY <1>3 DEF PathType
<1>5. Len(names) \in Nat /\ Trails(names)[0] = <<RootInode>>
  BY <1>4, TrailsAre
<1>6. OnWay(cache, leaves, <<Root>>, Root, <<RootInode>>)
  BY <1>1, WayFromRoot DEF MatchInv, TreeInv
<1>7. PathInv'
  <2>1. 1 \in 1 .. Len(names) + 1 /\ 1 - 1 = 0
    BY <1>5
  <2>2. OnWay(cache', leaves', <<Root>>, req'.dir, Trails(req'.path.names)[req'.at - 1])
    BY <1>1, <1>2, <1>4, <1>5, <1>6, <2>1
  <2> QED
    BY <1>1, <1>2, <1>3, <1>4, <2>1, <2>2 DEF PathInv
<1>8. TreeInv'
  BY <1>1, TreeUntouched DEF MatchInv
<1>9. AnswerOK'
  BY <1>1, NoAnswerOK DEF NoAnswer
<1> QED
  BY <1>7, <1>8, <1>9 DEF MatchInv

(* Reads that fail end the request.                                        *)
LEMMA ReadFailsMatch ==
  ASSUME MatchInv, WalkReadFails
  PROVE  MatchInv'
<1>1. /\ req' = NoRequest /\ last'.res = "io" /\ UNCHANGED <<stage, cache, leaves, fileEntries>>
  BY DEF WalkReadFails, EndOpen, treeVars
<1> QED
  BY <1>1, TreeUntouched, NoPathInv, NoAnswerOK DEF MatchInv

(* The service starts: its tree is the root and the files in it.           *)
LEMMA CreateMatch ==
  ASSUME MatchInv, AtaDeviceCreate
  PROVE  MatchInv'
<1>1. stage = "start" /\ stage' = "up" /\ InitRoot /\ UNCHANGED <<fileEntries, req, last>>
  BY DEF AtaDeviceCreate
<1>2. fileEntries = <<>> /\ req = NoRequest
  BY <1>1 DEF MatchInv, TreeInv
<1>3. IsSequence(fileEntries') /\ Len(fileEntries') <= MaxFiles /\ DOMAIN fileEntries' = {}
  BY <1>1, <1>2 DEF MatchInv, TreeInv
<1>4. TreeInv'
  BY <1>1, <1>3, InitRootTree DEF TreeInv
<1>5. PathInv'
  BY <1>1, <1>2, NoPathInv
<1>6. AnswerOK'
  BY <1>1 DEF MatchInv, AnswerOK
<1> QED
  BY <1>4, <1>5, <1>6 DEF MatchInv

(* Every step of the service, of its commands and of the programs.         *)
LEMMA MatchStep == MatchInv /\ [FsNext]_fsVars => MatchInv'
<1> SUFFICES ASSUME MatchInv, [FsNext]_fsVars PROVE MatchInv'
  OBVIOUS
<1>1. ASSUME UNCHANGED <<cache, leaves, fileEntries, req>>, stage = "start" => FALSE,
             stage # "failed", stage' \in {"up", "listening", "ended"},
             last' = last \/ last' = NoAnswer
      PROVE  MatchInv'
  <2>1. TreeInv'
    BY <1>1 DEF MatchInv, TreeInv
  <2>2. PathInv'
    BY <1>1, PathUntouched DEF MatchInv
  <2>3. AnswerOK'
    BY <1>1, NoAnswerOK DEF MatchInv, AnswerOK, NoAnswer
  <2> QED
    BY <2>1, <2>2, <2>3 DEF MatchInv
<1>2. ASSUME UNCHANGED <<stage, cache, leaves, fileEntries, req>>, last' = last \/ last' = NoAnswer
      PROVE  MatchInv'
  <2>1. TreeInv'
    BY <1>2 DEF MatchInv, TreeInv
  <2>2. PathInv'
    BY <1>2, PathUntouched DEF MatchInv
  <2>3. AnswerOK'
    BY <1>2, NoAnswerOK DEF MatchInv, AnswerOK, NoAnswer
  <2> QED
    BY <2>1, <2>2, <2>3 DEF MatchInv
<1>3. CASE AtaDeviceCreateFails
  <2>1. /\ stage = "start" /\ stage' = "failed"
        /\ UNCHANGED <<cache, leaves, fileEntries, req, last>>
    BY <1>3 DEF AtaDeviceCreateFails, treeVars
  <2>2. TreeInv'
    BY <2>1 DEF MatchInv, TreeInv
  <2>3. PathInv' /\ AnswerOK'
    BY <2>1, PathUntouched DEF MatchInv, AnswerOK
  <2> QED
    BY <2>2, <2>3 DEF MatchInv
<1>4. CASE AtaDeviceCreate
  BY <1>4, CreateMatch
<1>5. CASE IpcServerCreate
  <2>1. /\ stage = "up" /\ stage' = "listening"
        /\ UNCHANGED <<cache, leaves, fileEntries, req, last>>
    BY <1>5 DEF IpcServerCreate, treeVars
  <2> QED
    BY <1>1, <2>1
<1>6. CASE Listen \/ Terminate
  <2>1. /\ stage = "listening" /\ stage' = "ended" /\ last' = NoAnswer
        /\ UNCHANGED <<cache, leaves, fileEntries, req>>
    BY <1>6 DEF Listen, Terminate, Serving, treeVars
  <2> QED
    BY <1>1, <2>1
<1>7. ASSUME NEW p \in Procs, RequestConnectAgain(p) \/ RequestOpenFileUnknown(p) PROVE MatchInv'
  <2>1. UNCHANGED <<stage, cache, leaves, fileEntries, req>> /\ last' = NoAnswer
    BY <1>7 DEF RequestConnectAgain, RequestOpenFileUnknown, treeVars
  <2> QED
    BY <1>2, <2>1
<1>8. ASSUME NEW p \in Procs, NEW i \in Ids, RequestConnect(p, i) \/ RequestConnectFails(p, i)
      PROVE MatchInv'
  <2>1. UNCHANGED <<stage, cache, leaves, fileEntries, req>> /\ last' = NoAnswer
    BY <1>8 DEF RequestConnect, RequestConnectFails, treeVars
  <2> QED
    BY <1>2, <2>1
<1>9. ASSUME NEW p \in Procs, NEW path \in Paths, NEW share \in ShareModes,
             RequestOpenFile(p, path, share)
      PROVE MatchInv'
  BY <1>9, RequestMatch
<1>10. CASE Walk
  BY <1>10, DotsMatch, DirectoryMatch, FileMatch, NotFoundMatch, ReadFailsMatch, EndMatch DEF Walk
<1>11. ASSUME NEW i \in Ids, CreateServer(i) PROVE MatchInv'
  <2>1. UNCHANGED <<stage, cache, leaves, fileEntries, req, last>>
    BY <1>11 DEF CreateServer, treeVars
  <2> QED
    BY <1>2, <2>1
<1>12. ASSUME NEW p \in Procs, FsOpenFile(p) PROVE MatchInv'
  <2>1. UNCHANGED <<stage, cache, leaves, fileEntries, req, last>>
    BY <1>12 DEF FsOpenFile, FsInit, treeVars
  <2> QED
    BY <1>2, <2>1
<1>13. CASE UNCHANGED fsVars
  <2>1. UNCHANGED <<stage, cache, leaves, fileEntries, req, last>>
    BY <1>13 DEF fsVars
  <2> QED
    BY <1>2, <2>1
<1> QED
  BY <1>3, <1>4, <1>5, <1>6, <1>7, <1>8, <1>9, <1>10, <1>11, <1>12, <1>13 DEF FsNext, Command

(* The lists of the service stay within their bounds.                      *)
LEMMA BoundedStep == BoundedInv /\ ListedInv /\ [FsNext]_fsVars => BoundedInv'
<1> SUFFICES ASSUME BoundedInv, ListedInv, [FsNext]_fsVars PROVE BoundedInv'
  OBVIOUS
<1>1. ASSUME UNCHANGED <<servers, processes>> PROVE BoundedInv'
  BY <1>1 DEF BoundedInv
<1>2. AtaDeviceCreateFails \/ AtaDeviceCreate \/ IpcServerCreate \/ Listen
        => UNCHANGED <<servers, processes>>
  BY DEF AtaDeviceCreateFails, AtaDeviceCreate, IpcServerCreate, Listen, listVars, clientVars
<1>3. ASSUME NEW p \in Procs, RequestConnectAgain(p) PROVE BoundedInv'
  <2>1. PICK k, e : processes' = [processes EXCEPT ![k] = e] /\ UNCHANGED servers
    BY <1>3 DEF RequestConnectAgain, clientVars
  <2>2. PICK S : processes \in Seq(S)
    BY DEF ListedInv, IsSequence
  <2>3. processes \in Seq(S \cup {e})
    BY <2>2
  <2>4. Len(processes') = Len(processes)
    BY <2>1, <2>3
  <2> QED
    BY <2>1, <2>4 DEF BoundedInv
<1>4. ASSUME NEW p \in Procs, NEW i \in Ids, RequestConnect(p, i) PROVE BoundedInv'
  <2>1. PICK e : processes' = Append(processes, e) /\ Len(processes) < MaxProcesses /\ UNCHANGED servers
    BY <1>4 DEF RequestConnect, clientVars
  <2>2. PICK S : processes \in Seq(S)
    BY DEF ListedInv, IsSequence
  <2>3. processes \in Seq(S \cup {e})
    BY <2>2
  <2>4. Len(processes') = Len(processes) + 1 /\ Len(processes) \in Nat
    BY <2>1, <2>3
  <2> QED
    BY <2>1, <2>4, FsAssumption DEF BoundedInv
<1>5. ASSUME NEW p \in Procs, NEW i \in Ids, RequestConnectFails(p, i) PROVE BoundedInv'
  BY <1>1, <1>5 DEF RequestConnectFails, listVars, clientVars
<1>6. ASSUME NEW p \in Procs, RequestOpenFileUnknown(p) PROVE BoundedInv'
  BY <1>1, <1>6 DEF RequestOpenFileUnknown, listVars, clientVars
<1>7. ASSUME NEW p \in Procs, NEW path \in Paths, NEW share \in ShareModes,
             RequestOpenFile(p, path, share)
      PROVE BoundedInv'
  BY <1>1, <1>7 DEF RequestOpenFile, listVars, clientVars
<1>8. CASE Terminate
  BY <1>1, <1>8 DEF Terminate, listVars, clientVars
<1>9. Walk => UNCHANGED <<servers, processes>>
  BY DEF Walk, WalkDots, WalkDirectory, WalkFile, WalkNotFound, WalkReadFails, WalkEnd, listVars, clientVars
<1>10. ASSUME NEW i \in Ids, CreateServer(i) PROVE BoundedInv'
  BY <1>10 DEF CreateServer, listVars, BoundedInv
<1>11. ASSUME NEW p \in Procs, FsOpenFile(p) PROVE BoundedInv'
  BY <1>11, FsAssumption DEF FsOpenFile, FsInit, listVars, BoundedInv
<1>12. UNCHANGED fsVars => UNCHANGED <<servers, processes>>
  BY DEF fsVars
<1> QED
  BY <1>1, <1>2, <1>3, <1>4, <1>5, <1>6, <1>7, <1>8, <1>9, <1>10, <1>11, <1>12 DEF FsNext, Command

(* Each variable has its type.                                             *)
LEMMA FsTypes ==
  ASSUME MatchInv, BoundedInv, ListedInv, NameInv, PriorityInv
  PROVE  FsTypeOK
<1>1. /\ cache \in Seq(Objects) /\ leaves \in Seq(Seq(Nat)) /\ Len(leaves) = Len(cache)
      /\ \A f \in 1 .. Len(cache) : cache[f].parent \in 1 .. Len(cache)
  BY DEF MatchInv, TreeInv, TreeOK
<1>2. DOMAIN leaves = DOMAIN cache /\ DOMAIN cache = 1 .. Len(cache)
  BY <1>1
<1>3. \A f \in DOMAIN cache : cache[f].inum \in Inodes /\ cache[f].parent \in DOMAIN cache
  <2> TAKE f \in DOMAIN cache
  <2>1. cache[f] \in Objects
    BY <1>1, <1>2
  <2> QED
    BY <1>1, <1>2, <2>1 DEF Objects
<1>4. \A k \in DOMAIN fileEntries : fileEntries[k].file \in DOMAIN cache
  BY <1>2 DEF MatchInv, TreeInv
<1>5. req.entry \in 0 .. Len(processes)
  <2>1. DOMAIN processes = 1 .. Len(processes) /\ Len(processes) \in Nat
    BY DEF ListedInv, IsSequence
  <2>2. CASE req = NoRequest
    BY <2>1, <2>2 DEF NoRequest
  <2>3. CASE req # NoRequest
    BY <2>1, <2>3 DEF ListedInv
  <2> QED
    BY <2>2, <2>3
<1>6. prio \in NormalPriority .. MaxPriority
  BY DEF PriorityInv, NormalPriority, MaxPriority
<1>7. Len(fileEntries) <= MaxFiles /\ Len(processes) <= MaxProcesses /\ servers \subseteq Ids
  BY DEF MatchInv, TreeInv, BoundedInv
<1>8. init \in [Procs -> BOOLEAN] /\ named \in [Procs -> Ids \cup {None}]
  BY DEF NameInv, ListedInv
<1>9. stage \in {"start", "up", "listening", "ended", "failed"}
  BY DEF MatchInv, TreeInv
<1> QED
  BY <1>2, <1>3, <1>4, <1>5, <1>6, <1>7, <1>8, <1>9 DEF FsTypeOK

(* The tree of the invariant is one that agrees with the disk.             *)
LEMMA TreeMatches == ASSUME MatchInv PROVE CacheMatchesDisk
<1>1. TreeOK(cache, leaves) /\ cache \in Seq(Objects) /\ leaves \in Seq(Seq(Nat)) /\ Len(leaves) = Len(cache)
  BY DEF MatchInv, TreeInv, TreeOK
<1> SUFFICES ASSUME NEW d \in DOMAIN cache
             PROVE  /\ \A j, k \in DOMAIN leaves[d] :
                         cache[leaves[d][j]].name = cache[leaves[d][k]].name => j = k
                    /\ \A k \in DOMAIN leaves[d] :
                         LET f == cache[leaves[d][k]] IN
                         /\ f.parent = d
                         /\ cache[d].inum \in DOMAIN Entries
                         /\ f.name \in DOMAIN Entries[cache[d].inum]
                         /\ f.inum = Entries[cache[d].inum][f.name]
  BY DEF CacheMatchesDisk
<1>2. d \in 1 .. Len(cache) /\ leaves[d] \in Seq(Nat)
  BY <1>1
<1>3. DOMAIN leaves[d] = 1 .. Len(leaves[d])
  BY <1>2
<1>4. \A k \in 1 .. Len(leaves[d]) :
         /\ cache[leaves[d][k]].parent = d
         /\ cache[d].inum \in DOMAIN Entries
         /\ cache[leaves[d][k]].name \in DOMAIN Entries[cache[d].inum]
         /\ cache[leaves[d][k]].inum = Entries[cache[d].inum][cache[leaves[d][k]].name]
  <2> TAKE k \in 1 .. Len(leaves[d])
  <2>1. \A j \in 1 .. Len(leaves[d]) :
           /\ leaves[d][j] \in 1 .. Len(cache)
           /\ cache[leaves[d][j]].parent = d
           /\ cache[d].inum \in DOMAIN Entries
           /\ cache[leaves[d][j]].name \in DOMAIN Entries[cache[d].inum]
           /\ cache[leaves[d][j]].inum = Entries[cache[d].inum][cache[leaves[d][j]].name]
    BY <1>1, <1>2, Zenon DEF TreeOK
  <2> QED
    BY <2>1, Zenon
<1>5. \A j, k \in 1 .. Len(leaves[d]) : cache[leaves[d][j]].name = cache[leaves[d][k]].name => j = k
  BY <1>1, <1>2, Zenon DEF TreeOK
<1> QED
  BY <1>3, <1>4, <1>5, Zenon

(* OpenFileFromName finds the file that the path leads to on the disk, and *)
(* finds nothing exactly when it leads nowhere, for any disk, any paths    *)
(* and whatever was cached before or failed half way                       *)
(* (BrowseAndCacheDirectory, OpenFileFromName).                            *)
THEOREM FsOpenMatchesDisk == FsSpec => []OpenMatchesDisk
<1> DEFINE Inv == MatchInv /\ BoundedInv /\ ListedInv /\ NameInv /\ PriorityInv
<1>1. FsStart => Inv
  <2> SUFFICES ASSUME FsStart PROVE Inv
    OBVIOUS
  <2>1. TreeOK(cache, leaves)
    BY DEF FsStart, TreeOK
  <2>2. TreeInv
    BY <2>1, FsAssumption DEF FsStart, TreeInv, IsSequence
  <2>3. PathInv /\ AnswerOK
    BY DEF FsStart, PathInv, AnswerOK, NoRequest, NoAnswer
  <2>4. BoundedInv
    BY FsAssumption DEF FsStart, BoundedInv
  <2>5. ListedInv
    BY DEF FsStart, ListedInv, IsSequence, NoRequest, NoAnswer
  <2>6. NameInv /\ PriorityInv
    BY DEF FsStart, NameInv, OneIsInitialised, PriorityInv, NoRequest
  <2> QED
    BY <2>2, <2>3, <2>4, <2>5, <2>6 DEF MatchInv
<1>2. Inv /\ [FsNext]_fsVars => Inv'
  BY MatchStep, BoundedStep, ListedStep, NameStep, PriorityStep
<1>3. Inv => OpenMatchesDisk
  BY FsTypes, TreeMatches DEF MatchInv, AnswerOK, OpenMatchesDisk
<1> QED
  BY <1>1, <1>2, <1>3, PTL DEF FsSpec

-----------------------------------------------------------------------------
(* Disk                                                                    *)

(* During a read the interrupts are off.                                   *)
IrqInv ==
  /\ irq \in BOOLEAN /\ failed \in BOOLEAN
  /\ "state" \in DOMAIN ata
  /\ ata.state = "busy" => ~irq
  /\ ata.state # "busy" => (irq <=> ~failed)

(* What was handed out is the disk and what is in inodes and files; an     *)
(* operation in progress is for something that is not there yet.           *)
KeptInv ==
  /\ IsFiniteSet(inodes) /\ IsFiniteSet(files)
  /\ kept = (IF mounted = "ok" THEN 3 ELSE 0) + Cardinality(inodes) + Cardinality(files)
  /\ op.kind \in {"super", "group"} => mounted = "none"
  /\ op.kind = "inode" => op.num \notin {r.num : r \in inodes}
  /\ op.kind = "file" => op.num \notin {r.num : r \in files}
  /\ op = Idle => bufs = {}

(* The blocks of the disk, and the inodes that point to them.              *)
Blocks == DOMAIN Pointers
InodeType == [size : Nat, block : [1 .. DirectPtrs + 3 -> Blocks]]

(* What is read of the drive: an inode is as large as the disk says and    *)
(* where Ext2ReadInode looked; no operation is begun after MaxLeaks leaks. *)
AtaType ==
  [state : {"none", "busy", "ok", "eio"},
   dst : {"none", "super", "group", "inode", "block", "singly", "doubly"},
   offset : Nat, size : Nat, sector : Nat, errors : 0 .. MaxErrors]

AtaInv ==
  /\ inodeSize \in InodeSizes
  /\ ata \in AtaType
  /\ op.kind \in {"idle", "super", "group", "inode", "file"}
  /\ ata.dst = "inode" => ata.size = inodeSize
  /\ op.kind = "inode" => op.num \in DOMAIN FileInodes /\ ata.offset = InodeOffset(op.num)
  /\ leaks \in 0 .. MaxLeaks
  /\ op.kind # "idle" /\ ata.state # "eio" => leaks < MaxLeaks
  /\ ata.state # "none" => op.kind # "idle"
  /\ CopiesFit

(* The inodes that were read are those of the disk, one of each number.    *)
InodesInv ==
  /\ \A r \in inodes : r.inode \in InodeType
  /\ \A r, s \in inodes : r.num = s.num => r = s
  /\ op.kind = "file" => \E r \in inodes : r.num = op.num

(* How far Ext2ReadFile can be in the pointers, in each of its phases, and *)
(* how much it has copied.                                                 *)
PlaceType ==
  [phase : {"none", "direct", "singly", "double", "doubly", "doublydata", "end"},
   i : Nat, j : Nat, left : Nat, singly : Blocks, doubly : Blocks]

PlaceInv ==
  /\ st \in PlaceType
  /\ content \in Seq(Nat)
  /\ op.kind = "file" => Len(content) + st.left = Inode.size
  /\ st.phase \in {"none", "double", "end"} => st.i = 0
  /\ st.phase = "direct" => st.i <= DirectPtrs
  /\ st.phase \in {"singly", "doubly"} => st.i <= PtrsPerBlock
  /\ st.phase = "doublydata" => st.i < PtrsPerBlock
  /\ st.j <= PtrsPerBlock
  /\ op.kind = "file" /\ ata.state # "none" /\ ata.dst = "block" =>
       \/ st.phase = "direct" /\ st.i < DirectPtrs
       \/ st.phase = "singly" /\ st.i < PtrsPerBlock
       \/ st.phase = "doublydata" /\ st.j < PtrsPerBlock

DiskInv == AtaInv /\ InodesInv /\ PlaceInv

-----------------------------------------------------------------------------
(* No read of the drive is in progress between the calls of AtaRead.       *)
LEMMA NoReadState == "state" \in DOMAIN NoRead /\ NoRead.state = "none"
BY DEF NoRead

(* The beginning of a read.                                                *)
LEMMA AtaReadBusy ==
  ASSUME IrqInv, NEW dst, NEW offset, NEW size, AtaRead(dst, offset, size), UNCHANGED failed
  PROVE  IrqInv'
BY DEF IrqInv, AtaRead

(* The end of a read leaves the interrupts as they are.                    *)
LEMMA AtaForgotten ==
  ASSUME IrqInv, ata.state # "busy", ata' = NoRead, UNCHANGED <<irq, failed>>
  PROVE  IrqInv'
BY NoReadState DEF IrqInv

(* Every step of the drive and of the file system.                         *)
LEMMA IrqStep == IrqInv /\ [DiskNext]_diskVars => IrqInv'
<1> SUFFICES ASSUME IrqInv, [DiskNext]_diskVars PROVE IrqInv'
  OBVIOUS
<1>1. CASE SectorRead
  BY <1>1 DEF SectorRead, IrqInv
<1>2. CASE SectorRetry
  BY <1>2 DEF SectorRetry, IrqInv
<1>3. CASE SectorGivenUp
  BY <1>3 DEF SectorGivenUp, IrqInv
<1>4. CASE AtaReadEnds
  BY <1>4 DEF AtaReadEnds, Enabled, IrqInv
<1>5. ASSUME \E dst, offset, size : AtaRead(dst, offset, size), UNCHANGED failed PROVE IrqInv'
  BY <1>5, AtaReadBusy
<1>6. ASSUME UNCHANGED <<ata, irq, failed>> PROVE IrqInv'
  BY <1>6 DEF IrqInv
<1>7. CASE ReadSuperBlock \/ ReadGroupDesc \/ \E num \in DOMAIN FileInodes : Ext2ReadInode(num)
  BY <1>5, <1>7 DEF ReadSuperBlock, ReadGroupDesc, Ext2ReadInode
<1>8. CASE MountEnds \/ MountFails \/ InodeEnds \/ InodeFails \/ FileFails \/ BlockRead \/ PointersRead
  <2>1. ata.state # "busy" /\ ata' = NoRead /\ UNCHANGED <<irq, failed>>
    BY <1>8 DEF MountEnds, MountFails, InodeEnds, InodeFails, FileFails, BlockRead, PointersRead, Return
  <2> QED
    BY <2>1, AtaForgotten
<1>9. CASE FileEnds
  <2>1. ata.state # "busy" /\ ata' = NoRead /\ UNCHANGED <<irq, failed>>
    BY <1>9, NoReadState DEF FileEnds, InFile, Return
  <2> QED
    BY <2>1, AtaForgotten
<1>10. CASE AtaInitFails
  BY <1>6, <1>10 DEF AtaInitFails
<1>11. CASE \E num \in DOMAIN FileInodes : Ext2ReadFile(num)
  BY <1>6, <1>11 DEF Ext2ReadFile
<1>12. ASSUME NEW dst, NEW b, ReadBlock(dst, b) PROVE IrqInv'
  BY <1>5, <1>12 DEF ReadBlock
<1>13. ASSUME NEW phase, GoTo(phase) PROVE IrqInv'
  BY <1>6, <1>13 DEF GoTo
<1>14. CASE DirectBlock
  BY <1>12, <1>14 DEF DirectBlock
<1>15. CASE SinglyBlock
  BY <1>12, <1>13, <1>15 DEF SinglyBlock
<1>16. CASE SinglyData
  BY <1>12, <1>13, <1>16 DEF SinglyData
<1>17. CASE DoublyBlock
  BY <1>5, <1>13, <1>17 DEF DoublyBlock
<1>18. CASE DoublyPointers
  BY <1>12, <1>13, <1>18 DEF DoublyPointers
<1>19. CASE DoublyData
  BY <1>6, <1>12, <1>19 DEF DoublyData
<1>20. CASE UNCHANGED diskVars
  BY <1>6, <1>20 DEF diskVars
<1> QED
  BY <1>1, <1>2, <1>3, <1>4, <1>7, <1>8, <1>9, <1>10, <1>11, <1>14, <1>15, <1>16, <1>17, <1>18,
     <1>19, <1>20
  DEF DiskNext, Drive, Reading

-----------------------------------------------------------------------------
(* Something new is one more.                                              *)
LEMMA OneMore ==
  ASSUME NEW S, IsFiniteSet(S), NEW x, x.num \notin {r.num : r \in S}
  PROVE  IsFiniteSet(S \cup {x}) /\ Cardinality(S \cup {x}) = Cardinality(S) + 1
<1>1. x \notin S
  OBVIOUS
<1> QED
  BY <1>1, FS_AddElement

(* What neither begins nor ends an operation keeps what was handed out.    *)
LEMMA KeptUntouched ==
  ASSUME KeptInv, UNCHANGED <<op, resultVars>>, op # Idle \/ UNCHANGED bufs
  PROVE  KeptInv'
BY DEF KeptInv, resultVars

(* Every step of the drive and of the file system.                         *)
LEMMA KeptStep == KeptInv /\ [DiskNext]_diskVars => KeptInv'
<1> SUFFICES ASSUME KeptInv, [DiskNext]_diskVars PROVE KeptInv'
  OBVIOUS
<1>0. Cardinality(inodes) \in Nat /\ Cardinality(files) \in Nat
  BY FS_CardinalityType DEF KeptInv
<1>1. CASE Drive
  <2>1. UNCHANGED <<op, resultVars>> /\ UNCHANGED bufs
    BY <1>1 DEF Drive, SectorRead, SectorRetry, SectorGivenUp, AtaReadEnds
  <2> QED
    BY <2>1, KeptUntouched
<1>2. CASE AtaInitFails
  BY <1>2 DEF AtaInitFails, Begins, KeptInv, Idle
<1>3. CASE ReadSuperBlock
  BY <1>3 DEF ReadSuperBlock, Begins, KeptInv, resultVars, Idle
<1>4. CASE ReadGroupDesc
  BY <1>4 DEF ReadGroupDesc, KeptInv, resultVars, Idle
<1>5. CASE MountEnds
  BY <1>0, <1>5 DEF MountEnds, Return, Cleaned, KeptInv, Idle
<1>6. CASE MountFails
  BY <1>0, <1>6 DEF MountFails, Return, Cleaned, KeptInv, Idle
<1>7. ASSUME NEW num \in DOMAIN FileInodes, Ext2ReadInode(num) PROVE KeptInv'
  BY <1>7 DEF Ext2ReadInode, KeptInv, resultVars, Idle
<1>8. CASE InodeEnds
  <2> DEFINE r == [num |-> op.num, inode |-> InodeAt(ata.offset)]
  <2>1. /\ inodes' = inodes \cup {r} /\ op' = Idle /\ bufs' = {} /\ kept' = kept + 1
        /\ UNCHANGED <<mounted, files>>
    BY <1>8 DEF InodeEnds, Return, Cleaned
  <2>2. r.num \notin {s.num : s \in inodes} /\ IsFiniteSet(inodes)
    BY <1>8 DEF InodeEnds, KeptInv
  <2> HIDE DEF r
  <2>3. IsFiniteSet(inodes') /\ Cardinality(inodes') = Cardinality(inodes) + 1
    BY <2>1, <2>2, OneMore
  <2> QED
    BY <1>0, <2>1, <2>3 DEF KeptInv, Idle
<1>9. CASE InodeFails
  BY <1>0, <1>9 DEF InodeFails, Return, Cleaned, KeptInv, Idle
<1>10. ASSUME NEW num \in DOMAIN FileInodes, Ext2ReadFile(num) PROVE KeptInv'
  BY <1>10 DEF Ext2ReadFile, KeptInv, resultVars, Idle
<1>11. CASE DirectBlock \/ SinglyBlock \/ SinglyData \/ DoublyBlock \/ DoublyPointers \/ DoublyData
  <2>1. op # Idle
    BY <1>11 DEF DirectBlock, SinglyBlock, SinglyData, DoublyBlock, DoublyPointers, DoublyData,
       InFile, Idle
  <2>2. UNCHANGED <<op, resultVars>>
    BY <1>11 DEF DirectBlock, SinglyBlock, SinglyData, DoublyBlock, DoublyPointers, DoublyData,
       ReadBlock, GoTo
  <2> QED
    BY <2>1, <2>2, KeptUntouched
<1>12. CASE BlockRead \/ PointersRead
  <2>1. UNCHANGED <<op, resultVars>> /\ UNCHANGED bufs
    BY <1>12 DEF BlockRead, PointersRead
  <2> QED
    BY <2>1, KeptUntouched
<1>13. CASE FileEnds
  <2> DEFINE r == [num |-> op.num, content |-> content]
  <2>1. /\ files' = files \cup {r} /\ op' = Idle /\ bufs' = {} /\ kept' = kept + 1
        /\ UNCHANGED <<mounted, inodes>>
    BY <1>13 DEF FileEnds, Return, Cleaned
  <2>2. r.num \notin {s.num : s \in files} /\ IsFiniteSet(files)
    BY <1>13 DEF FileEnds, InFile, KeptInv
  <2> HIDE DEF r
  <2>3. IsFiniteSet(files') /\ Cardinality(files') = Cardinality(files) + 1
    BY <2>1, <2>2, OneMore
  <2> QED
    BY <1>0, <2>1, <2>3 DEF KeptInv, Idle
<1>14. CASE FileFails
  BY <1>0, <1>14 DEF FileFails, Return, Cleaned, KeptInv, Idle
<1>15. CASE UNCHANGED diskVars
  BY <1>15 DEF diskVars, KeptInv
<1> QED
  BY <1>1, <1>2, <1>3, <1>4, <1>5, <1>6, <1>7, <1>8, <1>9, <1>10, <1>11, <1>12, <1>13, <1>14, <1>15
  DEF DiskNext, Reading

-----------------------------------------------------------------------------
(* Multiplication of naturals.                                             *)
LEMMA NatProduct == ASSUME NEW a \in Nat, NEW b \in Nat PROVE a * b \in Nat
OBVIOUS

(* A number of sectors, and what is left of the last one.                  *)
LEMMA DivMod ==
  ASSUME NEW a \in Nat, NEW n \in Nat \ {0}
  PROVE  /\ a \div n \in Nat /\ a % n \in 0 .. n - 1
         /\ a = (a \div n) * n + (a % n)
OBVIOUS

(* The range that AtaRead copies lies in the sectors it read.              *)
LEMMA RangeInSectors ==
  ASSUME NEW offset \in Nat, NEW size \in Nat
  PROVE  (offset % SectorSize) + size <= NbBlocks(offset, size) * SectorSize
<1>1. SectorSize \in Nat \ {0}
  BY DiskAssumption
<1>2. PICK s : s = SectorSize
  OBVIOUS
<1>3. PICK p, r : p = offset \div s /\ r = offset % s
  OBVIOUS
<1>4. PICK q, t : q = (offset + size) \div s /\ t = (offset + size) % s
  OBVIOUS
<1>5. p \in Nat /\ r \in 0 .. s - 1 /\ offset = p * s + r
  BY <1>1, <1>2, <1>3, DivMod
<1>6. q \in Nat /\ t \in 0 .. s - 1 /\ offset + size = q * s + t
  <2>1. offset + size \in Nat
    OBVIOUS
  <2> QED
    BY <1>1, <1>2, <1>4, <2>1, DivMod
<1>7. (q - p + 1) * s = q * s - p * s + s
  BY <1>1, <1>2, <1>5, <1>6
<1>8. p * s \in Nat /\ q * s \in Nat
  BY <1>1, <1>2, <1>5, <1>6, NatProduct
<1>9. r + size <= (q - p + 1) * s
  <2>1. PICK ps, qs : ps = p * s /\ qs = q * s
    OBVIOUS
  <2>2. ps \in Nat /\ qs \in Nat /\ offset = ps + r /\ offset + size = qs + t
    BY <1>5, <1>6, <1>8, <2>1
  <2>3. r + size <= qs - ps + s
    BY <1>1, <1>2, <1>5, <1>6, <2>2
  <2> QED
    BY <1>7, <2>1, <2>3
<1> QED
  BY <1>2, <1>3, <1>4, <1>9 DEF NbBlocks

(* Ext2ReadInode looks for an inode in a group of the disk.                *)
LEMMA InodeGroup ==
  ASSUME NEW num \in DOMAIN FileInodes
  PROVE  /\ num \in Nat
         /\ (num - 1) \div InodesPerGroup + 1 \in 1 .. Len(InodeTable)
         /\ (num - 1) % InodesPerGroup \in 0 .. InodesPerGroup - 1
         /\ num = ((num - 1) \div InodesPerGroup) * InodesPerGroup + ((num - 1) % InodesPerGroup) + 1
<1>1. InodesPerGroup \in Nat \ {0} /\ Len(InodeTable) \in Nat
  BY DiskAssumption
<1>2. PICK n, l : n = InodesPerGroup /\ l = Len(InodeTable)
  OBVIOUS
<1>3. num \in 1 .. l * n /\ num \in Nat /\ num - 1 \in Nat
  <2>1. num \in 1 .. l * n
    BY <1>2, PointersAssumption
  <2>2. l * n \in Nat
    BY <1>1, <1>2, NatProduct
  <2> QED
    BY <2>1, <2>2
<1>4. PICK g, k : g = (num - 1) \div n /\ k = (num - 1) % n
  OBVIOUS
<1>5. g \in Nat /\ k \in 0 .. n - 1 /\ num - 1 = g * n + k
  BY <1>1, <1>2, <1>3, <1>4, DivMod
<1>6. g < l
  <2>1. SUFFICES ASSUME g >= l PROVE FALSE
    BY <1>1, <1>2, <1>5
  <2>2. PICK d : d = g - l
    OBVIOUS
  <2>3. d \in Nat /\ g * n = l * n + d * n
    BY <1>1, <1>2, <1>5, <2>1, <2>2
  <2>4. d * n \in Nat /\ l * n \in Nat /\ g * n \in Nat
    BY <1>1, <1>2, <1>5, <2>3, NatProduct
  <2>5. num - 1 >= l * n
    BY <1>1, <1>2, <1>3, <1>5, <2>3, <2>4
  <2> QED
    BY <1>3, <2>4, <2>5
<1>7. num = g * n + k + 1
  BY <1>1, <1>2, <1>3, <1>5, NatProduct
<1>8. g + 1 \in 1 .. l
  BY <1>1, <1>2, <1>5, <1>6
<1> QED
  BY ONLY <1>2, <1>3, <1>4, <1>5, <1>7, <1>8, Zenon

(* Where it looks is an address, and an inode of the disk is there.        *)
LEMMA InodeFound ==
  ASSUME inodeSize \in InodeSizes, NEW num \in DOMAIN FileInodes
  PROVE  InodeOffset(num) \in Nat /\ InodeAt(InodeOffset(num)) \in InodeType
<1> DEFINE g == (num - 1) \div InodesPerGroup
           k == (num - 1) % InodesPerGroup
<1>1. /\ num \in Nat /\ g + 1 \in 1 .. Len(InodeTable) /\ k \in 0 .. InodesPerGroup - 1
      /\ num = g * InodesPerGroup + k + 1
  BY InodeGroup
<1>2. InodeOffset(num) = InodeTable[g + 1] * BlockSize + k * inodeSize
  BY DEF InodeOffset
<1>3. g \in Int /\ (g + 1) - 1 = g
  <2>1. num - 1 \in Int /\ InodesPerGroup \in Nat \ {0}
    BY <1>1, DiskAssumption
  <2> QED
    BY <2>1
<1> HIDE DEF g, k
<1>4. InodeTable[g + 1] \in Nat /\ BlockSize \in Nat /\ inodeSize \in Nat /\ k \in Nat
  BY <1>1, DiskAssumption
<1>5. InodeOffset(num) \in Nat
  <2>1. InodeTable[g + 1] * BlockSize \in Nat /\ k * inodeSize \in Nat
    BY <1>4, NatProduct
  <2> QED
    BY <1>2, <2>1
<1> DEFINE At(n) == \E h \in 1 .. Len(InodeTable), i \in 0 .. InodesPerGroup - 1 :
                      /\ n = (h - 1) * InodesPerGroup + i + 1
                      /\ InodeOffset(num) = InodeTable[h] * BlockSize + i * inodeSize
<1>6. At(num)
  <2>1. num = ((g + 1) - 1) * InodesPerGroup + k + 1
    BY <1>1, <1>3
  <2> QED
    BY <1>1, <1>2, <2>1
<1>7. InodeAt(InodeOffset(num)) = FileInodes[CHOOSE n \in DOMAIN FileInodes : At(n)]
  BY DEF InodeAt
<1> HIDE DEF At
<1>8. (CHOOSE n \in DOMAIN FileInodes : At(n)) \in DOMAIN FileInodes
  BY <1>6
<1> QED
  BY <1>5, <1>7, <1>8, PointersAssumption DEF InodeType, Blocks

-----------------------------------------------------------------------------
(* No read is in progress between operations and between blocks.           *)
LEMMA NoReadTyped ==
  /\ NoRead \in AtaType
  /\ NoRead.state = "none" /\ NoRead.dst = "none"
BY DiskAssumption DEF NoRead, AtaType

(* The beginning of a read, of an operation that goes on.                  *)
LEMMA ReadBegins ==
  ASSUME AtaInv, NEW offset \in Nat, NEW size \in Nat,
         NEW dst \in {"super", "group", "inode", "block", "singly", "doubly"},
         AtaRead(dst, offset, size), dst = "inode" => size = inodeSize,
         op'.kind \in {"super", "group", "inode", "file"},
         op'.kind = "inode" => op'.num \in DOMAIN FileInodes /\ offset = InodeOffset(op'.num),
         leaks < MaxLeaks, UNCHANGED <<inodeSize, leaks, overrun>>
  PROVE  AtaInv'
<1>1. ata'.offset = offset /\ ata'.state = "busy" /\ ata'.dst = dst /\ ata'.size = size
  BY DEF AtaRead
<1>2. op'.kind = "inode" => op'.num \in DOMAIN FileInodes /\ ata'.offset = InodeOffset(op.num)'
  BY <1>1 DEF InodeOffset
<1>3. ata' \in AtaType
  BY DiskAssumption DEF AtaRead, AtaType
<1>4. CopiesFit'
  BY DEF AtaInv, CopiesFit
<1> QED
  BY <1>1, <1>2, <1>3, <1>4 DEF AtaInv

(* Nothing is read: an operation ends, or goes on without the drive.       *)
LEMMA ReadForgotten ==
  ASSUME AtaInv, ata' = NoRead, op'.kind \in {"idle", "file"},
         op'.kind = "file" => leaks < MaxLeaks, UNCHANGED <<inodeSize, leaks, overrun>>
  PROVE  AtaInv'
<1>1. CopiesFit'
  BY DEF AtaInv, CopiesFit
<1> QED
  BY <1>1, NoReadTyped DEF AtaInv

(* The next sector of a read.                                              *)
LEMMA NextSector ==
  ASSUME NEW a \in AtaType, NEW n \in Nat, NEW b, b = [a EXCEPT !.sector = n, !.errors = 0]
  PROVE  b \in AtaType /\ b.state = a.state /\ b.dst = a.dst /\ b.offset = a.offset /\ b.size = a.size
<1>1. 0 \in 0 .. MaxErrors
  BY DiskAssumption
<1> QED
  BY <1>1 DEF AtaType

(* The steps of the drive.                                                 *)
LEMMA DriveAta == AtaInv /\ Drive => AtaInv'
<1> SUFFICES ASSUME AtaInv, Drive PROVE AtaInv'
  OBVIOUS
<1>0. MaxErrors \in Nat /\ MaxLeaks \in Nat
  BY DiskAssumption
<1>1. inodeSize' = inodeSize /\ op' = op
  BY DEF Drive, SectorRead, SectorRetry, SectorGivenUp, AtaReadEnds
<1>2. InodeOffset(op.num)' = InodeOffset(op.num)
  BY <1>1 DEF InodeOffset
<1>3. CASE SectorRead
  <2>1. CopiesFit'
    BY <1>3 DEF SectorRead, AtaInv, CopiesFit
  <2> QED
    <3>1. ata.sector \in Nat
      BY DEF AtaInv, AtaType
    <3>2. PICK n \in Nat : n = ata.sector + 1
      BY <3>1
    <3>3. ata' = [ata EXCEPT !.sector = n, !.errors = 0] /\ leaks' = leaks
      BY <1>3, <3>2 DEF SectorRead
    <3>4. ata' \in AtaType /\ ata'.state = ata.state /\ ata'.dst = ata.dst
          /\ ata'.offset = ata.offset /\ ata'.size = ata.size
      BY <3>3, NextSector DEF AtaInv
    <3> QED
      BY <1>1, <1>2, <2>1, <3>3, <3>4 DEF AtaInv
<1>4. CASE SectorRetry
  <2>1. CopiesFit'
    BY <1>4 DEF SectorRetry, AtaInv, CopiesFit
  <2> QED
    BY <1>0, <1>1, <1>2, <1>4, <2>1 DEF SectorRetry, Counted, AtaInv, AtaType
<1>5. CASE SectorGivenUp
  <2>1. CopiesFit'
    BY <1>5 DEF SectorGivenUp, AtaInv, CopiesFit
  <2> QED
    BY <1>0, <1>1, <1>2, <1>5, <2>1 DEF SectorGivenUp, AtaInv, AtaType
<1>6. CASE AtaReadEnds
  <2>1. ata.offset \in Nat /\ ata.size \in Nat
    BY DEF AtaInv, AtaType
  <2>2. (ata.offset % SectorSize) + ata.size <= ata.sector * SectorSize
    BY <1>6, <2>1, RangeInSectors DEF AtaReadEnds
  <2>3. ~((ata.offset % SectorSize) + ata.size > ata.sector * SectorSize)
    <3>1. SectorSize \in Nat \ {0} /\ ata.sector \in Nat
      BY DiskAssumption DEF AtaInv, AtaType
    <3>2. (ata.offset % SectorSize) + ata.size \in Nat
      BY <2>1, <3>1, DivMod
    <3>3. ata.sector * SectorSize \in Nat
      BY <3>1, NatProduct
    <3> QED
      BY <2>2, <3>2, <3>3
  <2>4. overrun' \subseteq overrun \cup (IF ata.size > RoomOf(ata.dst) THEN {"destination"} ELSE {})
    BY <1>6, <2>3 DEF AtaReadEnds
  <2>5. ata.size > RoomOf(ata.dst) => inodeSize > InodeStruct
    <3>1. ata.dst = "inode" => RoomOf(ata.dst) = InodeStruct /\ ata.size = inodeSize
      BY DEF RoomOf, AtaInv
    <3>2. ata.dst # "inode" => RoomOf(ata.dst) = ata.size
      BY DEF RoomOf
    <3> QED
      BY <2>1, <3>1, <3>2
  <2>6. CopiesFit'
    BY <1>1, <2>4, <2>5 DEF AtaInv, CopiesFit
  <2>7. ata' = [ata EXCEPT !.state = "ok"] /\ leaks' = leaks
    BY <1>6 DEF AtaReadEnds
  <2> QED
    BY <1>0, <1>1, <1>2, <1>6, <2>6, <2>7 DEF AtaReadEnds, AtaInv, AtaType
<1> QED
  BY <1>3, <1>4, <1>5, <1>6 DEF Drive

(* A step that leaves the inodes and the operation alone.                  *)
LEMMA InodesUntouched ==
  ASSUME InodesInv, UNCHANGED inodes, op' = op \/ op'.kind # "file"
  PROVE  InodesInv'
BY DEF InodesInv

(* A step that leaves the place in the file alone.                         *)
LEMMA PlaceUntouched ==
  ASSUME PlaceInv, UNCHANGED <<st, content>>,
         op'.kind # "file" \/ UNCHANGED <<op, inodes>>,
         op'.kind # "file" \/ ata'.state = "none" \/ ata'.dst # "block"
           \/ (ata'.dst = ata.dst /\ ata.state # "none")
  PROVE  PlaceInv'
<1>1. op'.kind = "file" => Inode' = Inode
  BY DEF Inode
<1> QED
  BY <1>1 DEF PlaceInv

(* The inode of the operation.                                             *)
LEMMA InodeTyped ==
  ASSUME InodesInv, op.kind = "file"
  PROVE  /\ Inode \in InodeType
         /\ Singly \in Blocks /\ Doubly \in Blocks
         /\ \A i \in Nat : i < DirectPtrs => Inode.block[i + 1] \in Blocks
<1>1. PICK r \in inodes : r = CHOOSE s \in inodes : s.num = op.num
  BY DEF InodesInv
<1>2. Inode \in InodeType
  BY <1>1 DEF Inode, InodesInv
<1>3. DirectPtrs \in Nat
  BY DiskAssumption
<1> QED
  BY <1>2, <1>3 DEF Singly, Doubly, InodeType

(* Pointers are numbers of blocks.                                         *)
LEMMA PointerTyped ==
  ASSUME NEW b \in Blocks, NEW i \in Nat, i < PtrsPerBlock
  PROVE  Pointers[b][i + 1] \in Blocks
<1>1. i + 1 \in 1 .. PtrsPerBlock
  BY DiskAssumption
<1>2. Pointers[b] \in [1 .. PtrsPerBlock -> Blocks]
  BY PointersAssumption DEF Blocks
<1> QED
  BY <1>1, <1>2

(* The fields of a place.                                                  *)
LEMMA PlaceFields ==
  ASSUME NEW s \in PlaceType
  PROVE  /\ s.i \in Nat /\ s.j \in Nat /\ s.left \in Nat /\ s.singly \in Blocks /\ s.doubly \in Blocks
         /\ s.phase \in {"none", "direct", "singly", "double", "doubly", "doublydata", "end"}
BY DEF PlaceType

(* Where a block begins.                                                   *)
LEMMA BlockAddress ==
  ASSUME NEW b \in Blocks PROVE b * BlockSize \in Nat /\ BlockSize \in Nat
<1>1. b \in Nat /\ BlockSize \in Nat
  BY DiskAssumption, PointersAssumption DEF Blocks
<1> QED
  BY <1>1, NatProduct

-----------------------------------------------------------------------------
(* Steps outside of files.                                                 *)
LEMMA OperationStep ==
  ASSUME DiskInv, KeptInv,
         \/ Drive \/ AtaInitFails \/ ReadSuperBlock \/ ReadGroupDesc \/ MountEnds \/ MountFails
         \/ (\E num \in DOMAIN FileInodes : Ext2ReadInode(num)) \/ InodeEnds \/ InodeFails
  PROVE  DiskInv'
<1> USE DEF DiskInv
<1>0. BlockSize \in Nat /\ 2 * BlockSize \in Nat /\ Len(InodeTable) \in Nat /\ InodeSizes \subseteq Nat
  BY DiskAssumption
<1>1. CASE Drive
  <2>1. /\ UNCHANGED <<op, st, content, inodes>> /\ ata'.dst = ata.dst
        /\ ata.state # "none"
    BY <1>1 DEF Drive, SectorRead, SectorRetry, SectorGivenUp, AtaReadEnds, resultVars, AtaInv,
       AtaType
  <2> QED
    BY <1>1, <2>1, DriveAta, InodesUntouched, PlaceUntouched
<1>2. CASE AtaInitFails
  <2>1. op' = Idle /\ ata' = NoRead /\ UNCHANGED <<inodeSize, op, st, content, leaks, inodes, overrun>>
    BY <1>2 DEF AtaInitFails, Begins
  <2>2. Idle.kind = "idle"
    BY DEF Idle
  <2> QED
    BY <2>1, <2>2, ReadForgotten, InodesUntouched, PlaceUntouched
<1>3. CASE ReadSuperBlock
  <2>1. /\ AtaRead("super", BlockSize, BlockSize) /\ op'.kind = "super" /\ leaks < MaxLeaks
        /\ UNCHANGED <<inodeSize, st, content, leaks, inodes, overrun>>
    BY <1>3 DEF ReadSuperBlock, Begins, resultVars
  <2> QED
    BY <1>0, <2>1, ReadBegins, InodesUntouched, PlaceUntouched
<1>4. CASE ReadGroupDesc
  <2>1. /\ AtaRead("group", 2 * BlockSize, Len(InodeTable)) /\ op'.kind = "group"
        /\ UNCHANGED <<inodeSize, st, content, leaks, inodes, overrun>>
    BY <1>4 DEF ReadGroupDesc, resultVars
  <2>2. leaks < MaxLeaks
    BY <1>4 DEF ReadGroupDesc, AtaInv
  <2> QED
    BY <1>0, <2>1, <2>2, ReadBegins, InodesUntouched, PlaceUntouched
<1>5. CASE MountEnds \/ MountFails \/ InodeFails
  <2>1. /\ ata' = NoRead /\ op'.kind = "idle"
        /\ UNCHANGED <<inodeSize, st, content, leaks, inodes, overrun>>
    BY <1>5 DEF MountEnds, MountFails, InodeFails, Return, Idle
  <2> QED
    BY <2>1, ReadForgotten, InodesUntouched, PlaceUntouched
<1>6. ASSUME NEW num \in DOMAIN FileInodes, Ext2ReadInode(num) PROVE DiskInv'
  <2>1. /\ AtaRead("inode", InodeOffset(num), inodeSize) /\ op'.kind = "inode" /\ op'.num = num
        /\ leaks < MaxLeaks /\ UNCHANGED <<inodeSize, st, content, leaks, inodes, overrun>>
    BY <1>6 DEF Ext2ReadInode, Begins, resultVars
  <2>2. InodeOffset(num) \in Nat /\ inodeSize \in Nat
    BY <1>0, InodeFound DEF AtaInv
  <2>3. AtaInv'
    BY <2>1, <2>2, ReadBegins
  <2> QED
    BY <2>1, <2>3, InodesUntouched, PlaceUntouched
<1>7. CASE InodeEnds
  <2>1. /\ inodes' = inodes \cup {[num |-> op.num, inode |-> InodeAt(ata.offset)]}
        /\ ata' = NoRead /\ op'.kind = "idle"
        /\ UNCHANGED <<inodeSize, st, content, leaks, overrun>>
    BY <1>7 DEF InodeEnds, Return, Idle
  <2>2. InodeAt(ata.offset) \in InodeType
    BY <1>7, InodeFound DEF InodeEnds, AtaInv
  <2>3. \A r \in inodes : r.num # op.num
    BY <1>7 DEF InodeEnds, KeptInv
  <2>4. InodesInv'
    BY <2>1, <2>2, <2>3 DEF InodesInv
  <2> QED
    BY <2>1, <2>4, ReadForgotten, PlaceUntouched
<1> QED
  BY <1>1, <1>2, <1>3, <1>4, <1>5, <1>6, <1>7

(* A block of the file, or of pointers, is asked for.                      *)
LEMMA ReadBlockAta ==
  ASSUME AtaInv, op.kind = "file", leaks < MaxLeaks,
         NEW dst \in {"block", "singly", "doubly"}, NEW b \in Blocks,
         AtaRead(dst, b * BlockSize, BlockSize), UNCHANGED <<inodeSize, op, leaks, overrun>>
  PROVE  AtaInv'
<1>1. b * BlockSize \in Nat /\ BlockSize \in Nat
  BY BlockAddress
<1> QED
  BY <1>1, ReadBegins

(* Ext2ReadFile between two reads: where the steps go in the file.         *)
LEMMA ReadFileStep ==
  ASSUME DiskInv,
         DirectBlock \/ SinglyBlock \/ SinglyData \/ DoublyBlock \/ DoublyPointers \/ DoublyData
  PROVE  DiskInv'
<1> USE DEF DiskInv
<1>0. DirectPtrs \in Nat /\ PtrsPerBlock \in Nat
  BY DiskAssumption
<1>1. op.kind = "file" /\ ata = NoRead /\ leaks < MaxLeaks
  <2>1. op.kind = "file" /\ ata = NoRead
    BY DEF DirectBlock, SinglyBlock, SinglyData, DoublyBlock, DoublyPointers, DoublyData, InFile
  <2> QED
    BY <2>1, NoReadTyped DEF AtaInv
<1>2. UNCHANGED <<inodeSize, op, content, leaks, inodes, overrun>>
  BY DEF DirectBlock, SinglyBlock, SinglyData, DoublyBlock, DoublyPointers, DoublyData, ReadBlock,
     GoTo, resultVars
<1>3. InodesInv' /\ Inode' = Inode
  BY <1>2, InodesUntouched DEF Inode
<1>4. ASSUME NEW phase \in {"double", "end"}, GoTo(phase) PROVE DiskInv'
  <2>1. AtaInv'
    BY <1>1, <1>2, <1>4, ReadForgotten DEF GoTo
  <2>2. PlaceInv'
    <3>1. st' \in PlaceType /\ st'.phase = phase /\ st'.i = 0 /\ st'.j = 0 /\ st'.left = st.left
      BY <1>4 DEF GoTo, PlaceInv, PlaceType
    <3>2. ata'.state = "none"
      BY <1>1, <1>4, NoReadTyped DEF GoTo
    <3> QED
      BY <1>0, <1>1, <1>2, <1>3, <3>1, <3>2 DEF PlaceInv
  <2> QED
    BY <1>3, <2>1, <2>2
<1>5. ASSUME NEW dst \in {"block", "singly", "doubly"}, NEW b \in Blocks,
             AtaRead(dst, b * BlockSize, BlockSize)
      PROVE  AtaInv' /\ ata'.dst = dst
  BY <1>1, <1>2, <1>5, ReadBlockAta DEF AtaRead
<1>6. CASE DirectBlock
  <2>1. Inode.block[st.i + 1] \in Blocks
    BY <1>1, <1>6, InodeTyped, PlaceFields DEF DirectBlock, HasDirect, PlaceInv
  <2>2. AtaInv'
    BY <1>5, <1>6, <2>1 DEF DirectBlock, ReadBlock
  <2>3. PlaceInv'
    BY <1>2, <1>3, <1>6 DEF DirectBlock, InFile, HasDirect, PlaceInv
  <2> QED
    BY <1>3, <2>2, <2>3
<1>7. CASE SinglyBlock
  <2>1. CASE Singly # 0
    <3>1. Singly \in Blocks
      BY <1>1, InodeTyped
    <3>2. /\ st' = [st EXCEPT !.phase = "singly", !.i = 0, !.singly = Singly]
          /\ AtaInv' /\ ata'.dst = "singly"
      BY <1>5, <1>7, <2>1, <3>1 DEF SinglyBlock, ReadBlock
    <3>3. PlaceInv'
      <4>1. /\ st' \in PlaceType /\ st'.phase \in {"singly", "doubly"} /\ st'.i = 0
            /\ st'.j = st.j /\ st'.left = st.left
        BY <3>1, <3>2 DEF PlaceInv, PlaceType
      <4> QED
        BY <1>0, <1>2, <1>3, <3>2, <4>1 DEF PlaceInv
    <3> QED
      BY <1>3, <3>2, <3>3
  <2> QED
    BY <1>4, <1>7, <2>1 DEF SinglyBlock
<1>8. CASE SinglyData
  <2>1. CASE HasSingly
    <3>1. Pointers[st.singly][st.i + 1] \in Blocks
      BY <2>1, PointerTyped, PlaceFields DEF HasSingly, PlaceInv
    <3>2. AtaInv' /\ st' = st /\ st.phase = "singly"
      BY <1>5, <1>8, <2>1, <3>1 DEF SinglyData, InFile, ReadBlock
    <3>3. PlaceInv'
      BY <1>2, <1>3, <2>1, <3>2 DEF HasSingly, PlaceInv
    <3> QED
      BY <1>3, <3>2, <3>3
  <2> QED
    BY <1>4, <1>8, <2>1 DEF SinglyData
<1>9. CASE DoublyBlock
  <2>1. CASE Doubly # 0
    <3>1. Doubly \in Blocks
      BY <1>1, InodeTyped
    <3>2. /\ st' = [st EXCEPT !.phase = "doubly", !.i = 0, !.singly = Doubly]
          /\ AtaInv' /\ ata'.dst = "singly"
      BY <1>5, <1>9, <2>1, <3>1 DEF DoublyBlock
    <3>3. PlaceInv'
      <4>1. /\ st' \in PlaceType /\ st'.phase \in {"singly", "doubly"} /\ st'.i = 0
            /\ st'.j = st.j /\ st'.left = st.left
        BY <3>1, <3>2 DEF PlaceInv, PlaceType
      <4> QED
        BY <1>0, <1>2, <1>3, <3>2, <4>1 DEF PlaceInv
    <3> QED
      BY <1>3, <3>2, <3>3
  <2> QED
    BY <1>4, <1>9, <2>1 DEF DoublyBlock
<1>10. CASE DoublyPointers
  <2>1. CASE HasSingly
    <3> DEFINE b == Pointers[st.singly][st.i + 1]
    <3>1. b \in Blocks
      BY <2>1, PointerTyped, PlaceFields DEF HasSingly, PlaceInv
    <3>2. /\ st' = [st EXCEPT !.phase = "doublydata", !.j = 0, !.doubly = b]
          /\ AtaRead("doubly", b * BlockSize, BlockSize)
      BY <1>10, <2>1 DEF DoublyPointers, ReadBlock
    <3> HIDE DEF b
    <3>3. AtaInv' /\ ata'.dst = "doubly"
      BY <1>5, <3>1, <3>2
    <3>4. PlaceInv'
      <4>1. /\ st' \in PlaceType /\ st'.phase = "doublydata" /\ st'.i = st.i
            /\ st'.j = 0 /\ st'.left = st.left
        BY <3>1, <3>2 DEF PlaceInv, PlaceType
      <4> QED
        BY <1>0, <1>2, <1>3, <2>1, <3>3, <4>1 DEF HasSingly, PlaceInv
    <3> QED
      BY <1>3, <3>3, <3>4
  <2> QED
    BY <1>4, <1>10, <2>1 DEF DoublyPointers
<1>11. CASE DoublyData
  <2>1. st.phase = "doublydata" /\ st.i < PtrsPerBlock
    BY <1>11 DEF DoublyData, InFile, PlaceInv
  <2>2. CASE HasDoubly
    <3>1. Pointers[st.doubly][st.i + 1] \in Blocks
      BY <2>1, PointerTyped, PlaceFields DEF PlaceInv
    <3>2. AtaInv' /\ st' = st
      BY <1>5, <1>11, <2>2, <3>1 DEF DoublyData, ReadBlock
    <3>3. PlaceInv'
      BY <1>2, <1>3, <2>1, <2>2, <3>2 DEF HasDoubly, PlaceInv
    <3> QED
      BY <1>3, <3>2, <3>3
  <2>3. CASE ~HasDoubly
    <3>1. st' = [st EXCEPT !.phase = "doubly", !.i = @ + 1] /\ ata' = NoRead
      BY <1>1, <1>11, <2>3 DEF DoublyData
    <3>2. AtaInv'
      BY <1>1, <1>2, <3>1, ReadForgotten
    <3>3. PlaceInv'
      <4>1. /\ st' \in PlaceType /\ st'.phase = "doubly" /\ st'.i = st.i + 1
            /\ st'.j = st.j /\ st'.left = st.left
        <5>1. PICK m \in Nat : m = st.i + 1
          BY PlaceFields DEF PlaceInv
        <5>2. st' = [st EXCEPT !.phase = "doubly", !.i = m]
          BY <3>1, <5>1
        <5> QED
          BY <5>1, <5>2 DEF PlaceInv, PlaceType
      <4>2. st.i \in Nat
        BY PlaceFields DEF PlaceInv
      <4>3. ata'.state = "none"
        BY <3>1, NoReadTyped
      <4> QED
        BY <1>0, <1>2, <1>3, <2>1, <4>1, <4>2, <4>3 DEF PlaceInv
    <3> QED
      BY <1>3, <3>2, <3>3
  <2> QED
    BY <2>2, <2>3
<1> QED
  BY <1>6, <1>7, <1>8, <1>9, <1>10, <1>11

(* A sequence behind another.                                              *)
LEMMA ConcatTyped ==
  ASSUME NEW s \in Seq(Nat), NEW t \in Seq(Nat)
  PROVE  s \o t \in Seq(Nat) /\ Len(s \o t) = Len(s) + Len(t)
OBVIOUS

(* A file begins, its blocks are copied, it ends.                          *)
LEMMA FileStep ==
  ASSUME DiskInv,
         \/ (\E num \in DOMAIN FileInodes : Ext2ReadFile(num))
         \/ BlockRead \/ PointersRead \/ FileEnds \/ FileFails
  PROVE  DiskInv'
<1> USE DEF DiskInv
<1>0. DirectPtrs \in Nat /\ PtrsPerBlock \in Nat /\ BlockSize \in Nat /\ 0 \in Blocks
  BY DiskAssumption, PointersAssumption DEF Blocks
<1>1. ASSUME NEW num \in DOMAIN FileInodes, Ext2ReadFile(num) PROVE DiskInv'
  <2>1. PICK r \in inodes : r.num = num /\ st' = [NoFile EXCEPT !.phase = "direct", !.left = r.inode.size]
    BY <1>1 DEF Ext2ReadFile
  <2>2. /\ op'.kind = "file" /\ op'.num = num /\ content' = <<>> /\ ata' = NoRead
        /\ leaks < MaxLeaks /\ UNCHANGED <<inodeSize, leaks, inodes, overrun>>
    BY <1>1 DEF Ext2ReadFile, Begins, resultVars
  <2>3. AtaInv'
    BY <2>2, ReadForgotten
  <2>4. InodesInv'
    BY <2>1, <2>2 DEF InodesInv
  <2>5. Inode' = r.inode
    <3>1. r = CHOOSE s \in inodes : s.num = num
      BY <2>1 DEF InodesInv
    <3> QED
      BY <2>2, <3>1 DEF Inode
  <2>6. r.inode.size \in Nat
    BY DEF InodesInv, InodeType
  <2>7. st' = [phase |-> "direct", i |-> 0, j |-> 0, left |-> r.inode.size, singly |-> 0, doubly |-> 0]
    BY <2>1 DEF NoFile
  <2>8. content' \in Seq(Nat) /\ Len(content') = 0
    BY <2>2
  <2>9. PlaceInv'
    BY <1>0, <2>2, <2>5, <2>6, <2>7, <2>8, NoReadTyped DEF PlaceInv, PlaceType
  <2> QED
    BY <2>3, <2>4, <2>9
<1>2. CASE BlockRead
  <2> DEFINE n == CopySize(st.left)
             copied == [k \in 1 .. n |-> ata.offset + k - 1]
  <2>1. /\ content' = content \o copied
        /\ st' = [st EXCEPT !.left = @ - n,
                            !.i = IF st.phase = "doublydata" THEN @ ELSE @ + 1,
                            !.j = IF st.phase = "doublydata" THEN @ + 1 ELSE @]
        /\ ata' = NoRead /\ UNCHANGED <<inodeSize, op, leaks, inodes, overrun>>
        /\ op.kind = "file" /\ ata.state = "ok" /\ ata.dst = "block"
    BY <1>2 DEF BlockRead, resultVars
  <2>2. n \in Nat /\ n <= st.left
    BY <1>0, PlaceFields DEF CopySize, PlaceInv
  <2> HIDE DEF n
  <2>3. copied \in Seq(Nat) /\ Len(copied) = n
    BY <2>2 DEF AtaInv, AtaType
  <2> HIDE DEF copied
  <2>4. content' \in Seq(Nat) /\ Len(content') = Len(content) + n
    <3>1. content \in Seq(Nat)
      BY DEF PlaceInv
    <3>2. content' = content \o copied
      BY <2>1
    <3> QED
      BY ONLY <2>3, <3>1, <3>2, ConcatTyped
  <2>5. AtaInv'
    BY <2>1, ReadForgotten DEF AtaInv
  <2>6. InodesInv' /\ Inode' = Inode
    BY <2>1, InodesUntouched DEF Inode
  <2>7. PlaceInv'
    <3>1. st.i \in Nat /\ st.j \in Nat /\ st.left \in Nat
      BY PlaceFields DEF PlaceInv
    <3>2. /\ st' \in PlaceType /\ st'.phase = st.phase /\ st'.left = st.left - n
          /\ st'.i = IF st.phase = "doublydata" THEN st.i ELSE st.i + 1
          /\ st'.j = IF st.phase = "doublydata" THEN st.j + 1 ELSE st.j
      <4>1. PICK l \in Nat : l = st.left - n
        BY <2>2, <3>1
      <4>2. PICK i \in Nat : i = IF st.phase = "doublydata" THEN st.i ELSE st.i + 1
        BY <3>1
      <4>3. PICK j \in Nat : j = IF st.phase = "doublydata" THEN st.j + 1 ELSE st.j
        BY <3>1
      <4>4. st' = [st EXCEPT !.left = l, !.i = i, !.j = j]
        BY <2>1, <4>1, <4>2, <4>3
      <4> QED
        BY <4>1, <4>2, <4>3, <4>4 DEF PlaceInv, PlaceType
    <3>3. ata'.state = "none"
      BY <2>1, NoReadTyped
    <3>4. Len(content) \in Nat /\ Len(content) + st.left = Inode.size
      BY <2>1 DEF PlaceInv
    <3>5. \/ st.phase = "direct" /\ st.i < DirectPtrs
          \/ st.phase = "singly" /\ st.i < PtrsPerBlock
          \/ st.phase = "doublydata" /\ st.i < PtrsPerBlock /\ st.j < PtrsPerBlock
      BY <2>1 DEF PlaceInv
    <3>6. st.j <= PtrsPerBlock
      BY DEF PlaceInv
    <3>7. Len(content') + st'.left = Inode'.size
      BY <2>2, <2>4, <2>6, <3>1, <3>2, <3>4
    <3> QED
      BY <1>0, <2>4, <3>1, <3>2, <3>3, <3>5, <3>6, <3>7 DEF PlaceInv
  <2> QED
    BY <2>5, <2>6, <2>7
<1>3. CASE PointersRead
  <2>1. /\ ata' = NoRead /\ UNCHANGED <<inodeSize, op, st, content, leaks, inodes, overrun>>
        /\ op.kind = "file" /\ ata.state = "ok"
    BY <1>3 DEF PointersRead, resultVars
  <2>2. AtaInv'
    BY <2>1, ReadForgotten DEF AtaInv
  <2> QED
    BY <2>1, <2>2, NoReadTyped, InodesUntouched, PlaceUntouched
<1>4. CASE FileEnds \/ FileFails
  <2>1. /\ ata' = NoRead /\ op'.kind = "idle" /\ st' = NoFile /\ content' = <<>>
        /\ UNCHANGED <<inodeSize, leaks, inodes, overrun>>
    BY <1>4 DEF FileEnds, FileFails, Return, Idle
  <2>2. PlaceInv'
    BY <1>0, <2>1 DEF NoFile, PlaceInv, PlaceType
  <2> QED
    BY <2>1, <2>2, ReadForgotten, InodesUntouched
<1> QED
  BY <1>1, <1>2, <1>3, <1>4

(* Every step of the drive and of the file system.                         *)
LEMMA DiskStep == DiskInv /\ KeptInv /\ [DiskNext]_diskVars => DiskInv'
<1> SUFFICES ASSUME DiskInv, KeptInv, [DiskNext]_diskVars PROVE DiskInv'
  OBVIOUS
<1>1. CASE UNCHANGED diskVars
  <2>1. InodeOffset(op.num)' = InodeOffset(op.num) /\ Inode' = Inode
    BY <1>1 DEF diskVars, InodeOffset, Inode
  <2> QED
    BY <1>1, <2>1 DEF diskVars, DiskInv, AtaInv, InodesInv, PlaceInv, CopiesFit
<1> QED
  BY <1>1, OperationStep, ReadFileStep, FileStep DEF DiskNext, Reading

(* Initially nothing is read and nothing was.                              *)
LEMMA DiskInitInv == DiskInit => DiskInv
<1> SUFFICES ASSUME DiskInit PROVE DiskInv
  OBVIOUS
<1>0. MaxLeaks \in Nat /\ PtrsPerBlock \in Nat /\ DirectPtrs \in Nat /\ 0 \in Blocks
  BY DiskAssumption, PointersAssumption DEF Blocks
<1>1. AtaInv
  BY <1>0, NoReadTyped DEF DiskInit, AtaInv, CopiesFit, Idle
<1>2. InodesInv
  BY DEF DiskInit, InodesInv, Idle
<1>3. PlaceInv
  BY <1>0, NoReadTyped DEF DiskInit, PlaceInv, PlaceType, NoFile, Idle
<1> QED
  BY <1>1, <1>2, <1>3 DEF DiskInv

(* The buffers there are, and the states of the disk.                      *)
KindsInv ==
  /\ mounted \in {"none", "ok", "failed"}
  /\ bufs \subseteq {"disk", "super", "group", "inode", "content", "block", "singly", "doubly"}

(* Every step of the drive and of the file system.                         *)
LEMMA KindsStep == KindsInv /\ [DiskNext]_diskVars => KindsInv'
<1> SUFFICES ASSUME KindsInv, [DiskNext]_diskVars PROVE KindsInv'
  OBVIOUS
<1>1. CASE Drive
  BY <1>1 DEF Drive, SectorRead, SectorRetry, SectorGivenUp, AtaReadEnds, resultVars, KindsInv
<1>2. CASE AtaInitFails \/ ReadSuperBlock \/ ReadGroupDesc \/ MountEnds \/ MountFails
  BY <1>2 DEF AtaInitFails, ReadSuperBlock, ReadGroupDesc, MountEnds, MountFails, Return, Cleaned,
     resultVars, KindsInv
<1>3. CASE InodeEnds \/ InodeFails \/ FileEnds \/ FileFails
  BY <1>3 DEF InodeEnds, InodeFails, FileEnds, FileFails, Return, Cleaned, KindsInv
<1>4. CASE \E num \in DOMAIN FileInodes : Ext2ReadInode(num) \/ Ext2ReadFile(num)
  BY <1>4 DEF Ext2ReadInode, Ext2ReadFile, resultVars, KindsInv
<1>5. CASE DirectBlock \/ SinglyBlock \/ SinglyData \/ DoublyBlock \/ DoublyPointers \/ DoublyData
  BY <1>5 DEF DirectBlock, SinglyBlock, SinglyData, DoublyBlock, DoublyPointers, DoublyData,
     ReadBlock, GoTo, resultVars, KindsInv
<1>6. CASE BlockRead \/ PointersRead
  BY <1>6 DEF BlockRead, PointersRead, resultVars, KindsInv
<1>7. CASE UNCHANGED diskVars
  BY <1>7 DEF diskVars, KindsInv
<1> QED
  BY <1>1, <1>2, <1>3, <1>4, <1>5, <1>6, <1>7 DEF DiskNext, Reading

-----------------------------------------------------------------------------
(* Between reads of the drive the interrupts are on exactly when the last  *)
(* read was a good one (AtaRead).                                          *)
THEOREM DiskIrqFollowsLastRead == DiskSpec => []IrqFollowsLastRead
<1>1. DiskInit => IrqInv
  BY NoReadState DEF DiskInit, IrqInv
<1>2. IrqInv => IrqFollowsLastRead
  BY DEF IrqInv, IrqFollowsLastRead
<1> QED
  BY <1>1, <1>2, IrqStep, PTL DEF DiskSpec

(* Between operations nothing is allocated but what was handed out,        *)
(* whichever read failed (Ext2ReadDiskOnDevice, Ext2ReadInode,             *)
(* Ext2ReadFile).                                                          *)
THEOREM DiskBuffersBalanced == DiskSpec => []BuffersBalanced
<1>1. DiskInit => KeptInv
  BY FS_EmptySet DEF DiskInit, KeptInv, Idle
<1>2. KeptInv => BuffersBalanced
  BY DEF KeptInv, BuffersBalanced
<1> QED
  BY <1>1, <1>2, KeptStep, PTL DEF DiskSpec

(* What reads of the drive leave behind, failed ones included.             *)
THEOREM DiskLeftBehind == DiskSpec => []LeftBehind
<1>1. IrqFollowsLastRead /\ BuffersBalanced => LeftBehind
  BY DEF LeftBehind
<1> QED
  BY <1>1, DiskIrqFollowsLastRead, DiskBuffersBalanced, PTL

(* Every variable has its type; Ext2ReadFile never looks behind the        *)
(* pointers of an inode or of a block, and has copied what is not left.    *)
THEOREM DiskTypeCorrect == DiskSpec => []DiskTypeOK
<1>1. DiskInit => IrqInv /\ KeptInv /\ KindsInv
  <2>1. DiskInit => IrqInv
    BY NoReadState DEF DiskInit, IrqInv
  <2>2. DiskInit => KeptInv
    BY FS_EmptySet DEF DiskInit, KeptInv, Idle
  <2>3. DiskInit => KindsInv
    BY DEF DiskInit, KindsInv
  <2> QED
    BY <2>1, <2>2, <2>3
<1>2. IrqInv /\ KeptInv /\ KindsInv /\ DiskInv => DiskTypeOK
  <2> SUFFICES ASSUME IrqInv, KeptInv, KindsInv, DiskInv PROVE DiskTypeOK
    OBVIOUS
  <2>1. kept \in Nat
    BY FS_CardinalityType DEF KeptInv
  <2>2. st.left \in Nat /\ st.i \in 0 .. PtrsPerBlock + DirectPtrs /\ st.j \in 0 .. PtrsPerBlock
    BY DiskAssumption, PlaceFields DEF DiskInv, PlaceInv
  <2>3. leaks \in 0 .. MaxLeaks /\ ata.errors \in 0 .. MaxErrors
    BY DEF DiskInv, AtaInv, AtaType
  <2>4. op.kind = "file" => Len(content) + st.left = Inode.size
    BY DEF DiskInv, PlaceInv
  <2>5. op.kind \in {"idle", "super", "group", "inode", "file"}
    BY DEF DiskInv, AtaInv
  <2> QED
    BY <2>1, <2>2, <2>3, <2>4, <2>5 DEF DiskTypeOK, IrqInv, KindsInv
<1> QED
  BY <1>1, <1>2, IrqStep, KeptStep, KindsStep, DiskInitInv, DiskStep, PTL DEF DiskSpec

(* No copy goes behind the sectors that AtaRead read, for any ranges and   *)
(* any size of sectors and blocks, nor behind its destination, unless      *)
(* inodes are larger than Ext2Inode.                                       *)
THEOREM DiskCopiesFit == DiskSpec => []CopiesFit
<1>1. DiskInit => KeptInv
  BY FS_EmptySet DEF DiskInit, KeptInv, Idle
<1>2. DiskInv => CopiesFit
  BY DEF DiskInv, AtaInv
<1> QED
  BY <1>1, <1>2, KeptStep, DiskInitInv, DiskStep, PTL DEF DiskSpec

-----------------------------------------------------------------------------
(* The content of files                                                    *)

(* The inodes that were read are those of the disk with their numbers.     *)
NumbersInv == \A r \in inodes : r.num \in DOMAIN FileInodes /\ r.inode = FileInodes[r.num]

(* How many blocks of a file come before place s, in a file without holes. *)
Before(s) ==
  CASE s.phase = "direct" -> s.i
    [] s.phase = "singly" -> DirectPtrs + s.i
    [] s.phase = "double" -> DirectPtrs + PtrsPerBlock
    [] s.phase = "doubly" -> DirectPtrs + PtrsPerBlock + s.i * PtrsPerBlock
    [] s.phase = "doublydata" -> DirectPtrs + PtrsPerBlock + s.i * PtrsPerBlock + s.j

(* The block that Ext2ReadFile reads there for file f.                     *)
BlockAt(s, f) ==
  CASE s.phase = "direct" -> f.block[s.i + 1]
    [] s.phase = "singly" -> Pointers[s.singly][s.i + 1]
    [] s.phase = "doublydata" -> Pointers[s.doubly][s.i + 1]

(* The blocks of pointers in use are those of the inode, and what is read  *)
(* is the block of the place.                                              *)
PointersInv ==
  op.kind = "file" =>
    /\ st.phase # "none"
    /\ st.phase = "singly" => st.singly = Singly /\ Singly # 0
    /\ st.phase \in {"doubly", "doublydata"} => st.singly = Doubly /\ Doubly # 0
    /\ st.phase = "doublydata" => st.doubly = Pointers[Doubly][st.i + 1] /\ st.doubly # 0
    /\ ata.state # "none" /\ ata.dst = "block" => ata.offset = BlockAt(st, Inode) * BlockSize

(* While something is left of a file without holes, all blocks before the  *)
(* place were copied, and what was copied are its bytes.                   *)
CopiedInv ==
  op.kind = "file" /\ Whole(Inode) =>
    /\ BytesOf(Inode, content)
    /\ st.left > 0 => st.phase # "end" /\ Len(content) = Before(st) * BlockSize

(* The files that were read.                                               *)
FilesInv ==
  \A r \in files : Whole(FileInodes[r.num]) =>
    Len(r.content) = FileInodes[r.num].size /\ BytesOf(FileInodes[r.num], r.content)

-----------------------------------------------------------------------------
(* Division by n is undone by multiplication.                              *)
LEMMA DivModIs ==
  ASSUME NEW q \in Nat, NEW n \in Nat \ {0}, NEW r \in 0 .. n - 1
  PROVE  (q * n + r) \div n = q /\ (q * n + r) % n = r
<1>1. PICK a \in Nat : a = q * n + r
  <2>1. q * n \in Nat
    BY NatProduct
  <2> QED
    BY <2>1
<1>2. PICK p, t : p = a \div n /\ t = a % n
  OBVIOUS
<1>3. p \in Nat /\ t \in 0 .. n - 1 /\ a = p * n + t
  BY <1>2, DivMod
<1>4. p * n + t = q * n + r
  BY <1>1, <1>3
<1>5. ~(p < q)
  <2> SUFFICES ASSUME p < q PROVE FALSE
    OBVIOUS
  <2>1. PICK d \in Nat : q = p + d + 1
    <3>1. q - p - 1 \in Nat /\ q = p + (q - p - 1) + 1
      BY <1>3
    <3> QED
      BY <3>1
  <2>2. q * n = p * n + d * n + n
    BY <1>3, <2>1
  <2>3. d * n \in Nat /\ p * n \in Nat
    BY <1>3, <2>1, NatProduct
  <2> QED
    BY <1>3, <1>4, <2>2, <2>3
<1>6. ~(q < p)
  <2> SUFFICES ASSUME q < p PROVE FALSE
    OBVIOUS
  <2>1. PICK d \in Nat : p = q + d + 1
    <3>1. p - q - 1 \in Nat /\ p = q + (p - q - 1) + 1
      BY <1>3
    <3> QED
      BY <3>1
  <2>2. p * n = q * n + d * n + n
    BY <1>3, <2>1
  <2>3. d * n \in Nat /\ q * n \in Nat
    BY <1>3, <2>1, NatProduct
  <2> QED
    BY <1>3, <1>4, <2>2, <2>3
<1>7. p = q
  BY <1>3, <1>5, <1>6
<1>8. t = r
  <2>1. PICK m \in Nat : m = q * n
    BY NatProduct
  <2>2. m + t = m + r
    BY <1>4, <1>7, <2>1
  <2> QED
    BY <1>3, <2>2
<1> QED
  BY <1>1, <1>2, <1>7, <1>8

(* A smaller product has a smaller factor.                                 *)
LEMMA SmallerFactor ==
  ASSUME NEW a \in Nat, NEW b \in Nat, NEW n \in Nat, a * n < b * n PROVE a < b
<1> SUFFICES ASSUME a >= b PROVE FALSE
  OBVIOUS
<1>1. PICK d \in Nat : a = b + d
  <2>1. a - b \in Nat /\ a = b + (a - b)
    OBVIOUS
  <2> QED
    BY <2>1
<1>2. a * n = b * n + d * n
  BY <1>1
<1>3. d * n \in Nat /\ b * n \in Nat
  BY <1>1, NatProduct
<1> QED
  BY <1>2, <1>3

(* The block after m blocks, when the file is larger than they are.        *)
LEMMA NextBlock ==
  ASSUME NEW f \in InodeType, Whole(f), NEW m \in Nat, m * BlockSize < f.size
  PROVE  /\ m + 1 <= DirectPtrs + PtrsPerBlock + PtrsPerBlock * PtrsPerBlock
         /\ BlockOf(f, m + 1) # 0
<1>1. PICK b \in Nat \ {0} : b = BlockSize
  BY DiskAssumption
<1>2. f.size \in Nat
  BY DEF InodeType
<1>3. PICK a \in Nat : a = f.size + b - 1
  BY <1>1, <1>2
<1>4. PICK q, r : q = a \div b /\ r = a % b
  OBVIOUS
<1>5. q \in Nat /\ r \in 0 .. b - 1 /\ a = q * b + r
  BY <1>1, <1>3, <1>4, DivMod
<1>6. m < q
  <2>1. m * b \in Nat /\ q * b \in Nat /\ m * b < f.size
    BY <1>1, <1>5, NatProduct
  <2>2. (m + 1) * b = m * b + b /\ (q + 1) * b = q * b + b
    BY <1>1, <1>5
  <2>3. m * b + b < q * b + b + b
    BY <1>1, <1>2, <1>3, <1>5, <2>1
  <2>4. m * b + b <= q * b + r
    BY <1>1, <1>2, <1>3, <1>5, <2>1
  <2>5. (m + 1) * b < (q + 1) * b
    BY <1>1, <1>5, <2>1, <2>2, <2>4
  <2>6. m + 1 < q + 1
    BY <1>1, <1>5, <2>5, SmallerFactor
  <2> QED
    BY <1>5, <2>6
<1>7. m + 1 \in 1 .. (f.size + BlockSize - 1) \div BlockSize
  BY <1>1, <1>3, <1>4, <1>5, <1>6
<1> QED
  BY <1>7 DEF Whole

-----------------------------------------------------------------------------
(* Block i of the direct pointers.                                         *)
LEMMA BlockDirect ==
  ASSUME NEW f, NEW i \in Nat, i < DirectPtrs
  PROVE  BlockOf(f, i + 1) = f.block[i + 1]
<1>1. (i + 1) - DirectPtrs <= 0
  BY DiskAssumption
<1> QED
  BY <1>1, Zenon DEF BlockOf

(* Block i of the singly indirect pointers.                                *)
LEMMA BlockSingly ==
  ASSUME NEW f, NEW i \in Nat, i < PtrsPerBlock
  PROVE  BlockOf(f, DirectPtrs + i + 1) = Under(f.block[DirectPtrs + 1], i + 1)
<1>0. DirectPtrs \in Nat /\ PtrsPerBlock \in Nat
  BY DiskAssumption
<1>1. PICK k : k = DirectPtrs + i + 1
  OBVIOUS
<1>2. k - DirectPtrs = i + 1 /\ ~(i + 1 <= 0) /\ (i + 1) - PtrsPerBlock - 1 < 0
  BY <1>0, <1>1
<1>3. BlockOf(f, k) = Under(f.block[DirectPtrs + 1], i + 1)
  BY <1>2, Zenon DEF BlockOf
<1> QED
  BY <1>1, <1>3, Zenon

(* Block j of pointers i of the doubly indirect ones.                      *)
LEMMA BlockDoubly ==
  ASSUME NEW f, NEW i \in Nat, NEW j \in Nat, j < PtrsPerBlock
  PROVE  BlockOf(f, DirectPtrs + PtrsPerBlock + i * PtrsPerBlock + j + 1)
           = Under(Under(f.block[DirectPtrs + 2], i + 1), j + 1)
<1>1. PICK d \in Nat : d = DirectPtrs
  BY DiskAssumption
<1>2. PICK p \in Nat \ {0} : p = PtrsPerBlock
  BY DiskAssumption
<1>3. PICK e \in Nat : e = i * p
  BY NatProduct
<1>4. PICK k : k = d + p + e + j + 1
  OBVIOUS
<1>5. k - d = p + e + j + 1 /\ ~(p + e + j + 1 <= 0)
  BY <1>4
<1>6. (k - d) - p - 1 = e + j /\ ~(e + j < 0)
  BY <1>5
<1>7. (e + j) \div p = i /\ (e + j) % p = j
  <2>1. j \in 0 .. p - 1
    BY <1>2
  <2>2. (i * p + j) \div p = i /\ (i * p + j) % p = j
    BY <2>1, DivModIs
  <2> QED
    BY <1>3, <2>2
<1>8. ~(k - d <= 0)
  BY <1>5
<1>9. BlockOf(f, k) = Under(Under(f.block[d + 2], i + 1), j + 1)
  BY <1>1, <1>2, <1>6, <1>7, <1>8, Zenon DEF BlockOf
<1> QED
  BY <1>1, <1>2, <1>3, <1>4, <1>9

(* A block, or what is left of one, is copied behind m whole ones.         *)
LEMMA BlockCopied ==
  ASSUME NEW f, NEW c \in Seq(Nat), BytesOf(f, c), NEW m \in Nat, Len(c) = m * BlockSize,
         NEW n \in 0 .. BlockSize, NEW o \in Nat,
         m <= DirectPtrs + PtrsPerBlock => o = BlockOf(f, m + 1) * BlockSize,
         NEW t \in Seq(Nat), t = [k \in 1 .. n |-> o + k - 1]
  PROVE  BytesOf(f, c \o t)
<1>1. PICK b \in Nat \ {0} : b = BlockSize
  BY DiskAssumption
<1>2. PICK g \in Nat : g = DirectPtrs + PtrsPerBlock
  BY DiskAssumption
<1>3. PICK l \in Nat : l = Len(c)
  OBVIOUS
<1>4. l = m * b
  BY <1>1, <1>3
<1>5. n \in Nat /\ n <= b /\ Len(t) = n
  BY <1>1
<1>6. /\ Len(c \o t) = l + n
      /\ \A k \in 1 .. l : (c \o t)[k] = c[k]
      /\ \A k \in 1 .. n : (c \o t)[l + k] = t[k]
  <2>1. /\ Len(c \o t) = Len(c) + Len(t)
        /\ \A k \in 1 .. Len(c) : (c \o t)[k] = c[k]
        /\ \A k \in 1 .. Len(t) : (c \o t)[Len(c) + k] = t[k]
    <3>1. c \in Seq(Nat) /\ t \in Seq(Nat)
      OBVIOUS
    <3> QED
      BY ONLY <3>1, Joined, SMTT(20)
  <2> QED
    BY ONLY <1>3, <1>5, <2>1, Zenon
<1>7. DOMAIN c = 1 .. l /\ DOMAIN (c \o t) = 1 .. l + n
  <2>1. c \o t \in Seq(Nat)
    OBVIOUS
  <2> QED
    BY <1>3, <1>6, <2>1
<1> SUFFICES ASSUME NEW k \in 1 .. l + n, k <= (g + 1) * b
             PROVE  (c \o t)[k] = BlockOf(f, (k - 1) \div b + 1) * b + ((k - 1) % b)
  BY <1>1, <1>2, <1>7 DEF BytesOf
<1>8. CASE k \in 1 .. l
  BY <1>1, <1>2, <1>6, <1>7, <1>8 DEF BytesOf
<1>9. CASE k > l
  <2>1. PICK i \in 1 .. n : k = l + i
    <3>1. k - l \in 1 .. n /\ k = l + (k - l)
      BY <1>5, <1>9
    <3> QED
      BY <3>1
  <2>2. i - 1 \in 0 .. b - 1 /\ k - 1 = m * b + (i - 1)
    BY <1>4, <1>5, <2>1
  <2>3. (k - 1) \div b = m /\ (k - 1) % b = i - 1
    <3>1. (m * b + (i - 1)) \div b = m /\ (m * b + (i - 1)) % b = i - 1
      BY <2>2, DivModIs
    <3> QED
      BY <2>2, <3>1, Zenon
  <2>4. m <= g
    <3>1. m * b < (g + 1) * b
      <4>1. PICK e \in Nat : e = (g + 1) * b
        BY NatProduct
      <4>2. k <= e /\ k > l
        BY <1>9, <4>1
      <4>3. l < e
        BY <4>1, <4>2
      <4> QED
        BY <1>4, <4>1, <4>3, Zenon
    <3>2. m < g + 1
      BY <1>1, <1>2, <3>1, SmallerFactor
    <3> QED
      BY <1>2, <3>2
  <2>5. o = BlockOf(f, m + 1) * b
    BY <1>1, <1>2, <2>4
  <2>6. (c \o t)[k] = o + (i - 1)
    <3>1. t[i] = o + i - 1
      BY <2>1
    <3>2. (c \o t)[k] = t[i]
      BY <1>6, <2>1
    <3> QED
      BY <1>5, <2>1, <3>1, <3>2
  <2> QED
    BY <2>3, <2>5, <2>6
<1>10. k \in 1 .. l \/ k > l
  BY <1>3, <1>5
<1> QED
  BY <1>8, <1>9, <1>10, Zenon

-----------------------------------------------------------------------------
(* An inode is found where Ext2ReadInode looks for it.                     *)
LEMMA InodeIsFound ==
  ASSUME inodeSize \in InodeSizes, NEW num \in DOMAIN FileInodes
  PROVE  InodeAt(InodeOffset(num)) = FileInodes[num]
<1> DEFINE At(n, o) == \E h \in 1 .. Len(InodeTable), i \in 0 .. InodesPerGroup - 1 :
                         /\ n = (h - 1) * InodesPerGroup + i + 1
                         /\ o = InodeTable[h] * BlockSize + i * inodeSize
<1>1. \A n \in DOMAIN FileInodes :
        \E h \in 1 .. Len(InodeTable), i \in 0 .. InodesPerGroup - 1 :
          /\ n = (h - 1) * InodesPerGroup + i + 1
          /\ InodeOffset(n) = InodeTable[h] * BlockSize + i * inodeSize
  <2> TAKE n \in DOMAIN FileInodes
  <2> DEFINE g == (n - 1) \div InodesPerGroup
             k == (n - 1) % InodesPerGroup
  <2>1. /\ n \in Nat /\ g + 1 \in 1 .. Len(InodeTable) /\ k \in 0 .. InodesPerGroup - 1
        /\ n = g * InodesPerGroup + k + 1
    BY InodeGroup
  <2>2. InodeOffset(n) = InodeTable[g + 1] * BlockSize + k * inodeSize
    BY DEF InodeOffset
  <2>3. g \in Int
    <3>1. n - 1 \in Int /\ InodesPerGroup \in Nat \ {0}
      BY <2>1, DiskAssumption
    <3> QED
      BY <3>1
  <2> HIDE DEF g, k
  <2>4. (g + 1) - 1 = g
    BY <2>3
  <2>5. n = ((g + 1) - 1) * InodesPerGroup + k + 1
    BY <2>1, <2>4
  <2> QED
    BY <2>1, <2>2, <2>5
<1>2. PICK h \in 1 .. Len(InodeTable), i \in 0 .. InodesPerGroup - 1 :
        /\ num = (h - 1) * InodesPerGroup + i + 1
        /\ InodeOffset(num) = InodeTable[h] * BlockSize + i * inodeSize
  BY <1>1
<1>3. At(num, InodeOffset(num))
  BY <1>2
<1>4. ASSUME NEW n \in DOMAIN FileInodes, At(n, InodeOffset(num)) PROVE n = num
  <2>1. PICK g \in 1 .. Len(InodeTable), k \in 0 .. InodesPerGroup - 1 :
          /\ n = (g - 1) * InodesPerGroup + k + 1
          /\ InodeOffset(num) = InodeTable[g] * BlockSize + k * inodeSize
    BY <1>4
  <2>2. g = h /\ k = i
    BY <1>2, <2>1, TablesAssumption
  <2> QED
    BY <1>2, <2>1, <2>2
<1>5. InodeAt(InodeOffset(num)) = FileInodes[CHOOSE n \in DOMAIN FileInodes : At(n, InodeOffset(num))]
  BY DEF InodeAt
<1> HIDE DEF At
<1>6. (CHOOSE n \in DOMAIN FileInodes : At(n, InodeOffset(num))) = num
  BY <1>3, <1>4
<1> QED
  BY <1>5, <1>6

(* The inodes that were read stay those of the disk.                       *)
LEMMA NumbersStep == NumbersInv /\ AtaInv /\ [DiskNext]_diskVars => NumbersInv'
<1> SUFFICES ASSUME NumbersInv, AtaInv, [DiskNext]_diskVars PROVE NumbersInv'
  OBVIOUS
<1>1. CASE InodeEnds
  <2>1. inodes' = inodes \cup {[num |-> op.num, inode |-> InodeAt(ata.offset)]} /\ op.kind = "inode"
    BY <1>1 DEF InodeEnds
  <2>2. op.num \in DOMAIN FileInodes /\ InodeAt(ata.offset) = FileInodes[op.num]
    BY <2>1, InodeIsFound DEF AtaInv
  <2> QED
    BY <2>1, <2>2 DEF NumbersInv
<1>2. inodes' = inodes \/ InodeEnds
  BY DEF DiskNext, Drive, SectorRead, SectorRetry, SectorGivenUp, AtaReadEnds, Reading, AtaInitFails,
     ReadSuperBlock, ReadGroupDesc, MountEnds, MountFails, InodeFails, Ext2ReadInode, Ext2ReadFile,
     DirectBlock, SinglyBlock, SinglyData, DoublyBlock, DoublyPointers, DoublyData, BlockRead,
     PointersRead, FileEnds, FileFails, ReadBlock, GoTo, resultVars, diskVars
<1> QED
  BY <1>1, <1>2 DEF NumbersInv

(* The inode of the operation is that of the disk with its number.         *)
LEMMA InodeNumbered ==
  ASSUME NumbersInv, InodesInv, op.kind = "file"
  PROVE  Inode = FileInodes[op.num]
<1>1. PICK r \in inodes : r.num = op.num /\ r = CHOOSE s \in inodes : s.num = op.num
  BY DEF InodesInv
<1> QED
  BY <1>1 DEF Inode, NumbersInv

-----------------------------------------------------------------------------
(* A step that leaves the place in the file and what was copied alone.     *)
LEMMA ContentUntouched ==
  ASSUME PointersInv, CopiedInv, UNCHANGED <<st, content>>,
         op'.kind # "file" \/ UNCHANGED <<op, inodes>>,
         \/ op'.kind # "file" \/ ata'.state = "none" \/ ata'.dst # "block"
         \/ ata'.dst = ata.dst /\ ata'.offset = ata.offset /\ ata.state # "none"
  PROVE  PointersInv' /\ CopiedInv'
<1>1. CASE op'.kind # "file"
  BY <1>1 DEF PointersInv, CopiedInv
<1>2. CASE op'.kind = "file"
  <2>1. UNCHANGED <<op, inodes, st, content>>
    BY <1>2
  <2>2. Inode' = Inode /\ Singly' = Singly /\ Doubly' = Doubly
    BY <2>1 DEF Inode, Singly, Doubly
  <2>3. BlockAt(st, Inode)' = BlockAt(st, Inode) /\ Whole(Inode)' = Whole(Inode)
        /\ BytesOf(Inode, content)' = BytesOf(Inode, content) /\ Before(st)' = Before(st)
    BY <2>1, <2>2 DEF BlockAt, Whole, BytesOf, Before
  <2>4. PointersInv'
    BY <1>2, <2>1, <2>2, <2>3 DEF PointersInv
  <2>5. CopiedInv'
    BY <1>2, <2>1, <2>2, <2>3 DEF CopiedInv
  <2> QED
    BY <2>4, <2>5
<1> QED
  BY <1>1, <1>2

(* To another place in the file, with as many blocks before it.            *)
LEMMA CopiedMoves ==
  ASSUME CopiedInv, op.kind = "file", UNCHANGED <<op, inodes, content>>, st'.left = st.left,
         Whole(Inode) /\ st.left > 0 => st'.phase # "end" /\ Before(st') = Before(st)
  PROVE  CopiedInv'
<1>1. Inode' = Inode
  BY DEF Inode
<1>2. Whole(Inode)' = Whole(Inode) /\ BytesOf(Inode, content)' = BytesOf(Inode, content)
      /\ Before(st)' = Before(st')
  BY <1>1 DEF Whole, BytesOf, Before
<1> QED
  BY <1>2 DEF CopiedInv

(* While something is left, there is a block behind those before the place.*)
LEMMA BlockNeeded ==
  ASSUME DiskInv, CopiedInv, op.kind = "file", Whole(Inode), st.left > 0,
         NEW m \in Nat, m = Before(st)
  PROVE  /\ m + 1 <= DirectPtrs + PtrsPerBlock + PtrsPerBlock * PtrsPerBlock
         /\ BlockOf(Inode, m + 1) # 0
<1>1. Inode \in InodeType /\ Inode.size \in Nat
  BY InodeTyped DEF DiskInv, InodeType
<1>2. st.left \in Nat /\ Len(content) \in Nat /\ Len(content) + st.left = Inode.size
  BY PlaceFields DEF DiskInv, PlaceInv
<1>3. Len(content) = m * BlockSize
  BY DEF CopiedInv
<1>4. m * BlockSize < Inode.size
  <2>1. PICK l \in Nat : l = Len(content)
    BY <1>2
  <2>2. l < Inode.size
    BY <1>1, <1>2, <2>1
  <2> QED
    BY <1>3, <2>1, <2>2
<1> QED
  BY <1>1, <1>4, NextBlock

(* The inode's pointers to pointers.                                       *)
LEMMA InodePointers ==
  ASSUME InodesInv, op.kind = "file"
  PROVE  /\ Inode.block[DirectPtrs + 1] = Singly /\ Inode.block[DirectPtrs + 2] = Doubly
         /\ Singly \in Blocks /\ Doubly \in Blocks
BY InodeTyped DEF Singly, Doubly

-----------------------------------------------------------------------------
(* Where Ext2ReadFile goes from the direct pointers.                       *)
LEMMA FromDirect ==
  ASSUME DiskInv, PointersInv, CopiedInv, DirectBlock \/ SinglyBlock
  PROVE  PointersInv' /\ CopiedInv'
<1>0. DirectPtrs \in Nat /\ PtrsPerBlock \in Nat
  BY DiskAssumption
<1>1. op.kind = "file" /\ ata = NoRead /\ st.phase = "direct" /\ UNCHANGED <<op, inodes, content>>
  BY DEF DirectBlock, SinglyBlock, InFile, ReadBlock, GoTo, resultVars
<1>2. Inode' = Inode /\ Singly' = Singly /\ Doubly' = Doubly
  BY <1>1 DEF Inode, Singly, Doubly
<1>3. st \in PlaceType /\ st.i \in Nat /\ st.i <= DirectPtrs
  BY <1>1, PlaceFields DEF DiskInv, PlaceInv
<1>4. CASE DirectBlock
  <2>1. st' = st /\ ata'.offset = Inode.block[st.i + 1] * BlockSize
    BY <1>4 DEF DirectBlock, ReadBlock, AtaRead
  <2>2. BlockAt(st, Inode)' = Inode.block[st.i + 1]
    BY <1>1, <1>2, <2>1 DEF BlockAt
  <2>3. PointersInv'
    BY <1>1, <1>2, <2>1, <2>2 DEF PointersInv
  <2>4. CopiedInv'
    BY <1>1, <2>1, CopiedMoves DEF CopiedInv
  <2> QED
    BY <2>3, <2>4
<1>5. CASE SinglyBlock
  <2>1. ASSUME Whole(Inode), st.left > 0
        PROVE  Before(st) = DirectPtrs /\ (Singly = 0 => PtrsPerBlock = 0)
    <3>1. Before(st) = st.i
      BY <1>1 DEF Before
    <3>2. ~(st.i < DirectPtrs)
      <4> SUFFICES ASSUME st.i < DirectPtrs PROVE FALSE
        OBVIOUS
      <4>1. BlockOf(Inode, st.i + 1) # 0
        BY <1>1, <1>3, <2>1, <3>1, BlockNeeded
      <4>2. Inode.block[st.i + 1] = 0
        BY <1>5 DEF SinglyBlock, HasDirect
      <4> QED
        BY <1>3, <4>1, <4>2, BlockDirect
    <3>3. st.i = DirectPtrs
      BY <1>0, <1>3, <3>2
    <3>4. ASSUME Singly = 0, PtrsPerBlock # 0 PROVE FALSE
      <4>1. BlockOf(Inode, DirectPtrs + 1) # 0
        BY <1>0, <1>1, <2>1, <3>1, <3>3, BlockNeeded
      <4>2. 0 \in Nat /\ 0 < PtrsPerBlock /\ DirectPtrs + 0 + 1 = DirectPtrs + 1 /\ 0 + 1 = 1
        BY <1>0, <3>4
      <4>3. BlockOf(Inode, DirectPtrs + 0 + 1) = Under(Inode.block[DirectPtrs + 1], 0 + 1)
        BY <4>2, BlockSingly
      <4>4. Inode.block[DirectPtrs + 1] = 0
        BY <3>4 DEF Singly
      <4> QED
        BY <4>1, <4>2, <4>3, <4>4 DEF Under
    <3> QED
      BY <3>1, <3>3, <3>4
  <2>2. CASE Singly = 0
    <3>1. st' = [st EXCEPT !.phase = "double", !.i = 0, !.j = 0] /\ ata' = ata
      BY <1>5, <2>2 DEF SinglyBlock, GoTo
    <3>2. st'.phase = "double" /\ st'.left = st.left
      BY <1>3, <3>1 DEF PlaceType
    <3>3. Before(st') = DirectPtrs + PtrsPerBlock
      BY <3>2 DEF Before
    <3>4. Whole(Inode) /\ st.left > 0 => Before(st') = Before(st)
      BY <1>0, <2>1, <2>2, <3>3
    <3>5. PointersInv'
      BY <1>1, <3>1, <3>2, NoReadTyped DEF PointersInv
    <3> QED
      BY <1>1, <3>2, <3>4, <3>5, CopiedMoves
  <2>3. CASE Singly # 0
    <3>1. st' = [st EXCEPT !.phase = "singly", !.i = 0, !.singly = Singly] /\ ata'.dst = "singly"
      BY <1>5, <2>3 DEF SinglyBlock, ReadBlock, AtaRead
    <3>2. st'.phase = "singly" /\ st'.left = st.left /\ st'.i = 0 /\ st'.singly = Singly
      BY <1>3, <3>1 DEF PlaceType
    <3>3. Before(st') = DirectPtrs
      BY <1>0, <3>2 DEF Before
    <3>4. PointersInv'
      BY <1>1, <1>2, <2>3, <3>1, <3>2 DEF PointersInv
    <3> QED
      BY <1>1, <2>1, <3>2, <3>3, <3>4, CopiedMoves
  <2> QED
    BY <2>2, <2>3
<1> QED
  BY <1>4, <1>5

(* Where Ext2ReadFile goes from the singly indirect pointers.              *)
LEMMA FromSingly ==
  ASSUME DiskInv, PointersInv, CopiedInv, SinglyData
  PROVE  PointersInv' /\ CopiedInv'
<1>0. DirectPtrs \in Nat /\ PtrsPerBlock \in Nat
  BY DiskAssumption
<1>1. op.kind = "file" /\ ata = NoRead /\ st.phase = "singly" /\ UNCHANGED <<op, inodes, content>>
  BY DEF SinglyData, InFile, ReadBlock, GoTo, resultVars
<1>2. Inode' = Inode /\ Singly' = Singly /\ Doubly' = Doubly
  BY <1>1 DEF Inode, Singly, Doubly
<1>3. st \in PlaceType /\ st.i \in Nat /\ st.i <= PtrsPerBlock
  BY <1>1, PlaceFields DEF DiskInv, PlaceInv
<1>4. st.singly = Singly /\ Singly # 0
  BY <1>1 DEF PointersInv
<1>5. CASE HasSingly
  <2>1. st' = st /\ ata'.offset = Pointers[st.singly][st.i + 1] * BlockSize
    BY <1>5 DEF SinglyData, ReadBlock, AtaRead
  <2>2. BlockAt(st, Inode)' = Pointers[st.singly][st.i + 1]
    BY <1>1, <2>1 DEF BlockAt
  <2>3. PointersInv'
    BY <1>1, <1>2, <1>4, <2>1, <2>2 DEF PointersInv
  <2>4. CopiedInv'
    BY <1>1, <2>1, CopiedMoves DEF CopiedInv
  <2> QED
    BY <2>3, <2>4
<1>6. CASE ~HasSingly
  <2>1. ASSUME Whole(Inode), st.left > 0 PROVE Before(st) = DirectPtrs + PtrsPerBlock
    <3>1. Before(st) = DirectPtrs + st.i
      BY <1>1 DEF Before
    <3>2. ~(st.i < PtrsPerBlock)
      <4> SUFFICES ASSUME st.i < PtrsPerBlock PROVE FALSE
        OBVIOUS
      <4>1. DirectPtrs + st.i \in Nat
        BY <1>0, <1>3
      <4>2. BlockOf(Inode, DirectPtrs + st.i + 1) # 0
        BY <1>1, <2>1, <3>1, <4>1, BlockNeeded
      <4>3. Pointers[Singly][st.i + 1] = 0
        BY <1>4, <1>6 DEF HasSingly
      <4>4. BlockOf(Inode, DirectPtrs + st.i + 1) = Under(Singly, st.i + 1)
        BY <1>3, BlockSingly DEF Singly
      <4> QED
        BY <1>4, <4>2, <4>3, <4>4 DEF Under
    <3> QED
      BY <1>0, <1>3, <3>1, <3>2
  <2>2. st' = [st EXCEPT !.phase = "double", !.i = 0, !.j = 0] /\ ata' = ata
    BY <1>6 DEF SinglyData, GoTo
  <2>3. st'.phase = "double" /\ st'.left = st.left
    BY <1>3, <2>2 DEF PlaceType
  <2>4. Before(st') = DirectPtrs + PtrsPerBlock
    BY <2>3 DEF Before
  <2>5. PointersInv'
    BY <1>1, <2>2, <2>3, NoReadTyped DEF PointersInv
  <2> QED
    BY <1>1, <2>1, <2>3, <2>4, <2>5, CopiedMoves
<1> QED
  BY <1>5, <1>6

(* Where Ext2ReadFile goes from behind the singly indirect pointers.       *)
LEMMA FromDouble ==
  ASSUME DiskInv, PointersInv, CopiedInv, DoublyBlock
  PROVE  PointersInv' /\ CopiedInv'
<1>0. DirectPtrs \in Nat /\ PtrsPerBlock \in Nat
  BY DiskAssumption
<1>1. op.kind = "file" /\ ata = NoRead /\ st.phase = "double" /\ UNCHANGED <<op, inodes, content>>
  BY DEF DoublyBlock, InFile, GoTo, resultVars
<1>2. Inode' = Inode /\ Singly' = Singly /\ Doubly' = Doubly
  BY <1>1 DEF Inode, Singly, Doubly
<1>3. st \in PlaceType
  BY DEF DiskInv, PlaceInv
<1>4. Before(st) = DirectPtrs + PtrsPerBlock
  BY <1>1 DEF Before
<1>5. CASE Doubly = 0
  <2>1. ~(Whole(Inode) /\ st.left > 0)
    <3> SUFFICES ASSUME Whole(Inode), st.left > 0 PROVE FALSE
      OBVIOUS
    <3> DEFINE m == DirectPtrs + PtrsPerBlock
    <3>1. m \in Nat
      BY <1>0
    <3>2. /\ m + 1 <= DirectPtrs + PtrsPerBlock + PtrsPerBlock * PtrsPerBlock
          /\ BlockOf(Inode, m + 1) # 0
      BY <1>1, <1>4, <3>1, BlockNeeded
    <3>3. PtrsPerBlock # 0
      <4> SUFFICES ASSUME PtrsPerBlock = 0 PROVE FALSE
        OBVIOUS
      <4>1. PtrsPerBlock * PtrsPerBlock = 0
        BY <1>0
      <4> QED
        BY <1>0, <3>2, <4>1
    <3>4. BlockOf(Inode, DirectPtrs + PtrsPerBlock + 0 * PtrsPerBlock + 0 + 1)
            = Under(Under(Inode.block[DirectPtrs + 2], 0 + 1), 0 + 1)
      BY <1>0, <3>3, BlockDoubly
    <3>5. DirectPtrs + PtrsPerBlock + 0 * PtrsPerBlock + 0 + 1 = m + 1
      BY <1>0
    <3>6. Under(Under(Inode.block[DirectPtrs + 2], 0 + 1), 0 + 1) = 0
      BY <1>5 DEF Under, Doubly
    <3> QED
      BY <3>2, <3>4, <3>5, <3>6
  <2>2. st' = [st EXCEPT !.phase = "end", !.i = 0, !.j = 0] /\ ata' = ata
    BY <1>5 DEF DoublyBlock, GoTo
  <2>3. st'.phase = "end" /\ st'.left = st.left
    BY <1>3, <2>2 DEF PlaceType
  <2>4. PointersInv'
    BY <1>1, <2>2, <2>3, NoReadTyped DEF PointersInv
  <2> QED
    BY <1>1, <2>1, <2>3, <2>4, CopiedMoves
<1>6. CASE Doubly # 0
  <2>1. st' = [st EXCEPT !.phase = "doubly", !.i = 0, !.singly = Doubly] /\ ata'.dst = "singly"
    BY <1>6 DEF DoublyBlock, AtaRead
  <2>2. st'.phase = "doubly" /\ st'.left = st.left /\ st'.i = 0 /\ st'.singly = Doubly
    BY <1>3, <2>1 DEF PlaceType
  <2>3. Before(st') = DirectPtrs + PtrsPerBlock
    <3>1. Before(st') = DirectPtrs + PtrsPerBlock + 0 * PtrsPerBlock
      BY <2>2 DEF Before
    <3> QED
      BY <1>0, <3>1
  <2>4. PointersInv'
    BY <1>1, <1>2, <1>6, <2>1, <2>2 DEF PointersInv
  <2> QED
    BY <1>1, <1>4, <2>2, <2>3, <2>4, CopiedMoves
<1> QED
  BY <1>5, <1>6

(* Where Ext2ReadFile goes from the doubly indirect pointers.              *)
LEMMA FromDoubly ==
  ASSUME DiskInv, PointersInv, CopiedInv, DoublyPointers
  PROVE  PointersInv' /\ CopiedInv'
<1>0. DirectPtrs \in Nat /\ PtrsPerBlock \in Nat
  BY DiskAssumption
<1>1. op.kind = "file" /\ ata = NoRead /\ st.phase = "doubly" /\ UNCHANGED <<op, inodes, content>>
  BY DEF DoublyPointers, InFile, ReadBlock, GoTo, resultVars
<1>2. Inode' = Inode /\ Singly' = Singly /\ Doubly' = Doubly
  BY <1>1 DEF Inode, Singly, Doubly
<1>3. st \in PlaceType /\ st.i \in Nat /\ st.i <= PtrsPerBlock
  BY <1>1, PlaceFields DEF DiskInv, PlaceInv
<1>4. st.singly = Doubly /\ Doubly # 0
  BY <1>1 DEF PointersInv
<1>5. PICK e \in Nat : e = st.i * PtrsPerBlock
  BY <1>0, <1>3, NatProduct
<1>6. Before(st) = DirectPtrs + PtrsPerBlock + e
  BY <1>1, <1>5 DEF Before
<1>7. CASE HasSingly
  <2> DEFINE b == Pointers[st.singly][st.i + 1]
  <2>1. b # 0
    BY <1>7 DEF HasSingly
  <2>2. st' = [st EXCEPT !.phase = "doublydata", !.j = 0, !.doubly = b] /\ ata'.dst = "doubly"
    BY <1>7 DEF DoublyPointers, ReadBlock, AtaRead
  <2>3. /\ st'.phase = "doublydata" /\ st'.left = st.left /\ st'.i = st.i /\ st'.j = 0
        /\ st'.singly = st.singly /\ st'.doubly = b
    <3> HIDE DEF b
    <3> QED
      BY <1>3, <2>2 DEF PlaceType
  <2>4. Before(st') = DirectPtrs + PtrsPerBlock + e
    <3>1. Before(st') = DirectPtrs + PtrsPerBlock + st.i * PtrsPerBlock + 0
      BY <2>3 DEF Before
    <3> QED
      BY <1>0, <1>5, <3>1
  <2>5. PointersInv'
    BY <1>1, <1>2, <1>4, <2>1, <2>2, <2>3 DEF PointersInv
  <2> QED
    BY <1>1, <1>6, <2>3, <2>4, <2>5, CopiedMoves
<1>8. CASE ~HasSingly
  <2>1. ~(Whole(Inode) /\ st.left > 0)
    <3> SUFFICES ASSUME Whole(Inode), st.left > 0 PROVE FALSE
      OBVIOUS
    <3> DEFINE m == DirectPtrs + PtrsPerBlock + e
    <3>1. m \in Nat
      BY <1>0, <1>5
    <3>2. /\ m + 1 <= DirectPtrs + PtrsPerBlock + PtrsPerBlock * PtrsPerBlock
          /\ BlockOf(Inode, m + 1) # 0
      BY <1>1, <1>6, <3>1, BlockNeeded
    <3>3. st.i # PtrsPerBlock
      <4> SUFFICES ASSUME st.i = PtrsPerBlock PROVE FALSE
        OBVIOUS
      <4>1. e = PtrsPerBlock * PtrsPerBlock
        BY <1>5
      <4> QED
        BY <1>0, <1>5, <3>2, <4>1
    <3>4. st.i < PtrsPerBlock /\ 0 < PtrsPerBlock
      BY <1>0, <1>3, <3>3
    <3>5. BlockOf(Inode, DirectPtrs + PtrsPerBlock + st.i * PtrsPerBlock + 0 + 1)
            = Under(Under(Inode.block[DirectPtrs + 2], st.i + 1), 0 + 1)
      BY <1>3, <3>4, BlockDoubly
    <3>6. DirectPtrs + PtrsPerBlock + st.i * PtrsPerBlock + 0 + 1 = m + 1
      BY <1>0, <1>5
    <3>7. Pointers[Doubly][st.i + 1] = 0
      BY <1>4, <1>8, <3>4 DEF HasSingly
    <3>8. Under(Under(Inode.block[DirectPtrs + 2], st.i + 1), 0 + 1) = 0
      BY <1>4, <3>7 DEF Under, Doubly
    <3> QED
      BY <3>2, <3>5, <3>6, <3>8
  <2>2. st' = [st EXCEPT !.phase = "end", !.i = 0, !.j = 0] /\ ata' = ata
    BY <1>8 DEF DoublyPointers, GoTo
  <2>3. st'.phase = "end" /\ st'.left = st.left
    BY <1>3, <2>2 DEF PlaceType
  <2>4. PointersInv'
    BY <1>1, <2>2, <2>3, NoReadTyped DEF PointersInv
  <2> QED
    BY <1>1, <2>1, <2>3, <2>4, CopiedMoves
<1> QED
  BY <1>7, <1>8

(* Where Ext2ReadFile goes from the pointers of one of their blocks.       *)
LEMMA FromDoublyData ==
  ASSUME DiskInv, PointersInv, CopiedInv, DoublyData
  PROVE  PointersInv' /\ CopiedInv'
<1>0. DirectPtrs \in Nat /\ PtrsPerBlock \in Nat
  BY DiskAssumption
<1>1. op.kind = "file" /\ ata = NoRead /\ st.phase = "doublydata" /\ UNCHANGED <<op, inodes, content>>
  BY DEF DoublyData, InFile, ReadBlock, GoTo, resultVars
<1>2. Inode' = Inode /\ Singly' = Singly /\ Doubly' = Doubly
  BY <1>1 DEF Inode, Singly, Doubly
<1>3. st \in PlaceType /\ st.i \in Nat /\ st.j \in Nat /\ st.j <= PtrsPerBlock
  BY <1>1, PlaceFields DEF DiskInv, PlaceInv
<1>4. st.singly = Doubly /\ Doubly # 0 /\ st.doubly = Pointers[Doubly][st.i + 1] /\ st.doubly # 0
  BY <1>1 DEF PointersInv
<1>5. PICK e \in Nat : e = st.i * PtrsPerBlock
  BY <1>0, <1>3, NatProduct
<1>6. Before(st) = DirectPtrs + PtrsPerBlock + e + st.j
  BY <1>1, <1>5 DEF Before
<1>7. CASE HasDoubly
  <2>1. st' = st /\ ata'.offset = Pointers[st.doubly][st.i + 1] * BlockSize
    BY <1>7 DEF DoublyData, ReadBlock, AtaRead
  <2>2. BlockAt(st, Inode)' = Pointers[st.doubly][st.i + 1]
    BY <1>1, <2>1 DEF BlockAt
  <2>3. PointersInv'
    BY <1>1, <1>2, <1>4, <2>1, <2>2 DEF PointersInv
  <2>4. CopiedInv'
    BY <1>1, <2>1, CopiedMoves DEF CopiedInv
  <2> QED
    BY <2>3, <2>4
<1>8. CASE ~HasDoubly
  <2>1. ASSUME Whole(Inode), st.left > 0 PROVE st.j = PtrsPerBlock
    <3> SUFFICES ASSUME st.j < PtrsPerBlock PROVE FALSE
      BY <1>0, <1>3
    <3> DEFINE m == DirectPtrs + PtrsPerBlock + e + st.j
    <3>1. m \in Nat
      BY <1>0, <1>3, <1>5
    <3>2. BlockOf(Inode, m + 1) # 0
      BY <1>1, <1>6, <2>1, <3>1, BlockNeeded
    <3>3. BlockOf(Inode, DirectPtrs + PtrsPerBlock + st.i * PtrsPerBlock + st.j + 1)
            = Under(Under(Inode.block[DirectPtrs + 2], st.i + 1), st.j + 1)
      BY <1>3, BlockDoubly
    <3>4. Pointers[st.doubly][st.j + 1] = 0
      BY <1>8 DEF HasDoubly
    <3>5. Under(Under(Inode.block[DirectPtrs + 2], st.i + 1), st.j + 1) = 0
      BY <1>4, <3>4 DEF Under, Doubly
    <3> QED
      BY <1>5, <3>2, <3>3, <3>5
  <2>2. PICK i \in Nat : i = st.i + 1
    BY <1>3
  <2>3. st' = [st EXCEPT !.phase = "doubly", !.i = i] /\ ata' = ata
    BY <1>8, <2>2 DEF DoublyData
  <2>4. st'.phase = "doubly" /\ st'.left = st.left /\ st'.i = i /\ st'.singly = st.singly
    BY <1>3, <2>3 DEF PlaceType
  <2>5. Before(st') = DirectPtrs + PtrsPerBlock + e + PtrsPerBlock
    <3>1. Before(st') = DirectPtrs + PtrsPerBlock + i * PtrsPerBlock
      BY <2>4 DEF Before
    <3>2. i * PtrsPerBlock = e + PtrsPerBlock
      BY <1>0, <1>3, <1>5, <2>2
    <3> QED
      BY <1>0, <1>5, <3>1, <3>2
  <2>6. PointersInv'
    BY <1>1, <1>2, <1>4, <2>3, <2>4, NoReadTyped DEF PointersInv
  <2>7. Whole(Inode) /\ st.left > 0 => Before(st') = Before(st)
    BY <1>6, <2>1, <2>5
  <2> QED
    BY <1>1, <2>4, <2>6, <2>7, CopiedMoves
<1> QED
  BY <1>7, <1>8

-----------------------------------------------------------------------------
(* The block that is read is the one behind those before the place, unless *)
(* it is behind the first one of doubly indirect pointers.                 *)
LEMMA BlockInPlace ==
  ASSUME DiskInv, PointersInv, op.kind = "file", ata.state # "none", ata.dst = "block"
  PROVE  /\ Before(st) \in Nat
         /\ Before(st) <= DirectPtrs + PtrsPerBlock =>
              ata.offset = BlockOf(Inode, Before(st) + 1) * BlockSize
<1>0. DirectPtrs \in Nat /\ PtrsPerBlock \in Nat
  BY DiskAssumption
<1>1. \/ st.phase = "direct" /\ st.i < DirectPtrs
      \/ st.phase = "singly" /\ st.i < PtrsPerBlock
      \/ st.phase = "doublydata" /\ st.i < PtrsPerBlock /\ st.j < PtrsPerBlock
  BY DEF DiskInv, PlaceInv
<1>2. st.i \in Nat /\ st.j \in Nat
  BY PlaceFields DEF DiskInv, PlaceInv
<1>3. ata.offset = BlockAt(st, Inode) * BlockSize
  BY DEF PointersInv
<1>4. Inode.block[DirectPtrs + 1] = Singly /\ Inode.block[DirectPtrs + 2] = Doubly
  BY DEF Singly, Doubly
<1>5. CASE st.phase = "direct" /\ st.i < DirectPtrs
  <2>1. Before(st) = st.i /\ BlockAt(st, Inode) = Inode.block[st.i + 1]
    BY <1>5 DEF Before, BlockAt
  <2>2. BlockOf(Inode, st.i + 1) = Inode.block[st.i + 1]
    BY <1>2, <1>5, BlockDirect
  <2> QED
    BY <1>2, <1>3, <2>1, <2>2
<1>6. CASE st.phase = "singly" /\ st.i < PtrsPerBlock
  <2>1. Before(st) = DirectPtrs + st.i /\ BlockAt(st, Inode) = Pointers[st.singly][st.i + 1]
    BY <1>6 DEF Before, BlockAt
  <2>2. BlockOf(Inode, DirectPtrs + st.i + 1) = Under(Singly, st.i + 1)
    BY <1>2, <1>4, <1>6, BlockSingly
  <2>3. Under(Singly, st.i + 1) = Pointers[st.singly][st.i + 1]
    BY <1>6 DEF Under, PointersInv
  <2> QED
    BY <1>0, <1>2, <1>3, <2>1, <2>2, <2>3
<1>7. CASE st.phase = "doublydata" /\ st.i < PtrsPerBlock /\ st.j < PtrsPerBlock
  <2>1. PICK e \in Nat : e = st.i * PtrsPerBlock
    BY <1>0, <1>2, NatProduct
  <2>2. /\ Before(st) = DirectPtrs + PtrsPerBlock + e + st.j
        /\ BlockAt(st, Inode) = Pointers[st.doubly][st.i + 1]
    BY <1>7, <2>1 DEF Before, BlockAt
  <2>3. Before(st) \in Nat
    BY <1>0, <1>2, <2>1, <2>2
  <2>4. ASSUME Before(st) <= DirectPtrs + PtrsPerBlock
        PROVE  ata.offset = BlockOf(Inode, Before(st) + 1) * BlockSize
    <3>1. e = 0 /\ st.j = 0
      BY <1>0, <1>2, <2>1, <2>2, <2>4
    <3>2. st.i = 0
      <4> SUFFICES ASSUME st.i # 0 PROVE FALSE
        OBVIOUS
      <4>1. PICK d \in Nat : st.i = d + 1
        <5>1. st.i - 1 \in Nat /\ st.i = (st.i - 1) + 1
          BY <1>2
        <5> QED
          BY <5>1
      <4>2. e = d * PtrsPerBlock + PtrsPerBlock
        BY <1>0, <2>1, <4>1
      <4>3. d * PtrsPerBlock \in Nat
        BY <1>0, <4>1, NatProduct
      <4> QED
        <5>1. PtrsPerBlock > 0
          BY <1>0, <1>2, <1>7
        <5>2. PICK x \in Nat : x = d * PtrsPerBlock
          BY <4>3
        <5> QED
          BY <1>0, <3>1, <4>2, <5>1, <5>2
    <3>3. BlockOf(Inode, DirectPtrs + PtrsPerBlock + st.i * PtrsPerBlock + st.j + 1)
            = Under(Under(Doubly, st.i + 1), st.j + 1)
      BY <1>2, <1>4, <1>7, BlockDoubly
    <3>4. DirectPtrs + PtrsPerBlock + st.i * PtrsPerBlock + st.j + 1 = Before(st) + 1
      BY <2>1, <2>2
    <3>5. Doubly # 0 /\ st.doubly = Pointers[Doubly][st.i + 1] /\ st.doubly # 0
      BY <1>7 DEF PointersInv
    <3>6. Under(Under(Doubly, st.i + 1), st.j + 1) = Pointers[st.doubly][st.j + 1]
      BY <3>5 DEF Under
    <3>7. Pointers[st.doubly][st.j + 1] = Pointers[st.doubly][st.i + 1]
      BY <3>1, <3>2
    <3> QED
      BY <1>3, <2>2, <3>3, <3>4, <3>6, <3>7
  <2> QED
    BY <2>3, <2>4
<1> QED
  BY <1>1, <1>5, <1>6, <1>7

(* A block is copied.                                                      *)
LEMMA ContentCopied ==
  ASSUME DiskInv, PointersInv, CopiedInv, BlockRead
  PROVE  PointersInv' /\ CopiedInv'
<1> DEFINE n == CopySize(st.left)
           t == [k \in 1 .. n |-> ata.offset + k - 1]
<1>0. BlockSize \in Nat \ {0} /\ DirectPtrs \in Nat /\ PtrsPerBlock \in Nat
  BY DiskAssumption
<1>1. /\ op.kind = "file" /\ ata.state # "none" /\ ata.dst = "block" /\ ata' = NoRead
      /\ content' = content \o t /\ UNCHANGED <<op, inodes>>
      /\ st' = [st EXCEPT !.left = @ - n,
                          !.i = IF st.phase = "doublydata" THEN @ ELSE @ + 1,
                          !.j = IF st.phase = "doublydata" THEN @ + 1 ELSE @]
  BY DEF BlockRead, resultVars
<1>2. st \in PlaceType /\ st.i \in Nat /\ st.j \in Nat /\ st.left \in Nat
  BY PlaceFields DEF DiskInv, PlaceInv
<1>3. n \in Nat /\ n <= BlockSize /\ n <= st.left /\ (n < BlockSize => n = st.left)
  BY <1>0, <1>2 DEF CopySize
<1> HIDE DEF n
<1>4. /\ st'.phase = st.phase /\ st'.left = st.left - n
      /\ st'.singly = st.singly /\ st'.doubly = st.doubly
      /\ st'.i = IF st.phase = "doublydata" THEN st.i ELSE st.i + 1
      /\ st'.j = IF st.phase = "doublydata" THEN st.j + 1 ELSE st.j
  BY <1>1, <1>2 DEF PlaceType
<1>5. Inode' = Inode /\ Singly' = Singly /\ Doubly' = Doubly
  BY <1>1 DEF Inode, Singly, Doubly
<1>6. PointersInv'
  BY <1>1, <1>4, <1>5, NoReadTyped DEF PointersInv
<1>7. content \in Seq(Nat) /\ ata.offset \in Nat
  BY DEF DiskInv, PlaceInv, AtaInv, AtaType
<1>8. t \in Seq(Nat) /\ Len(t) = n
  BY <1>3, <1>7
<1>9. ASSUME Whole(Inode)
      PROVE  /\ BytesOf(Inode, content')
             /\ st'.left > 0 => st'.phase # "end" /\ Len(content') = Before(st') * BlockSize
  <2>0. BytesOf(Inode, content)
    BY <1>1, <1>9 DEF CopiedInv
  <2>1. CASE st.left = 0
    <3>1. n = 0
      BY <1>2, <1>3, <2>1
    <3>2. t = <<>>
      BY <3>1
    <3> HIDE DEF t
    <3>3. content' = content
      BY <1>1, <1>7, <3>2
    <3>4. st'.left = 0
      BY <1>4, <2>1, <3>1
    <3> QED
      BY <2>0, <3>3, <3>4
  <2>2. CASE st.left > 0
    <3>1. PICK m \in Nat : m = Before(st)
      BY <1>1, BlockInPlace
    <3>2. m <= DirectPtrs + PtrsPerBlock => ata.offset = BlockOf(Inode, m + 1) * BlockSize
      BY <1>1, <3>1, BlockInPlace
    <3>3. Len(content) = m * BlockSize
      BY <1>1, <1>9, <2>2, <3>1 DEF CopiedInv
    <3>4. BytesOf(Inode, content \o t)
      <4>1. n \in 0 .. BlockSize
        BY <1>0, <1>3
      <4>2. t = [k \in 1 .. n |-> ata.offset + k - 1]
        OBVIOUS
      <4> HIDE DEF t
      <4> QED
        BY <1>7, <1>8, <2>0, <3>2, <3>3, <4>1, <4>2, BlockCopied
    <3>5. Len(content') = Len(content) + n
      <4> HIDE DEF t
      <4> QED
        BY <1>1, <1>7, <1>8, ConcatTyped
    <3>6. Before(st') = m + 1
      <4>1. \/ st.phase = "direct" \/ st.phase = "singly" \/ st.phase = "doublydata"
        BY <1>1 DEF DiskInv, PlaceInv
      <4>2. CASE st.phase = "direct"
        <5>1. Before(st) = st.i /\ Before(st') = st.i + 1
          BY <1>4, <4>2 DEF Before
        <5> QED
          BY <3>1, <5>1
      <4>3. CASE st.phase = "singly"
        <5>1. Before(st) = DirectPtrs + st.i /\ Before(st') = DirectPtrs + (st.i + 1)
          BY <1>4, <4>3 DEF Before
        <5> QED
          BY <1>0, <1>2, <3>1, <5>1
      <4>4. CASE st.phase = "doublydata"
        <5>1. PICK e \in Nat : e = st.i * PtrsPerBlock
          BY <1>0, <1>2, NatProduct
        <5>2. /\ Before(st) = DirectPtrs + PtrsPerBlock + e + st.j
              /\ Before(st') = DirectPtrs + PtrsPerBlock + e + (st.j + 1)
          BY <1>4, <4>4, <5>1 DEF Before
        <5> QED
          BY <1>0, <1>2, <3>1, <5>1, <5>2
      <4> QED
        BY <4>1, <4>2, <4>3, <4>4
    <3>7. st.phase # "end"
      BY <1>1, <1>9, <2>2 DEF CopiedInv
    <3>8. ASSUME st'.left > 0 PROVE Len(content') = (m + 1) * BlockSize
      <4>1. n = BlockSize
        BY <1>0, <1>2, <1>3, <1>4, <3>8
      <4>2. (m + 1) * BlockSize = m * BlockSize + BlockSize
        BY <1>0
      <4> QED
        BY <3>3, <3>5, <4>1, <4>2
    <3> QED
      BY <1>1, <1>4, <3>4, <3>6, <3>7, <3>8
  <2> QED
    BY <1>2, <2>1, <2>2
<1>10. CopiedInv'
  <2>1. Whole(Inode)' = Whole(Inode) /\ Before(st)' = Before(st')
        /\ BytesOf(Inode, content)' = BytesOf(Inode, content')
    BY <1>5 DEF Whole, BytesOf, Before
  <2> QED
    BY <1>9, <2>1 DEF CopiedInv
<1> QED
  BY <1>6, <1>10

-----------------------------------------------------------------------------
(* A file begins.                                                          *)
LEMMA ContentBegins ==
  ASSUME DiskInv, NEW num \in DOMAIN FileInodes, Ext2ReadFile(num)
  PROVE  PointersInv' /\ CopiedInv'
<1>0. BlockSize \in Nat
  BY DiskAssumption
<1>1. PICK r \in inodes : r.num = num /\ st' = [NoFile EXCEPT !.phase = "direct", !.left = r.inode.size]
  BY DEF Ext2ReadFile
<1>2. ata' = NoRead /\ content' = <<>>
  BY DEF Ext2ReadFile, Begins
<1>3. st' = [phase |-> "direct", i |-> 0, j |-> 0, left |-> r.inode.size, singly |-> 0, doubly |-> 0]
  BY <1>1 DEF NoFile
<1>4. st'.phase = "direct" /\ st'.i = 0
  BY <1>3
<1>5. PointersInv'
  BY <1>2, <1>4, NoReadTyped DEF PointersInv
<1>6. DOMAIN content' = {} /\ Len(content') = 0
  BY <1>2
<1>7. BytesOf(Inode, content)'
  BY <1>6 DEF BytesOf
<1>8. Len(content') = Before(st)' * BlockSize
  <2>1. Before(st)' = 0
    BY <1>4 DEF Before
  <2> QED
    BY <1>0, <1>6, <2>1
<1>9. CopiedInv'
  BY <1>4, <1>7, <1>8 DEF CopiedInv
<1> QED
  BY <1>5, <1>9

(* The drive goes on, pointers were read, operations end.                  *)
LEMMA ContentSteps == DiskInv /\ PointersInv /\ CopiedInv /\ [DiskNext]_diskVars => PointersInv' /\ CopiedInv'
<1> SUFFICES ASSUME DiskInv, PointersInv, CopiedInv, [DiskNext]_diskVars
             PROVE  PointersInv' /\ CopiedInv'
  OBVIOUS
<1>1. CASE Drive
  <2>1. ata \in AtaType /\ UNCHANGED <<op, inodes, st, content>> /\ ata.state = "busy"
    BY <1>1 DEF Drive, SectorRead, SectorRetry, SectorGivenUp, AtaReadEnds, resultVars, DiskInv, AtaInv
  <2>2. ata'.dst = ata.dst /\ ata'.offset = ata.offset
    BY <1>1, <2>1 DEF Drive, SectorRead, SectorRetry, SectorGivenUp, AtaReadEnds, AtaType
  <2> QED
    BY <2>1, <2>2, ContentUntouched
<1>2. CASE \/ AtaInitFails \/ ReadSuperBlock \/ ReadGroupDesc \/ MountEnds \/ MountFails
           \/ (\E num \in DOMAIN FileInodes : Ext2ReadInode(num)) \/ InodeEnds \/ InodeFails
           \/ FileEnds \/ FileFails
  <2>1. op'.kind # "file"
    BY <1>2 DEF AtaInitFails, Begins, ReadSuperBlock, ReadGroupDesc, MountEnds, MountFails,
       Ext2ReadInode, InodeEnds, InodeFails, FileEnds, FileFails, Return, Idle
  <2> QED
    BY <2>1 DEF PointersInv, CopiedInv
<1>3. CASE PointersRead
  <2>1. UNCHANGED <<op, inodes, st, content>> /\ ata'.state = "none"
    BY <1>3, NoReadTyped DEF PointersRead, resultVars
  <2> QED
    BY <2>1, ContentUntouched
<1>4. CASE UNCHANGED diskVars
  <2>1. UNCHANGED <<op, inodes, st, content, ata>>
    BY <1>4 DEF diskVars
  <2>2. ata'.dst = ata.dst /\ ata'.offset = ata.offset /\ ata'.state = ata.state
    BY <2>1
  <2>3. ata.state \in {"none", "busy", "ok", "eio"}
    BY DEF DiskInv, AtaInv, AtaType
  <2> QED
    BY <2>1, <2>2, <2>3, ContentUntouched
<1> QED
  BY <1>1, <1>2, <1>3, <1>4, ContentBegins, ContentCopied, FromDirect, FromSingly, FromDouble,
     FromDoubly, FromDoublyData DEF DiskNext, Reading

(* A file that ends was copied as far as it goes.                          *)
LEMMA FilesStep ==
  DiskInv /\ NumbersInv /\ CopiedInv /\ FilesInv /\ [DiskNext]_diskVars => FilesInv'
<1> SUFFICES ASSUME DiskInv, NumbersInv, CopiedInv, FilesInv, [DiskNext]_diskVars PROVE FilesInv'
  OBVIOUS
<1>1. CASE FileEnds
  <2>1. /\ op.kind = "file" /\ st.phase = "end"
        /\ files' = files \cup {[num |-> op.num, content |-> content]}
    BY <1>1 DEF FileEnds, InFile
  <2>2. Inode = FileInodes[op.num] /\ Inode.size \in Nat
    BY <2>1, InodeNumbered, InodeTyped DEF DiskInv, InodeType
  <2>3. st.left \in Nat /\ Len(content) \in Nat /\ Len(content) + st.left = Inode.size
    BY <2>1, PlaceFields DEF DiskInv, PlaceInv
  <2>4. ASSUME Whole(Inode) PROVE Len(content) = Inode.size /\ BytesOf(Inode, content)
    BY <2>1, <2>2, <2>3, <2>4 DEF CopiedInv
  <2>5. ASSUME NEW r \in files', Whole(FileInodes[r.num])
        PROVE  Len(r.content) = FileInodes[r.num].size /\ BytesOf(FileInodes[r.num], r.content)
    <3>1. CASE r \in files
      BY <2>5, <3>1 DEF FilesInv
    <3>2. CASE r = [num |-> op.num, content |-> content]
      BY <2>2, <2>4, <2>5, <3>2
    <3> QED
      BY <2>1, <3>1, <3>2
  <2> QED
    BY <2>5 DEF FilesInv
<1>2. files' = files \/ FileEnds
  BY DEF DiskNext, Drive, SectorRead, SectorRetry, SectorGivenUp, AtaReadEnds, Reading, AtaInitFails,
     ReadSuperBlock, ReadGroupDesc, MountEnds, MountFails, InodeEnds, InodeFails, Ext2ReadInode,
     Ext2ReadFile, DirectBlock, SinglyBlock, SinglyData, DoublyBlock, DoublyPointers, DoublyData,
     BlockRead, PointersRead, FileFails, ReadBlock, GoTo, resultVars, diskVars
<1> QED
  BY <1>1, <1>2 DEF FilesInv

(* Ext2ReadFile copies all bytes of a file without holes, and those of its *)
(* blocks in their order as far as the first block behind the doubly       *)
(* indirect pointers, for any disk, any sizes of blocks and of pointer     *)
(* tables and whichever sectors were asked for again.                      *)
THEOREM DiskContentCorrect == DiskSpec => []ContentCorrect
<1>1. DiskInit => KeptInv
  BY FS_EmptySet DEF DiskInit, KeptInv, Idle
<1>2. DiskInit => NumbersInv /\ PointersInv /\ CopiedInv /\ FilesInv
  BY DEF DiskInit, Idle, NumbersInv, PointersInv, CopiedInv, FilesInv
<1>3. DiskInv => AtaInv
  BY DEF DiskInv
<1>4. DiskTypeOK /\ FilesInv => ContentCorrect
  BY DEF FilesInv, ContentCorrect
<1> QED
  BY <1>1, <1>2, <1>3, <1>4, KeptStep, DiskInitInv, DiskStep, NumbersStep, ContentSteps, FilesStep,
     DiskTypeCorrect, PTL DEF DiskSpec

=============================================================================
