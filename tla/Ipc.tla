-------------------------------- MODULE Ipc --------------------------------
(***************************************************************************)
(* The IPC handler of the kernel (kernel/task/Ipc/Ipc.cpp), as its system  *)
(* calls use it: a process registers itself as the server of an id, others *)
(* connect to the id, send to its handle and the server receives.  System  *)
(* calls can be preempted, and the list of IPC objects has no lock: each   *)
(* call is cut where it reads or writes what the calls share.              *)
(*                                                                         *)
(* The bytes are those of IpcBuffer, the event is that of Event, and what  *)
(* Enter and Leave do to a word is taken from CriticalSection.             *)
(***************************************************************************)
EXTENDS Integers, Sequences

CONSTANTS
  Procs,          (* processes, with one thread each                      *)
  Ids,            (* the strings that identify servers                    *)
  MaxServers,     (* bound: handles given, and objects created            *)
  InitialWords,   (* what HeapAlloc leaves in the word of a new object:   *)
                  (* IpcObject::Create does not construct the section     *)
  LowWord         (* the word a section at address 0 would have           *)

ASSUME IpcAssumption ==
  /\ MaxServers \in Nat \ {0}
  /\ InitialWords \cup {LowWord} \subseteq {0, 1, 2}

VARIABLES
  objects,        (* every IpcObject created: id, handle, serverProcess   *)
  words,          (* the word of the critical section of each object      *)
  lowWord,        (* the word at the address 0 of a null object           *)
  ipcObjects,     (* _ipcObjects, the list of registered objects          *)
  handleCount,    (* s_IpcObjectHandleCount                               *)
  call,           (* the call of each process: the next statement pc, its *)
                  (* parameters id and handle, its local ipcObject obj    *)
                  (* and the element tail its ListPush writes after: 0    *)
                  (* when the list was empty                              *)
  owns,           (* the handles returned to each server                  *)
  knows,          (* the last connection of each client: {} or the set of *)
                  (* one pair <<id, handle>>                              *)
  overlap         (* history: two registrations overlapped                *)

registryVars == <<objects, ipcObjects, handleCount, owns, overlap>>
sectionVars == <<words, lowWord>>
ipcVars == <<registryVars, sectionVars, knows, call>>

Null == 0
Idle == [pc |-> "idle", id |-> Null, handle |-> 0, obj |-> Null, tail |-> 0]

IpcInit ==
  /\ objects = <<>> /\ words = <<>> /\ lowWord = LowWord
  /\ ipcObjects = <<>> /\ handleCount = 0
  /\ call = [p \in Procs |-> Idle]
  /\ owns = [p \in Procs |-> {}] /\ knows = [p \in Procs |-> {}]
  /\ overlap = FALSE

(* A call goes from a statement to the next, or returns.                  *)
At(p, from) == call[p].pc = from
Goto(p, to) == call' = [call EXCEPT ![p].pc = to]
Return(p) == call' = [call EXCEPT ![p] = Idle]

Registering == {"load", "store", "create", "link"}

(* The history notes whether another registration is in progress.          *)
RegisterStep(p) ==
  overlap' = (overlap \/ \E q \in Procs \ {p} : call[q].pc \in Registering)

(* ListEnumerate stops at the first element its callback accepts: here the *)
(* first of the positions found.                                           *)
FirstOf(found) ==
  IF found = {} THEN Null ELSE ipcObjects[CHOOSE k \in found : \A l \in found : k <= l]

FindIpcObjectByServerId(i) ==
  FirstOf({k \in 1 .. Len(ipcObjects) : objects[ipcObjects[k]].id = i})

(* Mutant of FindIpcObjectByHandle: a smaller handle will do.              *)
FindIpcObjectByAnyHandle(h) ==
  FirstOf({k \in 1 .. Len(ipcObjects) : objects[ipcObjects[k]].handle <= h})

FindIpcObjectByHandle(h) ==
  FirstOf({k \in 1 .. Len(ipcObjects) : objects[ipcObjects[k]].handle = h})

(* The elements of the list: the head is part of the list itself, every    *)
(* other one was made for one object.                                      *)
HeadElement == -1
ElementAt(list, k) == IF k = 1 THEN HeadElement ELSE list[k]
LastElement(list) == IF list = <<>> THEN 0 ELSE ElementAt(list, Len(list))

-----------------------------------------------------------------------------
(* Mutant of ServerCheck: the id may be in use.                            *)
ServerCheckNothing(p, i) ==
  /\ At(p, "idle")
  /\ RegisterStep(p)
  /\ call' = [call EXCEPT ![p].pc = "load", ![p].id = i]
  /\ UNCHANGED <<objects, ipcObjects, handleCount, owns, sectionVars, knows>>

(* AddNewServer: an id already in use is refused.                          *)
ServerCheck(p, i) ==
  /\ At(p, "idle")
  /\ RegisterStep(p)
  /\ IF FindIpcObjectByServerId(i) = Null
       THEN call' = [call EXCEPT ![p].pc = "load", ![p].id = i]
       ELSE Return(p)
  /\ UNCHANGED <<objects, ipcObjects, handleCount, owns, sectionVars, knows>>

(* ++s_IpcObjectHandleCount reads the counter ...                          *)
CountLoad(p) ==
  /\ At(p, "load")
  /\ handleCount < MaxServers
  /\ RegisterStep(p)
  /\ call' = [call EXCEPT ![p].pc = "store", ![p].handle = handleCount + 1]
  /\ UNCHANGED <<objects, ipcObjects, handleCount, owns, sectionVars, knows>>

(* ... and writes it back.                                                 *)
CountStore(p) ==
  /\ At(p, "store")
  /\ RegisterStep(p)
  /\ Goto(p, "create")
  /\ handleCount' = call[p].handle
  /\ UNCHANGED <<objects, ipcObjects, owns, sectionVars, knows>>

(* IpcObject::Create; then ListPush goes to the end of the list.           *)
ServerCreate(p) ==
  /\ At(p, "create")
  /\ Len(objects) < MaxServers
  /\ RegisterStep(p)
  /\ objects' = Append(objects, [id |-> call[p].id, handle |-> call[p].handle,
                                 serverProcess |-> p])
  /\ \E w \in InitialWords : words' = Append(words, w)
  /\ call' = [call EXCEPT ![p].pc = "link", ![p].obj = Len(objects'),
                          ![p].tail = LastElement(ipcObjects)]
  /\ UNCHANGED <<ipcObjects, handleCount, owns, lowWord, knows>>

(* The heap is exhausted; the handle is lost.                              *)
ServerCreateFails(p) ==
  /\ At(p, "create")
  /\ RegisterStep(p)
  /\ Return(p)
  /\ UNCHANGED <<objects, ipcObjects, handleCount, owns, sectionVars, knows>>

(* ListPush: the data of the first element when the list was empty,        *)
(* otherwise a new last element after the one that was last.  That one may *)
(* have been cut off the list meanwhile, by a push after an earlier one:   *)
(* the new element is lost then.                                           *)
PushAfter(list, e, o) ==
  LET places == {k \in 1 .. Len(list) : ElementAt(list, k) = e}
  IN  IF e = 0 THEN <<o>> \o SubSeq(list, 2, Len(list))
      ELSE IF places = {} THEN list
      ELSE Append(SubSeq(list, 1, CHOOSE k \in places : TRUE), o)

(* The object is in the list and its handle is returned.                   *)
ServerLink(p) ==
  /\ At(p, "link")
  /\ RegisterStep(p)
  /\ ipcObjects' = PushAfter(ipcObjects, call[p].tail, call[p].obj)
  /\ owns' = [owns EXCEPT ![p] = @ \cup {call[p].handle}]
  /\ Return(p)
  /\ UNCHANGED <<objects, handleCount, sectionVars, knows>>

(* ConnectToServer: the client gets the handle of the server.              *)
ConnectToServer(p, i) ==
  /\ At(p, "idle")
  /\ LET found == FindIpcObjectByServerId(i)
     IN  found # Null /\ knows' = [knows EXCEPT ![p] = {<<i, objects[found].handle>>}]
  /\ UNCHANGED <<registryVars, sectionVars, call>>

-----------------------------------------------------------------------------
(* Mutant of EnterWord: it is always taken.                                *)
EnterWordTakes(w) == 1

(* _acquire_lock on a word: it returns unless the word is 1.               *)
EnterWord(w) == IF w = 0 THEN 1 ELSE w

(* The handles a process uses: the user library passes the ones it got     *)
(* from Create and from ConnectToServer.                                   *)
UsableHandles(p) == owns[p] \cup {k[2] : k \in knows[p]}

(* Send(handle, ...), once its parameters are accepted.                    *)
SendCall(p, h) ==
  /\ At(p, "idle")
  /\ h \in UsableHandles(p)
  /\ call' = [call EXCEPT ![p].pc = "sEnter", ![p].handle = h]
  /\ UNCHANGED <<registryVars, sectionVars, knows>>

(* ipcObject->criticalSection.Enter() while ipcObject is still nullptr.    *)
SendEnter(p) ==
  /\ At(p, "sEnter")
  /\ lowWord # 1
  /\ lowWord' = EnterWord(lowWord)
  /\ Goto(p, "sFind")
  /\ UNCHANGED <<registryVars, words, knows>>

(* _FindIpcObjectByHandle, and the refusal of a server that sends.         *)
SendFind(p) ==
  LET found == FindIpcObjectByHandle(call[p].handle)
      refused == found = Null \/ objects[found].serverProcess = p
  IN  /\ At(p, "sFind")
      /\ call' = [call EXCEPT ![p].pc = IF refused THEN "sLeave" ELSE "sAdd",
                              ![p].obj = found]
      /\ UNCHANGED <<registryVars, sectionVars, knows>>

(* AddBytes.                                                               *)
SendAdd(p) ==
  /\ At(p, "sAdd")
  /\ Goto(p, "sLeave")
  /\ UNCHANGED <<registryVars, sectionVars, knows>>

(* ipcObject->criticalSection.Leave(), on the object that was found.       *)
SendLeave(p) ==
  /\ At(p, "sLeave")
  /\ IF call[p].obj = Null
       THEN lowWord' = 0 /\ UNCHANGED words
       ELSE words' = [words EXCEPT ![call[p].obj] = 0] /\ UNCHANGED lowWord
  /\ Return(p)
  /\ UNCHANGED <<registryVars, knows>>

-----------------------------------------------------------------------------
(* Receive(handle, ...): a process that is not the server gets a status of *)
(* refusal, which is overwritten, and goes on.                             *)
ReceiveCall(p, h) ==
  LET found == FindIpcObjectByHandle(h)
  IN  /\ At(p, "idle")
      /\ h \in UsableHandles(p)
      /\ IF found = Null
           THEN Return(p)
           ELSE call' = [call EXCEPT ![p].pc = "rWait", ![p].handle = h, ![p].obj = found]
      /\ UNCHANGED <<registryVars, sectionVars, knows>>

(* EventWait returns: on a signal, or without one.                         *)
ReceiveWait(p) ==
  /\ At(p, "rWait")
  /\ Goto(p, "rEnter")
  /\ UNCHANGED <<registryVars, sectionVars, knows>>

ReceiveEnter(p) ==
  /\ At(p, "rEnter")
  /\ words[call[p].obj] # 1
  /\ words' = [words EXCEPT ![call[p].obj] = EnterWord(@)]
  /\ Goto(p, "rRead")
  /\ UNCHANGED <<registryVars, lowWord, knows>>

(* ReadBytes, which cannot fail: Receive has checked its parameters.       *)
ReceiveRead(p) ==
  /\ At(p, "rRead")
  /\ Goto(p, "rLeave")
  /\ UNCHANGED <<registryVars, sectionVars, knows>>

ReceiveLeave(p) ==
  /\ At(p, "rLeave")
  /\ words' = [words EXCEPT ![call[p].obj] = 0]
  /\ Return(p)
  /\ UNCHANGED <<registryVars, lowWord, knows>>

(* A thread that was preempted inside _acquire_lock may come out of it     *)
(* while the word is 1, or without taking a word that became 0             *)
(* (MutualExclusion of CriticalSection).                                   *)
EnterMidway(p) ==
  /\ \/ At(p, "sEnter") /\ lowWord \in {0, 1} /\ Goto(p, "sFind")
     \/ At(p, "rEnter") /\ words[call[p].obj] \in {0, 1} /\ Goto(p, "rRead")
  /\ UNCHANGED <<registryVars, words, lowWord, knows>>

SendStep(p) == SendEnter(p) \/ SendFind(p) \/ SendAdd(p) \/ SendLeave(p)

IpcNext ==
  \E p \in Procs :
    \/ \E i \in Ids : ServerCheck(p, i) \/ ConnectToServer(p, i)
    \/ CountLoad(p) \/ CountStore(p) \/ ServerCreate(p) \/ ServerCreateFails(p) \/ ServerLink(p)
    \/ \E h \in 1 .. MaxServers : SendCall(p, h) \/ ReceiveCall(p, h)
    \/ SendStep(p)
    \/ ReceiveWait(p) \/ ReceiveEnter(p) \/ ReceiveRead(p) \/ ReceiveLeave(p)
    \/ EnterMidway(p)

IpcSpec == IpcInit /\ [][IpcNext]_ipcVars

(* A thread inside Send goes on (EveryThreadRuns of Scheduler); nothing is *)
(* assumed of the lucky exits of EnterMidway.                               *)
IpcFairSpec == IpcSpec /\ \A p \in Procs : WF_ipcVars(SendStep(p))

-----------------------------------------------------------------------------
Objects == [id : Ids, handle : 1 .. MaxServers, serverProcess : Procs]

IpcTypeOK ==
  /\ objects \in Seq(Objects)
  /\ words \in Seq({0, 1, 2}) /\ Len(words) = Len(objects)
  /\ lowWord \in {0, 1, 2}
  /\ ipcObjects \in Seq(1 .. Len(objects))
  /\ handleCount \in 0 .. MaxServers
  /\ \A p \in Procs : call[p].obj \in 0 .. Len(objects)
  /\ owns \in [Procs -> SUBSET (1 .. MaxServers)]
  /\ knows \in [Procs -> SUBSET (Ids \X (1 .. MaxServers))]

(* As long as registrations do not overlap: an id has one server, a handle *)
(* one object, and a handle that AddNewServer returned leads to the object *)
(* of the process that got it, whatever failed in between.                 *)
RegistryConsistent ==
  /\ IpcTypeOK
  /\ ~overlap =>
       /\ \A k, l \in 1 .. Len(ipcObjects) :
            LET o == objects[ipcObjects[k]]  u == objects[ipcObjects[l]]
            IN  o.id = u.id \/ o.handle = u.handle => k = l
       /\ \A p \in Procs : \A h \in owns[p] :
            LET found == FindIpcObjectByHandle(h)
            IN  found # Null /\ objects[found].serverProcess = p

(* "A ipc server can't send a message, but only receive one", overlapping  *)
(* registrations included; and as long as registrations do not overlap,    *)
(* what a client sends with the handle of a server it connected to goes to *)
(* the object of that server.                                              *)
SendReachesServer ==
  \A p \in Procs : call[p].pc = "sAdd" =>
    /\ objects[call[p].obj].serverProcess # p
    /\ ~overlap => \A k \in knows[p] :
         k[2] = call[p].handle => objects[call[p].obj].id = k[1]

(* As long as registrations do not overlap every Send returns, although    *)
(* the section it enters, of a null object, is not the one it leaves: the  *)
(* word found at address 0 is an interrupt vector, neither 0 nor 1, and    *)
(* no handle that was given leads to a null object.                        *)
SendsReturn ==
  []~overlap => \A p \in Procs : (call[p].pc = "sEnter") ~> (call[p].pc = "idle")

=============================================================================
