------------------------------ MODULE IpcProofs ------------------------------
(***************************************************************************)
(* Proofs about Ipc, for any number of processes, ids and servers, and for *)
(* calls that are preempted at any statement.                              *)
(***************************************************************************)
EXTENDS Ipc, TLAPS, WellFoundedInduction

Pcs == {"idle", "load", "store", "create", "link", "sEnter", "sFind", "sAdd", "sLeave",
        "rWait", "rEnter", "rRead", "rLeave"}
Calls == [pc : Pcs, id : Ids \cup {Null}, handle : 0 .. MaxServers,
          obj : 0 .. Len(objects), tail : Int]

(* The types, with those of the calls; and Send refuses the server,        *)
(* whatever registrations do.                                              *)
CallsInv ==
  /\ IpcTypeOK
  /\ call \in [Procs -> Calls]
  /\ overlap \in BOOLEAN
  /\ \A p \in Procs :
       /\ call[p].pc \in {"store", "create", "link"} => call[p].handle > 0
       /\ call[p].pc \in Registering => call[p].id \in Ids
       /\ call[p].pc = "link" => call[p].obj > 0
       /\ call[p].pc = "sAdd" => call[p].obj > 0 /\ objects[call[p].obj].serverProcess # p

(* Object o is in the list.                                                *)
Listed(o) == \E k \in 1 .. Len(ipcObjects) : ipcObjects[k] = o

(* What the registration of p has found and made so far: its id is free,   *)
(* and its handle is the last one that was counted, which nobody has.      *)
Registers(p) ==
  /\ \A o \in 1 .. Len(objects) : Listed(o) => objects[o].id # call[p].id
  /\ call[p].pc = "store" => call[p].handle = handleCount + 1
  /\ call[p].pc \in {"create", "link"} =>
       /\ call[p].handle = handleCount
       /\ \A o \in 1 .. Len(objects) : Listed(o) => objects[o].handle < handleCount
  /\ call[p].pc = "link" =>
       /\ call[p].tail = LastElement(ipcObjects)
       /\ objects[call[p].obj] = [id |-> call[p].id, handle |-> call[p].handle,
                                  serverProcess |-> p]

(* As long as registrations have not overlapped.                           *)
AloneInv ==
  /\ \A p, q \in Procs : call[p].pc \in Registering /\ call[q].pc \in Registering => p = q
  /\ \A p \in Procs : call[p].pc \in Registering => Registers(p)
  /\ \A o \in 1 .. Len(objects) : Listed(o) => objects[o].handle <= handleCount
  /\ \A k, l \in 1 .. Len(ipcObjects) :
       \/ objects[ipcObjects[k]].id = objects[ipcObjects[l]].id
       \/ objects[ipcObjects[k]].handle = objects[ipcObjects[l]].handle
       => k = l
  /\ \A p \in Procs : \A h \in owns[p] :
       \E o \in 1 .. Len(objects) :
         Listed(o) /\ objects[o].handle = h /\ objects[o].serverProcess = p
  /\ \A p \in Procs : \A c \in knows[p] :
       \E o \in 1 .. Len(objects) :
         Listed(o) /\ objects[o].handle = c[2] /\ objects[o].id = c[1]
  /\ \A p \in Procs : call[p].pc = "sAdd" =>
       Listed(call[p].obj) /\ objects[call[p].obj].handle = call[p].handle

IpcInv == CallsInv /\ (~overlap => AloneInv)

-----------------------------------------------------------------------------
(* A set of numbers that is not empty has a smallest one.                  *)
LEMMA FirstExists ==
  ASSUME NEW T, T \subseteq Nat, T # {}
  PROVE  \E k \in T : \A l \in T : k <= l
<1> DEFINE R == OpToRel(<, Nat)
<1>1. IsWellFoundedOn(R, Nat)
  BY NatLessThanWellFounded, Zenon
<1>2. \A l, k \in Nat : l < k => <<l, k>> \in R
  BY DEF OpToRel
<1> HIDE DEF R
<1>3. PICK k \in T : \A l \in T : ~(<<l, k>> \in R)
  BY <1>1, WFMin
<1>4. \A l \in T : ~(l < k)
  BY <1>2, <1>3
<1>5. k \in Nat /\ \A l \in T : l \in Nat /\ k <= l
  BY <1>4
<1> QED
  BY <1>5

(* ListEnumerate finds an element of the list among those looked for, if   *)
(* there is one.                                                           *)
LEMMA FirstOfFinds ==
  ASSUME IpcTypeOK, NEW found, found \subseteq 1 .. Len(ipcObjects)
  PROVE  IF found = {} THEN FirstOf(found) = Null
         ELSE \E k \in found : FirstOf(found) = ipcObjects[k] /\ ipcObjects[k] \in 1 .. Len(objects)
<1> DEFINE first == CHOOSE k \in found : \A l \in found : k <= l
<1>1. found \subseteq Nat
  BY DEF IpcTypeOK
<1>2. found # {} => first \in found
  BY <1>1, FirstExists
<1>3. \A k \in found : ipcObjects[k] \in 1 .. Len(objects)
  BY DEF IpcTypeOK
<1>4. found # {} => FirstOf(found) = ipcObjects[first]
  BY DEF FirstOf
<1>5. found = {} => FirstOf(found) = Null
  BY DEF FirstOf
<1> QED
  BY <1>2, <1>3, <1>4, <1>5

(* _FindIpcObjectByServerId.                                               *)
LEMMA FindById ==
  ASSUME IpcTypeOK, NEW i
  PROVE  LET o == FindIpcObjectByServerId(i)
         IN  IF o = Null THEN \A u \in 1 .. Len(objects) : Listed(u) => objects[u].id # i
             ELSE o \in 1 .. Len(objects) /\ Listed(o) /\ objects[o].id = i
<1> DEFINE found == {k \in 1 .. Len(ipcObjects) : objects[ipcObjects[k]].id = i}
<1>1. CASE found = {}
  BY <1>1 DEF FindIpcObjectByServerId, FirstOf, Listed
<1>2. CASE found # {}
  <2>1. PICK k \in found : FirstOf(found) = ipcObjects[k] /\ ipcObjects[k] \in 1 .. Len(objects)
    BY <1>2, FirstOfFinds
  <2>2. FindIpcObjectByServerId(i) = ipcObjects[k] /\ Listed(ipcObjects[k])
    BY <2>1 DEF FindIpcObjectByServerId, Listed
  <2>3. ipcObjects[k] # Null
    BY <2>1 DEF Null, IpcTypeOK
  <2> QED
    BY <2>1, <2>2, <2>3
<1> QED
  BY <1>1, <1>2

(* _FindIpcObjectByHandle.                                                 *)
LEMMA FindByHandle ==
  ASSUME IpcTypeOK, NEW h
  PROVE  LET o == FindIpcObjectByHandle(h)
         IN  IF o = Null THEN \A u \in 1 .. Len(objects) : Listed(u) => objects[u].handle # h
             ELSE o \in 1 .. Len(objects) /\ Listed(o) /\ objects[o].handle = h
<1> DEFINE found == {k \in 1 .. Len(ipcObjects) : objects[ipcObjects[k]].handle = h}
<1>1. CASE found = {}
  BY <1>1 DEF FindIpcObjectByHandle, FirstOf, Listed
<1>2. CASE found # {}
  <2>1. PICK k \in found : FirstOf(found) = ipcObjects[k] /\ ipcObjects[k] \in 1 .. Len(objects)
    BY <1>2, FirstOfFinds
  <2>2. FindIpcObjectByHandle(h) = ipcObjects[k] /\ Listed(ipcObjects[k])
    BY <2>1 DEF FindIpcObjectByHandle, Listed
  <2>3. ipcObjects[k] # Null
    BY <2>1 DEF Null, IpcTypeOK
  <2> QED
    BY <2>1, <2>2, <2>3
<1> QED
  BY <1>1, <1>2

(* ListPush leaves a list of objects, whoever cut it meanwhile.            *)
LEMMA PushTypes ==
  ASSUME NEW S, NEW list \in Seq(S), NEW e, NEW o \in S
  PROVE  PushAfter(list, e, o) \in Seq(S)
<1> DEFINE places == {k \in 1 .. Len(list) : ElementAt(list, k) = e}
<1>1. CASE e = 0
  <2>1. SubSeq(list, 2, Len(list)) \in Seq(S)
    OBVIOUS
  <2> QED
    BY <1>1, <2>1 DEF PushAfter
<1>2. CASE e # 0 /\ places = {}
  BY <1>2 DEF PushAfter
<1>3. CASE e # 0 /\ places # {}
  <2> DEFINE k == CHOOSE k \in places : TRUE
  <2>1. k \in 1 .. Len(list)
    BY <1>3
  <2> HIDE DEF k
  <2>2. SubSeq(list, 1, k) \in Seq(S)
    BY <2>1
  <2>3. Append(SubSeq(list, 1, k), o) \in Seq(S)
    BY <2>2
  <2> QED
    BY <1>3, <2>3 DEF PushAfter, k
<1> QED
  BY <1>1, <1>2, <1>3

(* Behind the last element of a list whose objects differ, it appends.     *)
LEMMA PushAppends ==
  ASSUME NEW S, S \subseteq Nat \ {0}, NEW list \in Seq(S), NEW o \in S,
         \A k, l \in 1 .. Len(list) : list[k] = list[l] => k = l
  PROVE  PushAfter(list, LastElement(list), o) = Append(list, o)
<1> DEFINE e == LastElement(list)
           places == {k \in 1 .. Len(list) : ElementAt(list, k) = e}
<1>1. CASE list = <<>>
  <2>1. SubSeq(list, 2, Len(list)) = <<>>
    BY <1>1
  <2>2. e = 0
    BY <1>1 DEF LastElement
  <2>3. PushAfter(list, e, o) = <<o>> \o <<>>
    BY <2>1, <2>2 DEF PushAfter
  <2> HIDE DEF e
  <2>4. Append(list, o) = <<o>> /\ <<o>> \o <<>> = <<o>>
    BY <1>1
  <2> QED
    BY <2>3, <2>4 DEF e
<1>2. CASE list # <<>>
  <2>1. Len(list) \in 1 .. Len(list)
    BY <1>2
  <2>2. e # 0
    <3>1. list[Len(list)] \in S
      BY <2>1
    <3> QED
      BY <1>2, <3>1 DEF LastElement, ElementAt, HeadElement
  <2>3. places = {Len(list)}
    <3>1. \A k \in 1 .. Len(list) : list[k] \in S /\ list[k] # HeadElement
      BY DEF HeadElement
    <3>2. e = ElementAt(list, Len(list))
      BY <1>2 DEF LastElement
    <3>3. ASSUME NEW k \in 1 .. Len(list), ElementAt(list, k) = ElementAt(list, Len(list))
          PROVE  k = Len(list)
      BY <2>1, <3>1, <3>3 DEF ElementAt
    <3> HIDE DEF e
    <3> QED
      BY <2>1, <3>2, <3>3
  <2>4. (CHOOSE k \in places : TRUE) = Len(list)
    BY <2>3
  <2>5. SubSeq(list, 1, Len(list)) = list
    OBVIOUS
  <2> QED
    BY <2>2, <2>3, <2>4, <2>5 DEF PushAfter
<1> QED
  BY <1>1, <1>2

-----------------------------------------------------------------------------
(* What Goto, Return and the other writes to a call leave.                 *)
LEMMA CallTypes ==
  ASSUME CallsInv, NEW p \in Procs
  PROVE  /\ call[p] \in Calls /\ Idle \in Calls
         /\ \A to \in Pcs : [call[p] EXCEPT !.pc = to] \in Calls
<1>1. call[p] \in Calls
  BY DEF CallsInv
<1>2. Len(objects) \in Nat /\ MaxServers \in Nat
  BY IpcAssumption DEF CallsInv, IpcTypeOK
<1>3. Idle \in Calls
  BY <1>2 DEF Idle, Calls, Pcs, Null
<1> QED
  BY <1>1, <1>3 DEF Calls

(* The calls that touch neither the registry nor an object.                *)
LEMMA LocalStep ==
  ASSUME CallsInv, UNCHANGED <<objects, ipcObjects, owns>>, handleCount' \in 0 .. MaxServers,
         words' \in Seq({0, 1, 2}), Len(words') = Len(words), lowWord' \in {0, 1, 2},
         overlap' \in BOOLEAN,
         knows' \in [Procs -> SUBSET (Ids \X (1 .. MaxServers))],
         NEW p \in Procs, NEW c \in Calls, call' = [call EXCEPT ![p] = c],
         c.pc \in {"store", "create", "link"} => c.handle > 0,
         c.pc \in Registering => c.id \in Ids,
         c.pc = "link" => c.obj > 0,
         c.pc = "sAdd" => c.obj > 0 /\ objects[c.obj].serverProcess # p
  PROVE  CallsInv'
<1>1. call' \in [Procs -> Calls'] /\ call'[p] = c /\ \A q \in Procs \ {p} : call'[q] = call[q]
  BY DEF CallsInv, Calls
<1>2. IpcTypeOK'
  BY <1>1 DEF CallsInv, IpcTypeOK, Calls
<1> QED
  BY <1>1, <1>2 DEF CallsInv

(* A new object, and a call that holds it.                                 *)
LEMMA CreateStep ==
  ASSUME CallsInv, NEW p \in Procs, ServerCreate(p)
  PROVE  /\ CallsInv'
         /\ Len(objects') = Len(objects) + 1 /\ Len(objects) \in Nat
         /\ \A o \in 1 .. Len(objects) : objects'[o] = objects[o]
         /\ objects'[Len(objects')] = [id |-> call[p].id, handle |-> call[p].handle,
                                       serverProcess |-> p]
         /\ call'[p] = [call[p] EXCEPT !.pc = "link", !.obj = Len(objects'),
                                       !.tail = LastElement(ipcObjects)]
         /\ \A q \in Procs \ {p} : call'[q] = call[q]
<1> DEFINE new == [id |-> call[p].id, handle |-> call[p].handle, serverProcess |-> p]
           n == Len(objects)
           c == [call[p] EXCEPT !.pc = "link", !.obj = n + 1, !.tail = LastElement(ipcObjects)]
<1>0. IpcTypeOK /\ call[p] \in Calls /\ call[p].pc = "create"
  BY DEF CallsInv, ServerCreate, At
<1>1. new \in Objects
  BY <1>0, IpcAssumption DEF CallsInv, Calls, Objects, Registering
<1>2. objects' = Append(objects, new) /\ objects \in Seq(Objects) /\ n \in Nat
  BY <1>0 DEF ServerCreate, IpcTypeOK
<1> HIDE DEF new
<1>3. /\ objects' \in Seq(Objects) /\ Len(objects') = n + 1 /\ objects'[n + 1] = new
      /\ \A o \in 1 .. n : objects'[o] = objects[o]
  BY <1>1, <1>2
<1>4. words' \in Seq({0, 1, 2}) /\ Len(words') = n + 1
  <2>1. PICK w \in InitialWords : words' = Append(words, w)
    BY DEF ServerCreate
  <2>2. w \in {0, 1, 2}
    BY IpcAssumption
  <2> QED
    BY <1>0, <1>2, <2>1, <2>2 DEF IpcTypeOK
<1>5. ipcObjects' \in Seq(1 .. Len(objects'))
  <2>1. 1 .. n \subseteq 1 .. n + 1
    BY <1>2
  <2>2. UNCHANGED ipcObjects /\ ipcObjects \in Seq(1 .. n)
    BY <1>0 DEF ServerCreate, IpcTypeOK
  <2> QED
    BY <1>3, <2>1, <2>2
<1>6. LastElement(ipcObjects) \in Int
  BY <1>0 DEF LastElement, ElementAt, HeadElement, IpcTypeOK
<1>7. call' = [call EXCEPT ![p] = c]
  BY <1>3 DEF ServerCreate
<1>8. call'[p] = c /\ \A q \in Procs \ {p} : call'[q] = call[q]
  BY <1>7 DEF CallsInv
<1>9. c \in Calls' /\ \A q \in Procs : call[q] \in Calls'
  <2>1. Len(objects') = n + 1
    BY <1>3
  <2>2. 0 .. n \subseteq 0 .. n + 1 /\ n + 1 \in 0 .. n + 1
    BY <1>2
  <2>3. \A r \in Calls : r \in Calls'
    BY <2>1, <2>2 DEF Calls
  <2>4. call[p] \in Calls'
    BY <1>0, <2>3
  <2>5. c \in Calls'
    BY <1>6, <2>1, <2>2, <2>4 DEF Calls, Pcs
  <2> QED
    BY <2>3, <2>5 DEF CallsInv
<1>10. call' \in [Procs -> Calls']
  BY <1>7, <1>9 DEF CallsInv
<1>11. c.pc = "link" /\ c.obj = n + 1 /\ c.handle = call[p].handle /\ c.id = call[p].id
  BY <1>0 DEF Calls
<1> HIDE DEF c, n
<1>12. overlap' \in BOOLEAN
  BY Zenon DEF ServerCreate, RegisterStep
<1>13. IpcTypeOK'
  BY <1>0, <1>3, <1>4, <1>5, <1>10 DEF ServerCreate, IpcTypeOK, Calls
<1>14. \A q \in Procs : call[q].pc = "sAdd" => objects'[call[q].obj] = objects[call[q].obj]
  BY <1>2, <1>3 DEF CallsInv, Calls, n
<1>15. ASSUME NEW q \in Procs
       PROVE  /\ call'[q].pc \in {"store", "create", "link"} => call'[q].handle > 0
              /\ call'[q].pc \in Registering => call'[q].id \in Ids
              /\ call'[q].pc = "link" => call'[q].obj > 0
              /\ call'[q].pc = "sAdd" => call'[q].obj > 0 /\ objects'[call'[q].obj].serverProcess # q
  <2>1. CASE q = p
    BY <1>0, <1>2, <1>8, <1>11, <2>1 DEF CallsInv, Registering, n
  <2>2. CASE q # p
    BY <1>8, <1>14, <2>2 DEF CallsInv
  <2> QED
    BY <2>1, <2>2
<1>16. CallsInv'
  BY <1>10, <1>12, <1>13, <1>15 DEF CallsInv
<1> QED
  BY <1>2, <1>3, <1>8, <1>16 DEF new, n, c

(* The list gets an object, and the server a handle.                       *)
LEMMA LinkStep ==
  ASSUME CallsInv, NEW p \in Procs, ServerLink(p)
  PROVE  CallsInv'
<1>0. IpcTypeOK /\ call[p] \in Calls /\ call[p].pc = "link" /\ Idle \in Calls
  BY CallTypes DEF CallsInv, ServerLink, At
<1>1. call[p].obj \in 1 .. Len(objects) /\ call[p].handle \in 1 .. MaxServers
  BY <1>0, IpcAssumption, SMTT(40) DEF CallsInv, Calls, IpcTypeOK
<1>2. ipcObjects' \in Seq(1 .. Len(objects))
  BY <1>0, <1>1, PushTypes DEF ServerLink, IpcTypeOK
<1>3. owns' \in [Procs -> SUBSET (1 .. MaxServers)]
  BY <1>0, <1>1 DEF ServerLink, IpcTypeOK
<1>4. UNCHANGED <<objects, handleCount, words, lowWord, knows>> /\ call' = [call EXCEPT ![p] = Idle]
  BY DEF ServerLink, sectionVars, Return
<1>5. call' \in [Procs -> Calls'] /\ call'[p] = Idle /\ \A q \in Procs \ {p} : call'[q] = call[q]
  BY <1>0, <1>4 DEF CallsInv, Calls
<1>6. overlap' \in BOOLEAN
  BY Zenon DEF ServerLink, RegisterStep
<1>7. IpcTypeOK'
  BY <1>0, <1>2, <1>3, <1>4, <1>5 DEF IpcTypeOK, Calls
<1>8. Idle.pc = "idle"
  BY DEF Idle
<1> QED
  BY <1>4, <1>5, <1>6, <1>7, <1>8 DEF CallsInv, Registering

(* A step of a registration that did not overlap another one.              *)
LEMMA RegisterAlone ==
  ASSUME NEW p \in Procs, RegisterStep(p)
  PROVE  /\ overlap' \in BOOLEAN
         /\ ~overlap' => ~overlap /\ \A q \in Procs \ {p} : call[q].pc \notin Registering
BY Zenon DEF RegisterStep

(* A call that leaves the registry alone: what it needs itself.            *)
LEMMA LocalAlone ==
  ASSUME CallsInv, AloneInv, UNCHANGED <<objects, ipcObjects, handleCount, owns>>,
         NEW p \in Procs, NEW c, call' = [call EXCEPT ![p] = c],
         c.pc \in Registering =>
           Registers(p)' /\ \A q \in Procs \ {p} : call[q].pc \notin Registering,
         c.pc = "sAdd" => Listed(c.obj) /\ objects[c.obj].handle = c.handle,
         \A q \in Procs : \A d \in knows'[q] :
           \E o \in 1 .. Len(objects) : Listed(o) /\ objects[o].handle = d[2] /\ objects[o].id = d[1]
  PROVE  AloneInv'
<1>1. call'[p] = c /\ \A q \in Procs \ {p} : call'[q] = call[q]
  BY DEF CallsInv
<1>2. \A o : Listed(o)' <=> Listed(o)
  BY DEF Listed
<1>3. \A q \in Procs \ {p} : Registers(q) => Registers(q)'
  BY <1>1, <1>2 DEF Registers
<1>4. \A q, r \in Procs : call'[q].pc \in Registering /\ call'[r].pc \in Registering => q = r
  BY <1>1 DEF AloneInv
<1>5. \A q \in Procs : call'[q].pc \in Registering => Registers(q)'
  BY <1>1, <1>3 DEF AloneInv
<1>6. ASSUME NEW q \in Procs
      PROVE (call[q].pc = "sAdd" =>
               Listed(call[q].obj) /\ objects[call[q].obj].handle = call[q].handle)'
  BY <1>1 DEF AloneInv, Listed
<1> QED
  BY <1>2, <1>4, <1>5, <1>6 DEF AloneInv

(* The word of a section stays one of the three values.                    *)
LEMMA WordTypes ==
  ASSUME IpcTypeOK, NEW o, NEW w \in {0, 1, 2}
  PROVE  /\ [words EXCEPT ![o] = w] \in Seq({0, 1, 2})
         /\ Len([words EXCEPT ![o] = w]) = Len(words)
         /\ EnterWord(w) \in {0, 1, 2}
<1>1. words \in Seq({0, 1, 2})
  BY DEF IpcTypeOK
<1>2. EnterWord(w) \in {0, 1, 2}
  BY DEF EnterWord
<1>3. words \in [1 .. Len(words) -> {0, 1, 2}] /\ Len(words) \in Nat
  BY <1>1
<1>4. [words EXCEPT ![o] = w] \in [1 .. Len(words) -> {0, 1, 2}]
  BY <1>3
<1> QED
  BY <1>2, <1>3, <1>4

(* The steps of a registration before its object exists.                   *)
LEMMA RegistrationSteps ==
  ASSUME IpcInv, NEW p \in Procs, NEW i \in Ids,
         ServerCheck(p, i) \/ CountLoad(p) \/ CountStore(p) \/ ServerCreateFails(p)
  PROVE  IpcInv'
<1>0. CallsInv /\ IpcTypeOK /\ call[p] \in Calls /\ Idle \in Calls /\ call \in [Procs -> Calls]
  BY CallTypes DEF IpcInv, CallsInv
<1>1. /\ RegisterStep(p) /\ UNCHANGED <<objects, ipcObjects, owns, words, lowWord, knows>>
  BY DEF ServerCheck, CountLoad, CountStore, ServerCreateFails, sectionVars
<1>2. /\ overlap' \in BOOLEAN
      /\ ~overlap' => AloneInv /\ \A q \in Procs \ {p} : call[q].pc \notin Registering
  BY <1>1, RegisterAlone DEF IpcInv
<1>3. /\ words' \in Seq({0, 1, 2}) /\ Len(words') = Len(words) /\ lowWord' \in {0, 1, 2}
      /\ knows' \in [Procs -> SUBSET (Ids \X (1 .. MaxServers))]
      /\ handleCount \in 0 .. MaxServers /\ MaxServers \in Nat
  BY <1>0, <1>1, IpcAssumption DEF IpcTypeOK
<1>4. Idle.pc = "idle"
  BY DEF Idle
<1>5. AloneInv => \A q \in Procs : \A d \in knows'[q] :
        \E o \in 1 .. Len(objects) : Listed(o) /\ objects[o].handle = d[2] /\ objects[o].id = d[1]
  BY <1>1 DEF AloneInv
<1>6. CASE call' = [call EXCEPT ![p] = Idle] /\ UNCHANGED handleCount
  <2>1. CallsInv'
    BY <1>0, <1>1, <1>2, <1>3, <1>4, <1>6, LocalStep DEF Registering
  <2>2. ~overlap' => AloneInv'
    BY <1>0, <1>1, <1>2, <1>4, <1>5, <1>6, LocalAlone DEF Registering
  <2> QED
    BY <2>1, <2>2 DEF IpcInv
<1>7. CASE ServerCheck(p, i) /\ FindIpcObjectByServerId(i) = Null
  <2> DEFINE c == [call[p] EXCEPT !.pc = "load", !.id = i]
  <2>1. call' = [call EXCEPT ![p] = c] /\ UNCHANGED handleCount
    BY <1>7 DEF ServerCheck
  <2>2. c \in Calls /\ c.pc = "load" /\ c.id = i
    BY <1>0 DEF Calls, Pcs
  <2> HIDE DEF c
  <2>3. CallsInv'
    BY <1>0, <1>1, <1>2, <1>3, <2>1, <2>2, LocalStep
  <2>4. Registers(p)'
    <3>1. call'[p] = c
      BY <1>0, <2>1
    <3>2. \A o \in 1 .. Len(objects) : Listed(o) => objects[o].id # i
      BY <1>0, <1>7, FindById
    <3> QED
      BY <1>1, <2>2, <3>1, <3>2 DEF Registers, Listed
  <2>5. ~overlap' => AloneInv'
    BY <1>0, <1>1, <1>2, <1>5, <2>1, <2>2, <2>4, LocalAlone
  <2> QED
    BY <2>3, <2>5 DEF IpcInv
<1>8. CASE CountLoad(p)
  <2> DEFINE c == [call[p] EXCEPT !.pc = "store", !.handle = handleCount + 1]
  <2>1. /\ call' = [call EXCEPT ![p] = c] /\ UNCHANGED handleCount
        /\ call[p].pc = "load" /\ handleCount < MaxServers
    BY <1>8 DEF CountLoad, At
  <2>2. /\ c \in Calls /\ c.pc = "store" /\ c.id = call[p].id /\ c.handle = handleCount + 1
        /\ c.handle > 0
    <3>1. handleCount + 1 \in 0 .. MaxServers /\ handleCount + 1 > 0
      BY <1>3, <2>1
    <3> QED
      BY <1>0, <3>1 DEF Calls, Pcs
  <2> HIDE DEF c
  <2>3. c.id \in Ids
    BY <1>0, <2>1, <2>2 DEF CallsInv, Registering
  <2>4. CallsInv'
    BY <1>0, <1>1, <1>2, <1>3, <2>1, <2>2, <2>3, LocalStep
  <2>5. AloneInv => Registers(p)'
    <3>1. call'[p] = c
      BY <1>0, <2>1
    <3>2. \A o : Listed(o)' <=> Listed(o)
      BY <1>1 DEF Listed
    <3>3. AloneInv => \A o \in 1 .. Len(objects) : Listed(o) => objects[o].id # call[p].id
      BY <2>1 DEF AloneInv, Registers, Registering
    <3> QED
      BY <1>1, <2>1, <2>2, <3>1, <3>2, <3>3 DEF Registers
  <2>6. ~overlap' => AloneInv'
    BY <1>0, <1>1, <1>2, <1>5, <2>1, <2>2, <2>5, LocalAlone
  <2> QED
    BY <2>4, <2>6 DEF IpcInv
<1>9. CASE CountStore(p)
  <2> DEFINE c == [call[p] EXCEPT !.pc = "create"]
  <2>1. /\ call' = [call EXCEPT ![p] = c] /\ handleCount' = call[p].handle
        /\ call[p].pc = "store"
    BY <1>9 DEF CountStore, At, Goto
  <2>2. c \in Calls /\ c.pc = "create" /\ c.id = call[p].id /\ c.handle = call[p].handle
    BY <1>0 DEF Calls, Pcs
  <2> HIDE DEF c
  <2>3. c.id \in Ids /\ c.handle > 0 /\ handleCount' \in 0 .. MaxServers
    BY <1>0, <2>1, <2>2 DEF CallsInv, Registering, Calls
  <2>4. CallsInv'
    BY <1>0, <1>1, <1>2, <1>3, <2>1, <2>2, <2>3, LocalStep
  <2>5. ASSUME ~overlap' PROVE AloneInv'
    <3>1. AloneInv /\ \A q \in Procs \ {p} : call[q].pc \notin Registering
      BY <1>2, <2>5
    <3>2. handleCount' = handleCount + 1
      BY <2>1, <3>1 DEF AloneInv, Registers, Registering
    <3>3. call'[p] = c /\ \A q \in Procs \ {p} : call'[q] = call[q]
      BY <1>0, <2>1
    <3>4. \A o : Listed(o)' <=> Listed(o)
      BY <1>1 DEF Listed
    <3>5. handleCount \in Nat /\ \A o \in 1 .. Len(objects) : objects[o].handle \in Int
      <4>1. \A o \in 1 .. Len(objects) : objects[o] \in Objects
        BY <1>0 DEF IpcTypeOK
      <4> QED
        BY <1>3, <4>1 DEF Objects
    <3>6. \A o \in 1 .. Len(objects) : Listed(o) => objects[o].handle < handleCount'
      BY <3>1, <3>2, <3>5 DEF AloneInv
    <3>7. Registers(p)'
      BY <1>1, <2>1, <2>2, <3>1, <3>3, <3>4, <3>6 DEF AloneInv, Registers, Registering
    <3>8. \A o \in 1 .. Len(objects) : Listed(o) => objects[o].handle <= handleCount'
      BY <3>1, <3>2, <3>5 DEF AloneInv
    <3>9. \A q \in Procs : call'[q].pc \in Registering => q = p
      BY <3>1, <3>3
    <3>10. \A q \in Procs : call'[q].pc = "sAdd" => q # p /\ call'[q] = call[q]
      BY <2>2, <3>3
    <3> QED
      BY <1>1, <3>1, <3>4, <3>7, <3>8, <3>9, <3>10 DEF AloneInv
  <2> QED
    BY <2>4, <2>5 DEF IpcInv
<1> QED
  BY <1>6, <1>7, <1>8, <1>9 DEF ServerCheck, ServerCreateFails, Return

(* The object exists, but is not in the list yet.                          *)
LEMMA CreateAlone ==
  ASSUME CallsInv, AloneInv, NEW p \in Procs, ServerCreate(p),
         \A q \in Procs \ {p} : call[q].pc \notin Registering
  PROVE  AloneInv'
<1> DEFINE n == Len(objects)
<1>0. IpcTypeOK /\ call[p] \in Calls /\ call[p].pc = "create"
  BY DEF CallsInv, ServerCreate, At
<1>1. /\ Len(objects') = n + 1 /\ n \in Nat
      /\ \A o \in 1 .. n : objects'[o] = objects[o]
      /\ objects'[n + 1] = [id |-> call[p].id, handle |-> call[p].handle, serverProcess |-> p]
      /\ call'[p] = [call[p] EXCEPT !.pc = "link", !.obj = n + 1, !.tail = LastElement(ipcObjects)]
      /\ \A q \in Procs \ {p} : call'[q] = call[q]
  BY CreateStep
<1>2. UNCHANGED <<ipcObjects, handleCount, owns, knows>>
  BY DEF ServerCreate
<1>3. \A o : Listed(o)' <=> Listed(o)
  BY <1>2 DEF Listed
<1>4. \A k \in 1 .. Len(ipcObjects) : ipcObjects[k] \in 1 .. n
  BY <1>0 DEF IpcTypeOK
<1>5. \A o : Listed(o) => o \in 1 .. n
  BY <1>4 DEF Listed
<1>6. /\ call'[p].pc = "link" /\ call'[p].obj = n + 1 /\ call'[p].tail = LastElement(ipcObjects)
      /\ call'[p].id = call[p].id /\ call'[p].handle = call[p].handle
  BY <1>0, <1>1 DEF Calls
<1>7. Registers(p)
  BY <1>0 DEF AloneInv, Registering
<1> HIDE DEF n
<1>8. Registers(p)'
  <2>1. \A o : Listed(o)' => o \in 1 .. n /\ Listed(o) /\ objects'[o] = objects[o]
    BY <1>1, <1>3, <1>5
  <2>2. \A o : Listed(o)' => objects'[o].id # call'[p].id /\ objects'[o].handle < handleCount
    BY <1>0, <1>6, <1>7, <2>1 DEF Registers, n
  <2>3. LastElement(ipcObjects)' = LastElement(ipcObjects)
    BY <1>2 DEF LastElement, ElementAt
  <2>4. objects'[call'[p].obj] = [id |-> call'[p].id, handle |-> call'[p].handle,
                                  serverProcess |-> p]
    BY <1>1, <1>6
  <2>5. call'[p].handle = handleCount'
    BY <1>0, <1>2, <1>6, <1>7 DEF Registers
  <2>6. ASSUME NEW o PROVE Listed(o)' => objects'[o].id # call'[p].id /\ objects'[o].handle < handleCount'
    BY <1>2, <2>2
  <2> QED
    BY <1>6, <2>3, <2>4, <2>5, <2>6 DEF Registers
<1>9. \A q, r \in Procs : call'[q].pc \in Registering /\ call'[r].pc \in Registering => q = r
  BY <1>1
<1>10. \A q \in Procs : call'[q].pc \in Registering => Registers(q)'
  BY <1>1, <1>8
<1>11. ASSUME NEW o \in 1 .. Len(objects'), Listed(o)' PROVE objects'[o].handle <= handleCount'
  BY <1>1, <1>2, <1>3, <1>5, <1>11 DEF AloneInv, n
<1>12. ASSUME NEW k \in 1 .. Len(ipcObjects'), NEW l \in 1 .. Len(ipcObjects'),
              \/ objects'[ipcObjects'[k]].id = objects'[ipcObjects'[l]].id
              \/ objects'[ipcObjects'[k]].handle = objects'[ipcObjects'[l]].handle
       PROVE  k = l
  BY <1>1, <1>2, <1>4, <1>12 DEF AloneInv
<1>13. \A o \in 1 .. n : o \in 1 .. n + 1
  BY <1>1
<1>14. ASSUME NEW q \in Procs, NEW h \in owns'[q]
       PROVE  \E o \in 1 .. Len(objects') :
                Listed(o)' /\ objects'[o].handle = h /\ objects'[o].serverProcess = q
  <2>1. PICK o \in 1 .. n : Listed(o) /\ objects[o].handle = h /\ objects[o].serverProcess = q
    BY <1>2 DEF AloneInv, n
  <2> QED
    BY <1>1, <1>3, <1>13, <2>1
<1>15. ASSUME NEW q \in Procs, NEW d \in knows'[q]
       PROVE  \E o \in 1 .. Len(objects') :
                Listed(o)' /\ objects'[o].handle = d[2] /\ objects'[o].id = d[1]
  <2>1. PICK o \in 1 .. n : Listed(o) /\ objects[o].handle = d[2] /\ objects[o].id = d[1]
    BY <1>2 DEF AloneInv, n
  <2> QED
    BY <1>1, <1>3, <1>13, <2>1
<1>16. ASSUME NEW q \in Procs
       PROVE  (call[q].pc = "sAdd" =>
                 Listed(call[q].obj) /\ objects[call[q].obj].handle = call[q].handle)'
  <2>1. CASE q = p
    BY <1>6, <2>1
  <2>2. CASE q # p
    <3>1. call'[q] = call[q]
      BY <1>1, <2>2
    <3>2. call[q].pc = "sAdd" => /\ Listed(call[q].obj) /\ call[q].obj \in 1 .. n
                                 /\ objects[call[q].obj].handle = call[q].handle
      BY <1>5 DEF AloneInv
    <3>3. Listed(call[q].obj) => (Listed(call[q].obj))'
      BY <1>2, <3>1 DEF Listed
    <3> QED
      BY <1>1, <3>1, <3>2, <3>3
  <2> QED
    BY <2>1, <2>2
<1> QED
  BY <1>9, <1>10, <1>11, <1>12, <1>14, <1>15, <1>16 DEF AloneInv

(* The object is at the end of the list.                                   *)
LEMMA LinkAlone ==
  ASSUME CallsInv, AloneInv, NEW p \in Procs, ServerLink(p),
         \A q \in Procs \ {p} : call[q].pc \notin Registering
  PROVE  AloneInv'
<1> DEFINE m == Len(ipcObjects)
           u == call[p].obj
<1>0. IpcTypeOK /\ call[p] \in Calls /\ call[p].pc = "link"
  BY DEF CallsInv, ServerLink, At
<1>1. u \in 1 .. Len(objects) /\ Len(objects) \in Nat
  BY <1>0 DEF CallsInv, Calls, IpcTypeOK
<1>2. Registers(p)
  BY <1>0 DEF AloneInv, Registering
<1>3. \A k, l \in 1 .. m : ipcObjects[k] = ipcObjects[l] => k = l
  BY DEF AloneInv
<1>4. ipcObjects' = Append(ipcObjects, u)
  <2>1. ipcObjects \in Seq(1 .. Len(objects)) /\ 1 .. Len(objects) \subseteq Nat \ {0}
    BY <1>0, <1>1 DEF IpcTypeOK
  <2>2. ipcObjects' = PushAfter(ipcObjects, LastElement(ipcObjects), u)
    BY <1>0, <1>2 DEF ServerLink, Registers
  <2> HIDE DEF u
  <2> QED
    BY <1>1, <1>3, <2>1, <2>2, PushAppends
<1>5. /\ m \in Nat /\ Len(ipcObjects') = m + 1 /\ ipcObjects'[m + 1] = u
      /\ \A k \in 1 .. m : ipcObjects'[k] = ipcObjects[k] /\ ipcObjects[k] \in 1 .. Len(objects)
  BY <1>0, <1>1, <1>4 DEF IpcTypeOK
<1>6. /\ UNCHANGED <<objects, handleCount, knows>>
      /\ owns' = [owns EXCEPT ![p] = owns[p] \cup {call[p].handle}]
      /\ call'[p] = Idle /\ \A q \in Procs \ {p} : call'[q] = call[q]
  BY DEF ServerLink, Return, CallsInv
<1>7. /\ objects[u].id = call[p].id /\ objects[u].handle = call[p].handle
      /\ objects[u].serverProcess = p /\ call[p].handle = handleCount
  BY <1>0, <1>2 DEF Registers
<1> HIDE DEF m, u
<1>8. \A o : Listed(o)' <=> Listed(o) \/ o = u
  <2>1. m \in Nat /\ 1 .. m + 1 = (1 .. m) \cup {m + 1}
    BY <1>5
  <2> QED
    BY <1>5, <2>1 DEF Listed, m
<1>9. \A o : Listed(o) => /\ o \in 1 .. Len(objects)
                          /\ objects[o].id # objects[u].id /\ objects[o].handle < handleCount
  BY <1>0, <1>2, <1>5, <1>7 DEF Listed, Registers, m
<1>10. handleCount \in Int /\ \A o \in 1 .. Len(objects) : objects[o].handle \in Int
  <2>1. \A o \in 1 .. Len(objects) : objects[o] \in Objects
    BY <1>0 DEF IpcTypeOK
  <2> QED
    BY <1>0, <2>1 DEF IpcTypeOK, Objects
<1>11. Idle.pc = "idle"
  BY DEF Idle
<1>12. \A q \in Procs : call'[q].pc \notin Registering
  BY <1>6, <1>11 DEF Registering
<1>13. ASSUME NEW o \in 1 .. Len(objects'), Listed(o)' PROVE objects'[o].handle <= handleCount'
  BY <1>1, <1>6, <1>7, <1>8, <1>9, <1>10, <1>13
<1>14. ASSUME NEW k \in 1 .. Len(ipcObjects'), NEW l \in 1 .. Len(ipcObjects'),
              \/ objects'[ipcObjects'[k]].id = objects'[ipcObjects'[l]].id
              \/ objects'[ipcObjects'[k]].handle = objects'[ipcObjects'[l]].handle
       PROVE  k = l
  <2>1. \A j \in 1 .. m : Listed(ipcObjects[j])
    BY DEF Listed, m
  <2>2. \A j \in 1 .. m : /\ objects[ipcObjects[j]].id # objects[u].id
                          /\ objects[ipcObjects[j]].handle # objects[u].handle
    BY <1>7, <1>9, <1>10, <2>1
  <2>3. CASE k \in 1 .. m /\ l \in 1 .. m
    BY <1>5, <1>6, <1>14, <2>3, SMTT(40) DEF AloneInv, m
  <2>4. CASE k \in 1 .. m /\ l = m + 1
    BY <1>5, <1>6, <1>14, <2>2, <2>4
  <2>5. CASE k = m + 1 /\ l \in 1 .. m
    BY <1>5, <1>6, <1>14, <2>2, <2>5
  <2>6. k \in (1 .. m) \cup {m + 1} /\ l \in (1 .. m) \cup {m + 1}
    BY <1>5
  <2> QED
    BY <2>3, <2>4, <2>5, <2>6
<1>15. ASSUME NEW q \in Procs, NEW h \in owns'[q]
       PROVE  \E o \in 1 .. Len(objects') :
                Listed(o)' /\ objects'[o].handle = h /\ objects'[o].serverProcess = q
  <2>1. CASE h \in owns[q]
    <3>1. PICK o \in 1 .. Len(objects) :
            Listed(o) /\ objects[o].handle = h /\ objects[o].serverProcess = q
      BY <2>1 DEF AloneInv
    <3> QED
      BY <1>6, <1>8, <3>1
  <2>2. CASE q = p /\ h = call[p].handle
    BY <1>1, <1>6, <1>7, <1>8, <2>2
  <2> QED
    BY <1>0, <1>6, <2>1, <2>2 DEF IpcTypeOK
<1>16. ASSUME NEW q \in Procs, NEW d \in knows'[q]
       PROVE  \E o \in 1 .. Len(objects') :
                Listed(o)' /\ objects'[o].handle = d[2] /\ objects'[o].id = d[1]
  <2>1. PICK o \in 1 .. Len(objects) : Listed(o) /\ objects[o].handle = d[2] /\ objects[o].id = d[1]
    BY <1>6 DEF AloneInv
  <2> QED
    BY <1>6, <1>8, <2>1
<1>17. ASSUME NEW q \in Procs
       PROVE  (call[q].pc = "sAdd" =>
                 Listed(call[q].obj) /\ objects[call[q].obj].handle = call[q].handle)'
  <2>1. CASE q = p
    BY <1>6, <1>11, <2>1
  <2>2. CASE q # p
    <3>1. call'[q] = call[q]
      BY <1>6, <2>2
    <3>2. call[q].pc = "sAdd" =>
            Listed(call[q].obj) /\ objects[call[q].obj].handle = call[q].handle
      BY DEF AloneInv
    <3>3. Listed(call[q].obj) => (Listed(call[q].obj))'
      <4>1. ASSUME NEW k \in 1 .. m PROVE k \in 1 .. m + 1 /\ ipcObjects'[k] = ipcObjects[k]
        BY <1>5
      <4> QED
        BY <1>5, <3>1, <4>1 DEF Listed, m
    <3> QED
      BY <1>6, <3>1, <3>2, <3>3
  <2> QED
    BY <2>1, <2>2
<1> QED
  BY <1>12, <1>13, <1>14, <1>15, <1>16, <1>17 DEF AloneInv

(* A step of ConnectToServer, Send or Receive.                             *)
LEMMA MessageStep ==
  ASSUME IpcInv, UNCHANGED registryVars,
         words' \in Seq({0, 1, 2}), Len(words') = Len(words), lowWord' \in {0, 1, 2},
         knows' \in [Procs -> SUBSET (Ids \X (1 .. MaxServers))],
         AloneInv => \A q \in Procs : \A d \in knows'[q] :
           \E o \in 1 .. Len(objects) : Listed(o) /\ objects[o].handle = d[2] /\ objects[o].id = d[1],
         NEW p \in Procs, NEW c \in Calls, call' = [call EXCEPT ![p] = c],
         c.pc \notin Registering,
         c.pc = "sAdd" => /\ c.obj > 0 /\ objects[c.obj].serverProcess # p
                          /\ Listed(c.obj) /\ objects[c.obj].handle = c.handle
  PROVE  IpcInv'
<1>1. CallsInv /\ UNCHANGED <<objects, ipcObjects, handleCount, owns, overlap>>
  BY DEF IpcInv, registryVars
<1>2. handleCount' \in 0 .. MaxServers /\ overlap' \in BOOLEAN
  BY <1>1 DEF CallsInv, IpcTypeOK
<1>3. c.pc \notin {"store", "create", "link"}
  BY DEF Registering
<1>4. CallsInv'
  BY <1>1, <1>2, <1>3, LocalStep
<1>5. AloneInv => AloneInv'
  BY <1>1, LocalAlone
<1> QED
  BY <1>1, <1>4, <1>5 DEF IpcInv

(* The same for a step that only goes on to another statement, and may     *)
(* write a word.                                                           *)
LEMMA GotoStep ==
  ASSUME IpcInv, UNCHANGED <<registryVars, knows>>,
         words' \in Seq({0, 1, 2}), Len(words') = Len(words), lowWord' \in {0, 1, 2},
         NEW p \in Procs, NEW to \in Pcs \ (Registering \cup {"sAdd"}),
         Goto(p, to) \/ (to = "idle" /\ Return(p))
  PROVE  IpcInv'
<1>1. /\ \A d \in Pcs : [call[p] EXCEPT !.pc = d] \in Calls
      /\ call[p] \in Calls /\ Idle \in Calls /\ Idle.pc = "idle"
  BY CallTypes DEF IpcInv, Idle
<1>2. knows' \in [Procs -> SUBSET (Ids \X (1 .. MaxServers))]
  BY DEF IpcInv, CallsInv, IpcTypeOK
<1>3. AloneInv => \A q \in Procs : \A d \in knows'[q] :
        \E o \in 1 .. Len(objects) : Listed(o) /\ objects[o].handle = d[2] /\ objects[o].id = d[1]
  BY DEF AloneInv
<1>4. CASE Goto(p, to)
  <2> DEFINE c == [call[p] EXCEPT !.pc = to]
  <2>1. call' = [call EXCEPT ![p] = c]
    BY <1>4 DEF Goto
  <2>2. c \in Calls /\ c.pc = to
    BY <1>1 DEF Calls
  <2> HIDE DEF c
  <2> QED
    BY <1>2, <1>3, <2>1, <2>2, MessageStep
<1>5. CASE to = "idle" /\ Return(p)
  BY <1>1, <1>2, <1>3, <1>5, MessageStep DEF Return
<1> QED
  BY <1>4, <1>5

(* Connecting, sending and receiving.                                      *)
LEMMA MessageSteps ==
  ASSUME IpcInv, NEW p \in Procs,
         \/ \E i \in Ids : ConnectToServer(p, i)
         \/ \E h \in 1 .. MaxServers : SendCall(p, h) \/ ReceiveCall(p, h)
         \/ SendStep(p)
         \/ ReceiveWait(p) \/ ReceiveEnter(p) \/ ReceiveRead(p) \/ ReceiveLeave(p)
         \/ EnterMidway(p)
  PROVE  IpcInv'
<1>0. CallsInv /\ IpcTypeOK /\ call[p] \in Calls /\ call \in [Procs -> Calls]
  BY DEF IpcInv, CallsInv
<1>1. /\ words \in Seq({0, 1, 2}) /\ lowWord \in {0, 1, 2}
      /\ knows \in [Procs -> SUBSET (Ids \X (1 .. MaxServers))]
  BY <1>0 DEF IpcTypeOK
<1>2. AloneInv => \A q \in Procs : \A d \in knows[q] :
        \E o \in 1 .. Len(objects) : Listed(o) /\ objects[o].handle = d[2] /\ objects[o].id = d[1]
  BY DEF AloneInv
<1>3. ASSUME NEW i \in Ids, ConnectToServer(p, i) PROVE IpcInv'
  <2> DEFINE o == FindIpcObjectByServerId(i)
             d == <<i, objects[o].handle>>
  <2>1. o \in 1 .. Len(objects) /\ Listed(o) /\ objects[o].id = i
    BY <1>0, <1>3, FindById DEF ConnectToServer
  <2>2. /\ call' = [call EXCEPT ![p] = call[p]] /\ call[p].pc = "idle"
        /\ knows' = [knows EXCEPT ![p] = {d}]
        /\ UNCHANGED <<registryVars, words, lowWord>>
    BY <1>0, <1>3 DEF ConnectToServer, At, sectionVars
  <2> HIDE DEF o
  <2>3. d \in Ids \X (1 .. MaxServers)
    <3>1. objects[o] \in Objects
      BY <1>0, <2>1 DEF IpcTypeOK
    <3> QED
      BY <3>1 DEF Objects
  <2>4. knows' \in [Procs -> SUBSET (Ids \X (1 .. MaxServers))]
    BY <1>1, <2>2, <2>3
  <2>5. d[1] = objects[o].id /\ d[2] = objects[o].handle
    BY <2>1
  <2> HIDE DEF d
  <2>6. ASSUME AloneInv, NEW q \in Procs, NEW e \in knows'[q]
        PROVE  \E u \in 1 .. Len(objects) :
                 Listed(u) /\ objects[u].handle = e[2] /\ objects[u].id = e[1]
    <3>1. e = d \/ e \in knows[q]
      BY <1>1, <2>2
    <3> QED
      BY <1>2, <2>1, <2>5, <2>6, <3>1
  <2> QED
    BY <1>0, <1>1, <2>2, <2>4, <2>6, MessageStep DEF Registering
<1>4. ASSUME NEW h \in 1 .. MaxServers, SendCall(p, h) PROVE IpcInv'
  <2> DEFINE c == [call[p] EXCEPT !.pc = "sEnter", !.handle = h]
  <2>1. call' = [call EXCEPT ![p] = c] /\ UNCHANGED <<registryVars, words, lowWord, knows>>
    BY <1>4 DEF SendCall, sectionVars
  <2>2. c \in Calls /\ c.pc = "sEnter"
    <3>1. h \in 0 .. MaxServers
      BY IpcAssumption
    <3> QED
      BY <1>0, <3>1 DEF Calls, Pcs
  <2> HIDE DEF c
  <2> QED
    BY <1>1, <1>2, <2>1, <2>2, MessageStep DEF Registering
<1>5. ASSUME NEW h \in 1 .. MaxServers, ReceiveCall(p, h) PROVE IpcInv'
  <2> DEFINE found == FindIpcObjectByHandle(h)
             c == [call[p] EXCEPT !.pc = "rWait", !.handle = h, !.obj = found]
  <2>1. UNCHANGED <<registryVars, words, lowWord, knows>>
    BY <1>5 DEF ReceiveCall, sectionVars
  <2>2. CASE Return(p)
    BY <1>1, <2>1, <2>2, GotoStep DEF Pcs, Registering
  <2>3. CASE found # Null /\ call' = [call EXCEPT ![p] = c]
    <3>1. found \in 0 .. Len(objects)
      BY <1>0, <2>3, FindByHandle
    <3>2. h \in 0 .. MaxServers
      BY IpcAssumption
    <3> HIDE DEF found
    <3>3. c \in Calls /\ c.pc = "rWait"
      BY <1>0, <3>1, <3>2 DEF Calls, Pcs
    <3> HIDE DEF c
    <3> QED
      BY <1>1, <1>2, <2>1, <2>3, <3>3, MessageStep DEF Registering
  <2> QED
    BY <1>5, <2>2, <2>3 DEF ReceiveCall
<1>6. CASE SendEnter(p)
  <2>1. lowWord' \in {0, 1, 2}
    BY <1>1, <1>6, WordTypes, <1>0 DEF SendEnter
  <2> QED
    BY <1>1, <1>6, <2>1, GotoStep DEF SendEnter, Pcs, Registering
<1>7. CASE SendFind(p)
  <2> DEFINE found == FindIpcObjectByHandle(call[p].handle)
             refused == found = Null \/ objects[found].serverProcess = p
             c == [call[p] EXCEPT !.pc = IF refused THEN "sLeave" ELSE "sAdd", !.obj = found]
  <2>1. call' = [call EXCEPT ![p] = c] /\ UNCHANGED <<registryVars, words, lowWord, knows>>
    BY <1>7 DEF SendFind, sectionVars
  <2>2. IF found = Null THEN TRUE
        ELSE found \in 1 .. Len(objects) /\ Listed(found) /\ objects[found].handle = call[p].handle
    BY <1>0, FindByHandle
  <2> HIDE DEF found
  <2>3. found \in 0 .. Len(objects) /\ Len(objects) \in Nat
    BY <1>0, <2>2 DEF Null, IpcTypeOK
  <2>4. /\ c \in Calls /\ c.pc \in {"sLeave", "sAdd"} /\ c.obj = found
        /\ c.handle = call[p].handle /\ (c.pc = "sAdd" => ~refused)
    BY <1>0, <2>3 DEF Calls, Pcs
  <2> HIDE DEF c
  <2>5. c.pc = "sAdd" => /\ c.obj > 0 /\ objects[c.obj].serverProcess # p
                         /\ Listed(c.obj) /\ objects[c.obj].handle = c.handle
    BY <2>2, <2>3, <2>4 DEF Null
  <2>6. c.pc \notin Registering
    BY <2>4 DEF Registering
  <2> QED
    BY <1>1, <1>2, <2>1, <2>4, <2>5, <2>6, MessageStep
<1>8. CASE SendAdd(p)
  BY <1>1, <1>8, GotoStep DEF SendAdd, sectionVars, Pcs, Registering
<1>9. CASE SendLeave(p)
  <2>1. /\ words' \in Seq({0, 1, 2}) /\ Len(words') = Len(words) /\ lowWord' \in {0, 1, 2}
    BY <1>0, <1>1, <1>9, WordTypes DEF SendLeave
  <2> QED
    BY <1>9, <2>1, GotoStep DEF SendLeave, Pcs, Registering
<1>10. CASE ReceiveWait(p) \/ ReceiveRead(p)
  BY <1>1, <1>10, GotoStep DEF ReceiveWait, ReceiveRead, sectionVars, Pcs, Registering
<1>11. CASE ReceiveEnter(p)
  <2> DEFINE o == call[p].obj
  <2>1. words' = [words EXCEPT ![o] = EnterWord(words[o])]
    BY <1>11 DEF ReceiveEnter
  <2>2. o \in DOMAIN words => EnterWord(words[o]) \in {0, 1, 2}
    BY <1>1 DEF EnterWord
  <2>3. /\ words' \in Seq({0, 1, 2}) /\ Len(words') = Len(words)
    <3>1. CASE o \in DOMAIN words
      BY <1>0, <2>1, <2>2, <3>1, WordTypes
    <3>2. CASE o \notin DOMAIN words
      <4>1. words' = words
        BY <1>1, <2>1, <3>2
      <4> QED
        BY <1>1, <4>1
    <3> QED
      BY <3>1, <3>2
  <2> QED
    BY <1>1, <1>11, <2>3, GotoStep DEF ReceiveEnter, Pcs, Registering
<1>12. CASE ReceiveLeave(p)
  <2>1. /\ words' \in Seq({0, 1, 2}) /\ Len(words') = Len(words)
    BY <1>0, <1>12, WordTypes DEF ReceiveLeave
  <2> QED
    BY <1>1, <1>12, <2>1, GotoStep DEF ReceiveLeave, Pcs, Registering
<1>13. CASE EnterMidway(p)
  BY <1>1, <1>13, GotoStep DEF EnterMidway, Pcs, Registering
<1> QED
  BY <1>3, <1>4, <1>5, <1>6, <1>7, <1>8, <1>9, <1>10, <1>11, <1>12, <1>13 DEF SendStep

(* Every step of every process.                                            *)
LEMMA IpcStep == IpcInv /\ [IpcNext]_ipcVars => IpcInv'
<1> SUFFICES ASSUME IpcInv, [IpcNext]_ipcVars PROVE IpcInv'
  OBVIOUS
<1>1. ASSUME NEW p \in Procs, ServerCreate(p) PROVE IpcInv'
  <2>1. RegisterStep(p) /\ CallsInv /\ CallsInv'
    BY <1>1, CreateStep DEF ServerCreate, IpcInv
  <2> QED
    BY <1>1, <2>1, RegisterAlone, CreateAlone DEF IpcInv
<1>2. ASSUME NEW p \in Procs, ServerLink(p) PROVE IpcInv'
  <2>1. RegisterStep(p) /\ CallsInv /\ CallsInv'
    BY <1>2, LinkStep DEF ServerLink, IpcInv
  <2> QED
    BY <1>2, <2>1, RegisterAlone, LinkAlone DEF IpcInv
<1>3. ASSUME NEW p \in Procs, CountLoad(p) \/ CountStore(p) \/ ServerCreateFails(p)
      PROVE  IpcInv'
  <2>1. call[p].pc \in Registering
    BY <1>3 DEF CountLoad, CountStore, ServerCreateFails, At, Registering
  <2>2. call[p].id \in Ids
    BY <2>1 DEF IpcInv, CallsInv
  <2> QED
    BY <1>3, <2>2, RegistrationSteps
<1>4. CASE UNCHANGED ipcVars
  <2>1. UNCHANGED <<objects, words, lowWord, ipcObjects, handleCount, call, owns, knows, overlap>>
    BY <1>4 DEF ipcVars, registryVars, sectionVars
  <2>2. CallsInv'
    BY <2>1 DEF IpcInv, CallsInv, IpcTypeOK, Calls
  <2>3. AloneInv => AloneInv'
    BY <2>1 DEF AloneInv, Registers, Listed, LastElement, ElementAt
  <2> QED
    BY <2>1, <2>2, <2>3 DEF IpcInv
<1> QED
  BY <1>1, <1>2, <1>3, <1>4, RegistrationSteps, MessageSteps DEF IpcNext

(* The inductive invariant of the handler.                                 *)
THEOREM IpcInvariant == IpcSpec => []IpcInv
<1>1. IpcInit => IpcInv
  <2> SUFFICES ASSUME IpcInit PROVE IpcInv
    OBVIOUS
  <2>1. Idle \in Calls /\ Idle.pc = "idle" /\ Idle.obj = 0
    BY IpcAssumption DEF IpcInit, Idle, Calls, Pcs, Null
  <2>2. IpcTypeOK
    <3>1. objects = <<>> /\ words = <<>> /\ ipcObjects = <<>> /\ handleCount = 0
      BY DEF IpcInit
    <3>2. \A S : <<>> \in Seq(S)
      OBVIOUS
    <3>3. lowWord \in {0, 1, 2} /\ handleCount \in 0 .. MaxServers
      BY <3>1, IpcAssumption DEF IpcInit
    <3>4. /\ owns \in [Procs -> SUBSET (1 .. MaxServers)]
          /\ knows \in [Procs -> SUBSET (Ids \X (1 .. MaxServers))]
      BY DEF IpcInit
    <3>5. \A p \in Procs : call[p] = Idle
      BY DEF IpcInit
    <3> QED
      BY <2>1, <3>1, <3>2, <3>3, <3>4, <3>5 DEF IpcTypeOK
  <2>3. CallsInv
    BY <2>1, <2>2 DEF IpcInit, CallsInv, Registering
  <2>4. AloneInv
    BY <2>1 DEF IpcInit, AloneInv, Listed, Registering
  <2> QED
    BY <2>3, <2>4 DEF IpcInv
<1> QED
  BY <1>1, IpcStep, PTL DEF IpcSpec

(* Without overlapping registrations an id has one server, a handle one    *)
(* object, and a handle that AddNewServer returned leads to the process    *)
(* that got it.                                                            *)
THEOREM IpcRegistryConsistent == IpcSpec => []RegistryConsistent
<1>1. IpcInv => RegistryConsistent
  <2> SUFFICES ASSUME IpcInv, ~overlap PROVE RegistryConsistent
    BY DEF IpcInv, CallsInv, RegistryConsistent
  <2>1. IpcTypeOK /\ AloneInv
    BY DEF IpcInv, CallsInv
  <2>2. ASSUME NEW p \in Procs, NEW h \in owns[p]
        PROVE  LET found == FindIpcObjectByHandle(h)
               IN  found # Null /\ objects[found].serverProcess = p
    <3> DEFINE found == FindIpcObjectByHandle(h)
    <3>1. PICK o \in 1 .. Len(objects) :
            Listed(o) /\ objects[o].handle = h /\ objects[o].serverProcess = p
      BY <2>1 DEF AloneInv
    <3>2. found # Null /\ Listed(found) /\ objects[found].handle = h
      BY <2>1, <3>1, FindByHandle
    <3> HIDE DEF found
    <3>3. found = o
      BY <2>1, <3>1, <3>2 DEF AloneInv, Listed
    <3> QED
      BY <3>1, <3>2, <3>3 DEF found
  <2> QED
    BY <2>1, <2>2 DEF RegistryConsistent, AloneInv
<1> QED
  BY <1>1, IpcInvariant, PTL

(* No server sends to itself, and without overlapping registrations what a *)
(* client sends goes to the object of the server it connected to (Send).   *)
THEOREM IpcSendReachesServer == IpcSpec => []SendReachesServer
<1>1. IpcInv => SendReachesServer
  <2> SUFFICES ASSUME IpcInv, NEW p \in Procs, call[p].pc = "sAdd"
               PROVE  /\ objects[call[p].obj].serverProcess # p
                      /\ ~overlap => \A k \in knows[p] :
                           k[2] = call[p].handle => objects[call[p].obj].id = k[1]
    BY DEF SendReachesServer
  <2>1. objects[call[p].obj].serverProcess # p
    BY DEF IpcInv, CallsInv
  <2>2. ASSUME ~overlap, NEW k \in knows[p], k[2] = call[p].handle
        PROVE  objects[call[p].obj].id = k[1]
    <3>1. PICK o \in 1 .. Len(objects) : Listed(o) /\ objects[o].handle = k[2] /\ objects[o].id = k[1]
      BY <2>2 DEF IpcInv, AloneInv
    <3>2. Listed(call[p].obj) /\ objects[call[p].obj].handle = call[p].handle
      BY <2>2 DEF IpcInv, AloneInv
    <3>3. call[p].obj = o
      BY <2>2, <3>1, <3>2 DEF IpcInv, AloneInv, Listed
    <3> QED
      BY <3>1, <3>3
  <2> QED
    BY <2>1, <2>2
<1> QED
  BY <1>1, IpcInvariant, PTL

=============================================================================
