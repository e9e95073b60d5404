------------------------------ MODULE Debugger ------------------------------
(***************************************************************************)
(* The kernel debugger (kernel/debug/LtDbg.cpp, LtDbgCom.cpp): a breakpoint*)
(* or a single step stops the target in an interrupt handler, which serves *)
(* the requests of a client on the serial line until one lets the target   *)
(* run again.                                                              *)
(*                                                                         *)
(* The client, which is not part of the repository, sends a request and    *)
(* waits for the answer; it may also send an empty packet.  A pointer is   *)
(* null, live, freed or wild (what the stack held).  The kernel heap never *)
(* returns null (it panics instead): the branches for that are left out.   *)
(***************************************************************************)
EXTENDS Integers, FiniteSets

CONSTANTS
  Pages,            (* 0 .. n: pages that memory requests name             *)
  Present           (* those that are mapped                               *)

ASSUME DebuggerAssumption == Pages \subseteq Nat /\ Present \subseteq Pages

Commands == {"connect", "step", "continue", "quit", "registers", "disass", "stacktrace",
             "memory", "bp", "bl", "idt"}

VARIABLES
  phase,        (* of the handler: run, startup, connect, recv, exec,      *)
                (* copy, send, cleanup, stuck, garbled                     *)
  connected,    (* _isConnected                                            *)
  tf,           (* the trap flag in the eflags of the target               *)
  pd,           (* current page directory: own, or that of the target      *)
  req,          (* KeDebugRequest: [cmd, param, arg]                       *)
  resp,         (* KeDebugResponse: [cmd, data, size]                      *)
  running,      (* the command lets the target run                         *)
  line,         (* what the client has sent: [kind, cmd, arg]              *)
  client,       (* the client: gone, hello, ready, await, quit             *)
  asked,        (* history: command of the client's last request           *)
  got,          (* history: command of the last answer it received         *)
  odd,          (* history: in this stop, an empty packet came or a        *)
                (* response was not filled                                 *)
  astray,       (* history: the client did not begin with a connect        *)
                (* request, or began again                                 *)
  badFree,      (* history: in this stop, a pointer was freed that was not *)
                (* live                                                    *)
  by            (* history: what made the target run                       *)

dbgVars == <<phase, connected, tf, pd, req, resp, running, line, client, asked, got,
             odd, astray, badFree, by>>
stopVars == <<connected, tf, pd, by>>
histVars == <<asked, got, odd, astray, badFree>>

NoLine == [kind |-> "none", cmd |-> "none", arg |-> "none"]
WildRequest == [cmd |-> "wild", param |-> "wild", arg |-> "wild"]
WildResponse == [cmd |-> "wild", data |-> "wild", size |-> "wild"]

(* A request has no parameter, one of the wrong size, a count of zero, a   *)
(* count, or a range of memory.                                            *)
Ranges == {[from |-> a, to |-> b] : a, b \in Pages}
ArgsOf(c) == CASE c = "disass" -> {"none", "zero", "some"}
               [] c = "memory" -> {"none", "range"}
               [] OTHER -> {"none"}

DbgInit ==
  /\ phase = "run" /\ connected = FALSE /\ tf = FALSE /\ pd = "own"
  /\ req = WildRequest /\ resp = WildResponse /\ running = FALSE
  /\ line = NoLine /\ client = "gone"
  /\ asked = "none" /\ got = "none"
  /\ odd = FALSE /\ astray = FALSE /\ badFree = FALSE /\ by = "none"

-----------------------------------------------------------------------------
(* The client                                                              *)

(* It begins with the startup byte (or another one, on a bad line).        *)
ClientBegins ==
  /\ client \in {"gone", "quit"} /\ line = NoLine
  /\ client' = "hello"
  /\ line' \in {[NoLine EXCEPT !.kind = "startup"], [NoLine EXCEPT !.kind = "noise"]}
  /\ astray' = (astray \/ client = "quit")
  /\ UNCHANGED <<phase, stopVars, req, resp, running, asked, got, odd, badFree>>

ClientSends(c) ==
  /\ client \in {"greeted", "ready"} /\ line = NoLine
  /\ client' = IF c = "quit" THEN "quit" ELSE "await"
  /\ \E a \in ArgsOf(c) : line' = [kind |-> "request", cmd |-> c, arg |-> a]
  /\ asked' = c /\ got' = "none"
  /\ astray' = (astray \/ (client = "greeted" /\ c # "connect"))
  /\ UNCHANGED <<phase, stopVars, req, resp, running, odd, badFree>>

ClientSendsEmpty ==
  /\ client = "ready" /\ line = NoLine
  /\ client' = "await"
  /\ line' = [NoLine EXCEPT !.kind = "empty"]
  /\ asked' = "none" /\ got' = "none"
  /\ UNCHANGED <<phase, stopVars, req, resp, running, odd, astray, badFree>>

(* An answer with command c reaches the client, if there is one.           *)
Received(c) ==
  /\ client' = IF client \in {"await", "ready"} THEN "ready" ELSE client
  /\ got' = IF client \in {"await", "ready"} THEN c ELSE got

-----------------------------------------------------------------------------
(* The handlers                                                            *)

(* WaitForPacket begins with variables that it does not initialise.        *)
WaitForPacket ==
  /\ phase' = "recv"
  /\ req' = WildRequest /\ resp' = WildResponse /\ running' = FALSE
  /\ odd' = FALSE /\ badFree' = FALSE

(* BreakpointHit: the client is told, on whatever line there is.           *)
BreakpointHit == Received("hit")

(* BreakpointIsr, not connected: the startup byte is awaited.              *)
BreakpointFirst ==
  /\ phase = "run" /\ ~connected
  /\ phase' = "startup"
  /\ UNCHANGED <<stopVars, req, resp, running, line, client, histVars>>

(* BreakpointIsr, connected; DebugIsr after a step.                        *)
Stops ==
  /\ phase = "run" /\ connected
  /\ BreakpointHit /\ WaitForPacket
  /\ UNCHANGED <<stopVars, line, asked, astray>>

(* Mutant of StartupByte: a wrong byte is not answered.                    *)
StartupByteSilent ==
  /\ phase = "startup" /\ line.kind \in {"startup", "noise"}
  /\ line' = NoLine
  /\ connected' = (line.kind = "startup")
  /\ client' = IF line.kind = "startup" THEN "greeted" ELSE client
  /\ phase' = "connect"
  /\ UNCHANGED <<tf, pd, by, req, resp, running, histVars>>

(* WaitForConnectCommand: whatever the byte is, it is answered.  After the *)
(* right one the debugger is connected, whatever follows.                  *)
StartupByte ==
  /\ phase = "startup" /\ line.kind \in {"startup", "noise"}
  /\ line' = NoLine
  /\ connected' = (line.kind = "startup")
  /\ client' = "greeted"
  /\ phase' = "connect"
  /\ UNCHANGED <<tf, pd, by, req, resp, running, histVars>>

(* The connect request is answered; anything else is not, and the          *)
(* debugger waits for the next packet all the same.                        *)
ConnectRequest ==
  /\ phase = "connect" /\ line.kind = "request"
  /\ line' = NoLine
  /\ IF line.cmd = "connect"
     THEN Received("connect") /\ connected' = TRUE
     ELSE UNCHANGED <<client, got, connected>>
  /\ WaitForPacket
  /\ UNCHANGED <<tf, pd, by, asked, astray>>

(* RecvRequest                                                             *)
RecvRequest ==
  /\ phase = "recv" /\ line.kind = "request"
  /\ line' = NoLine
  /\ req' = [cmd |-> line.cmd, arg |-> line.arg,
             param |-> IF line.arg = "none" THEN "null" ELSE "live"]
  /\ phase' = "exec"
  /\ UNCHANGED <<stopVars, resp, running, client, histVars>>

(* A startup byte is taken for the first byte of a size, and the others    *)
(* are awaited.                                                            *)
RecvGarbled ==
  /\ phase = "recv" /\ line.kind \in {"startup", "noise"}
  /\ line' = NoLine
  /\ phase' = "garbled"
  /\ UNCHANGED <<stopVars, req, resp, running, client, histVars>>

(* An empty packet is a success that leaves the request as it was, with a  *)
(* parameter that was freed.                                               *)
RecvEmpty ==
  /\ phase = "recv" /\ line.kind = "empty"
  /\ line' = NoLine
  /\ \E c \in IF req.cmd = "wild" THEN Commands ELSE {req.cmd} :
       req' = [req EXCEPT !.cmd = c, !.arg = IF c = "disass" /\ req.param = "freed" THEN "wild" ELSE @]
  /\ odd' = TRUE
  /\ phase' = "exec"
  /\ UNCHANGED <<stopVars, resp, running, client, asked, got, astray, badFree>>

-----------------------------------------------------------------------------
(* Commands                                                                *)

Executes(c) == phase = "exec" /\ req.cmd = c

Fills(c) == [cmd |-> c, data |-> "null", size |-> "zero"]
FillsData(c) == [cmd |-> c, data |-> "live", size |-> "some"]

(* The command is done: response r, and whether the target is to run.      *)
Done(r, run) == phase' = "send" /\ resp' = r /\ running' = run

StepCommand ==
  /\ Executes("step") /\ tf' = TRUE /\ Done(Fills("step"), TRUE)
  /\ UNCHANGED <<connected, pd, by, req, line, client, histVars>>

ContinueCommand ==
  /\ Executes("continue") /\ tf' = FALSE /\ Done(Fills("continue"), TRUE)
  /\ UNCHANGED <<connected, pd, by, req, line, client, histVars>>

(* The debugger stays connected.                                           *)
QuitCommand ==
  /\ Executes("quit") /\ tf' = FALSE /\ Done(Fills("quit"), TRUE)
  /\ UNCHANGED <<connected, pd, by, req, line, client, histVars>>

(* Mutant of RegistersCommand: the data of the response is not set.        *)
RegistersCommandUnset ==
  /\ Executes("registers") /\ Done([resp EXCEPT !.cmd = "registers", !.size = "zero"], FALSE)
  /\ UNCHANGED <<stopVars, req, line, client, histVars>>

RegistersCommand ==
  /\ Executes("registers") /\ Done(Fills("registers"), FALSE)
  /\ UNCHANGED <<stopVars, req, line, client, histVars>>

(* DisassCommand without a parameter, or for no instruction, sets neither  *)
(* the data of the response nor its size.                                  *)
DisassCommandNothing ==
  /\ Executes("disass") /\ req.arg # "some"
  /\ Done([resp EXCEPT !.cmd = "disass"], FALSE)
  /\ odd' = TRUE
  /\ UNCHANGED <<stopVars, req, line, client, asked, got, astray, badFree>>

DisassCommand ==
  /\ Executes("disass") /\ req.arg \in {"some", "wild"}
  /\ Done(FillsData("disass"), FALSE)
  /\ UNCHANGED <<stopVars, req, line, client, histVars>>

(* Mutant of StackTraceCommand: the command of the response is not set.    *)
StackTraceCommandUnset ==
  /\ Executes("stacktrace") /\ Done([FillsData("stacktrace") EXCEPT !.cmd = resp.cmd], FALSE)
  /\ UNCHANGED <<stopVars, req, line, client, histVars>>

StackTraceCommand ==
  /\ Executes("stacktrace") /\ Done(FillsData("stacktrace"), FALSE)
  /\ UNCHANGED <<stopVars, req, line, client, histVars>>

IdtCommand ==
  /\ Executes("idt") /\ Done(FillsData("idt"), FALSE)
  /\ UNCHANGED <<stopVars, req, line, client, histVars>>

(* CMD_BP fills nothing.                                                   *)
BpCommand ==
  /\ Executes("bp") /\ Done(resp, FALSE)
  /\ odd' = TRUE
  /\ UNCHANGED <<stopVars, req, line, client, asked, got, astray, badFree>>

UndefinedCommand ==
  /\ phase = "exec" /\ req.cmd \in {"connect", "bl"}
  /\ Done(Fills(req.cmd), FALSE)
  /\ UNCHANGED <<stopVars, req, line, client, histVars>>

(* MemoryCommand with a parameter of the wrong size.                       *)
MemoryCommandWrong ==
  /\ Executes("memory") /\ req.arg # "range"
  /\ Done(Fills("memory"), FALSE)
  /\ UNCHANGED <<stopVars, req, line, client, histVars>>

(* Mutant of LastPage: the page behind the range is checked.               *)
LastPageBehind(r) == r.to + 1

(* The page of the last byte, addr + size - 1.                             *)
LastPage(r) == r.to

(* IsVirtualAddressAvailable, for the first and for the last byte.         *)
Available(r) == r.from \in Present /\ LastPage(r) \in Present

(* The page directory of the target is current while its memory is looked  *)
(* at.                                                                     *)
MemoryCommand ==
  /\ Executes("memory") /\ req.arg \in {"range", "wild"}
  /\ pd' = "target"
  /\ phase' = "copy"
  /\ UNCHANGED <<connected, tf, by, req, resp, running, line, client, histVars>>

MemoryUnavailable(r) ==
  /\ phase = "copy" /\ ~Available(r)
  /\ pd' = "own"
  /\ Done(Fills("memory"), FALSE)
  /\ UNCHANGED <<connected, tf, by, req, line, client, histVars>>

(* The memory is copied; a page that is not mapped may be one that the     *)
(* page fault handler fills.                                               *)
MemoryCopied(r) ==
  /\ phase = "copy" /\ Available(r)
  /\ pd' = "own"
  /\ Done(FillsData("memory"), FALSE)
  /\ UNCHANGED <<connected, tf, by, req, line, client, histVars>>

(* Or one that it cannot fill: with the debugger connected it returns, and *)
(* the copy faults again, for ever.  got keeps which range that was.       *)
MemoryFaults(r) ==
  /\ phase = "copy" /\ Available(r)
  /\ \E p \in r.from .. r.to :
       /\ p \notin Present
       /\ got' = IF p \in {r.from, r.to} THEN "edge" ELSE "hole"
  /\ phase' = "stuck"
  /\ UNCHANGED <<stopVars, req, resp, running, line, client, asked, odd, astray, badFree>>

-----------------------------------------------------------------------------
(* The end of the turn                                                     *)

(* SendResponse, which refuses data of some size at null; then the request *)
(* and the response are cleaned up.                                        *)
SendResponse ==
  /\ phase = "send"
  /\ \/ running /\ UNCHANGED <<client, got>>
     \/ ~running /\ Received(resp.cmd)
     \/ ~running /\ resp.data = "wild" /\ UNCHANGED <<client, got>>
  /\ phase' = "cleanup"
  /\ UNCHANGED <<stopVars, req, resp, running, line, asked, odd, astray, badFree>>

AfterFree(p) == IF p = "live" THEN "freed" ELSE p

(* CleanupKeDebugRequest, CleanupKeDebugResponse: the pointers are left as *)
(* they are.                                                               *)
Cleanup ==
  /\ phase = "cleanup"
  /\ badFree' = (badFree \/ req.param \in {"freed", "wild"} \/ resp.data \in {"freed", "wild"})
  /\ req' = [req EXCEPT !.param = AfterFree(@)]
  /\ resp' = [resp EXCEPT !.data = AfterFree(@)]
  /\ phase' = IF running THEN "run" ELSE "recv"
  /\ by' = IF running THEN req.cmd ELSE by
  /\ UNCHANGED <<connected, tf, pd, running, line, client, asked, got, odd, astray>>

-----------------------------------------------------------------------------
Serve ==
  \/ StartupByte \/ ConnectRequest \/ RecvRequest \/ RecvEmpty \/ RecvGarbled
  \/ StepCommand \/ ContinueCommand \/ QuitCommand \/ RegistersCommand
  \/ DisassCommandNothing \/ DisassCommand \/ StackTraceCommand \/ IdtCommand \/ BpCommand
  \/ UndefinedCommand \/ MemoryCommandWrong \/ MemoryCommand
  \/ \E r \in Ranges : MemoryUnavailable(r) \/ MemoryCopied(r) \/ MemoryFaults(r)
  \/ SendResponse \/ Cleanup

DbgNext ==
  \/ ClientBegins \/ ClientSendsEmpty
  \/ \E c \in Commands : ClientSends(c)
  \/ BreakpointFirst \/ Stops
  \/ Serve

DbgSpec == DbgInit /\ [][DbgNext]_dbgVars

-----------------------------------------------------------------------------
(* Properties                                                              *)

(* Every variable has its type, and in a turn the pointers of the request  *)
(* and the response are live only until they are cleaned up.               *)
DbgTypeOK ==
  /\ phase \in {"run", "startup", "connect", "recv", "exec", "copy", "send", "cleanup", "stuck",
               "garbled"}
  /\ connected \in BOOLEAN /\ tf \in BOOLEAN /\ pd \in {"own", "target"}
  /\ client \in {"gone", "hello", "greeted", "ready", "await", "quit"}
  /\ {req.param, resp.data} \subseteq {"null", "live", "freed", "wild"}
  /\ phase \in {"recv", "run"} => "live" \notin {req.param, resp.data}

(* A pointer that is not live is freed only in a stop in which a packet    *)
(* was empty or a response was not filled (CMD_BP, disass without          *)
(* instructions): Cleanup frees what the turn before had freed.            *)
FreedOnce == badFree => odd

(* Unless a packet was empty or a response was not filled, what the client *)
(* receives while it waits is the answer to its last request, or the       *)
(* breakpoint it let the target run to.                                    *)
AnswersMatch ==
  client = "ready" /\ ~odd /\ ~astray /\ asked # "none" =>
    got = IF asked \in {"step", "continue"} THEN "hit" ELSE asked

(* The debugger and its client never both wait for the other, unless the   *)
(* client did not begin with a connect request, or began again after quit  *)
(* (QuitCommand leaves the debugger connected, so that the startup byte is *)
(* taken for the size of a packet), or the response was never filled.      *)
NoMutualWait ==
  /\ DbgTypeOK
  /\ (/\ phase \in {"startup", "connect", "recv", "garbled"} /\ line = NoLine
      /\ client \in {"hello", "await"}) => odd \/ astray

(* A target that runs because of continue or quit runs freely: a single    *)
(* step is asked for each time it happens.                                 *)
TrapMatchesStep == (phase = "run") => (tf = (by = "step"))

(* The page directory of the target is current only while its memory is    *)
(* copied; there a fault that is not resolved is in the middle of the      *)
(* range, the ends of which were checked.                                  *)
MemoryLookedAtSafely ==
  /\ pd = "target" => phase \in {"copy", "stuck"}
  /\ phase = "stuck" => got = "hole"

(* The target resumes in the state the client asked for: the trap flag and *)
(* the page directory are as the two invariants above say.                 *)
ResumesAsAsked == TrapMatchesStep /\ MemoryLookedAtSafely

=============================================================================
