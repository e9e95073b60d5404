--------------------------- MODULE DebuggerProofs ---------------------------
(***************************************************************************)
(* Proofs about Debugger, for any set of pages and whatever the client     *)
(* sends.                                                                  *)
(***************************************************************************)
EXTENDS Debugger, TLAPS

(* A command that lets the target run has set the trap flag as it is to be *)
(* until the next stop; nothing touches it before the target runs.         *)
TrapInv ==
  /\ tf \in BOOLEAN
  /\ phase = "run" => (tf <=> by = "step")
  /\ (phase \in {"send", "cleanup"} /\ running) => (tf <=> req.cmd = "step")

(* Unless something odd came in this stop, the pointers of a turn are null *)
(* or live from the moment they are set until they are freed.              *)
FreeInv ==
  /\ odd \in BOOLEAN /\ badFree \in BOOLEAN
  /\ badFree => odd
  /\ (~odd /\ phase \in {"exec", "copy", "send", "cleanup"}) => req.param \in {"null", "live"}
  /\ (~odd /\ phase \in {"send", "cleanup"}) => resp.data \in {"null", "live"}

(* The handler is at work: it does not look at the line, and the target or *)
(* a command goes on.                                                      *)
Busy == phase \in {"run", "startup", "exec", "copy", "send", "stuck"} \/ (phase = "cleanup" /\ running)

(* A client waits for its answer while the handler is at work, so that it  *)
(* sends nothing then; what it has sent shows what it waits for.           *)
ClientInv ==
  /\ Busy => client \notin {"greeted", "ready"}
  /\ (Busy /\ line.kind \in {"request", "empty"}) => client # "await"
  /\ line.kind = "request" => client \in {"await", "quit"}
  /\ line.kind = "empty" => client = "await"
  /\ line.kind \in {"startup", "noise"} => client = "hello"

(* The page directory of the target is current in a copy only.             *)
MemoryInv ==
  /\ ClientInv
  /\ pd = "target" => phase \in {"copy", "stuck"}
  /\ phase = "stuck" => got = "hole"

(* The types of the request and of the response, which an empty packet and *)
(* a command without a response change in parts only.                      *)
Pointers == {"null", "live", "freed", "wild"}
Requests == [cmd : Commands \cup {"wild"}, param : Pointers,
             arg : {"none", "zero", "some", "range", "wild"}]
Responses == [cmd : Commands \cup {"wild"}, data : Pointers, size : {"zero", "some", "wild"}]
Lines == [kind : {"none", "startup", "noise", "request", "empty"}, cmd : Commands \cup {"none"},
          arg : {"none", "zero", "some", "range"}]
ShapeInv ==
  /\ DbgTypeOK
  /\ req \in Requests /\ resp \in Responses /\ line \in Lines
  /\ odd \in BOOLEAN /\ astray \in BOOLEAN /\ running \in BOOLEAN
  /\ phase \in {"recv", "run", "startup", "connect", "garbled"} =>
       "live" \notin {req.param, resp.data}
  /\ line.kind = "request" => line.cmd \in Commands

(* The commands after which the target runs.                               *)
Resuming == {"step", "continue", "quit"}

(* What is being executed is what the client asked for last, or the client *)
(* sent an empty packet; the response is that of the command unless it was *)
(* not filled; a client that waits while the target runs waits for the     *)
(* breakpoint.                                                             *)
AnswerInv ==
  /\ ClientInv /\ ShapeInv
  /\ line.kind = "request" => line.cmd = asked
  /\ line.kind = "empty" => asked = "none"
  /\ client \in {"await", "ready"} => asked # "quit"
  /\ (phase \in {"exec", "copy", "send"} \/ (phase = "cleanup" /\ running)) =>
       asked \in {"none", req.cmd}
  /\ phase = "copy" => req.cmd = "memory"
  /\ phase = "send" => (running <=> req.cmd \in Resuming)
  /\ (phase = "cleanup" /\ running) => req.cmd \in Resuming
  /\ (phase = "send" /\ ~odd) => resp.cmd = req.cmd
  /\ (phase = "run" /\ client = "await") => asked \in {"none", "step", "continue"}
  /\ AnswersMatch

(* As long as the client is not astray: it has been greeted once, when the *)
(* debugger was not connected yet, and from then on the debugger is, and   *)
(* waits for a packet only while the client owes it one.                   *)
WaitInv ==
  ~astray =>
    /\ phase = "startup" => client \in {"gone", "hello"} /\ ~connected
    /\ phase = "connect" => \/ client = "greeted" /\ line.kind = "none"
                            \/ client = "await" /\ line.kind = "request" /\ line.cmd = "connect"
    /\ (phase = "run" /\ ~connected) => client \in {"gone", "hello"}
    /\ (phase = "run" /\ connected) => client \in {"await", "quit"}
    /\ phase \in {"recv", "exec", "copy", "send", "cleanup", "stuck"} =>
         client \in {"ready", "await", "quit"} /\ connected
    /\ phase # "garbled"
    /\ client = "hello" => line.kind \in {"startup", "noise"}
    /\ (~odd /\ client = "await" /\ (phase = "recv" \/ (phase = "cleanup" /\ ~running))) =>
         line.kind \in {"request", "empty"}
ConversationInv == AnswerInv /\ FreeInv /\ WaitInv

-----------------------------------------------------------------------------
(* The initial state, in which the target runs without a trap.             *)
LEMMA DbgInitInv == DbgInit => TrapInv /\ FreeInv
BY DEF DbgInit, TrapInv, FreeInv

(* Every action of the handlers, of the commands and of the client keeps   *)
(* the trap flag as TrapInv has it.                                        *)
LEMMA TrapStep == TrapInv /\ [DbgNext]_dbgVars => TrapInv'
<1> SUFFICES ASSUME TrapInv, [DbgNext]_dbgVars PROVE TrapInv'
  OBVIOUS
<1> USE DEF TrapInv
<1>1. CASE ClientBegins
  BY <1>1 DEF ClientBegins, stopVars
<1>2. CASE ClientSendsEmpty
  BY <1>2 DEF ClientSendsEmpty, stopVars
<1>3. ASSUME NEW c \in Commands, ClientSends(c) PROVE TrapInv'
  BY <1>3 DEF ClientSends, stopVars
<1>4. CASE BreakpointFirst
  BY <1>4 DEF BreakpointFirst, stopVars
<1>5. CASE Stops
  BY <1>5 DEF Stops, WaitForPacket, stopVars
<1>6. CASE StartupByte \/ ConnectRequest
  BY <1>6 DEF StartupByte, ConnectRequest, WaitForPacket
<1>7. CASE RecvRequest \/ RecvEmpty \/ RecvGarbled
  BY <1>7 DEF RecvRequest, RecvEmpty, RecvGarbled, stopVars
<1>8. CASE StepCommand \/ ContinueCommand \/ QuitCommand
  BY <1>8 DEF StepCommand, ContinueCommand, QuitCommand, Executes, Done
<1>9. CASE \/ RegistersCommand \/ DisassCommandNothing \/ DisassCommand \/ StackTraceCommand
           \/ IdtCommand \/ BpCommand \/ UndefinedCommand \/ MemoryCommandWrong
  BY <1>9 DEF RegistersCommand, DisassCommandNothing, DisassCommand, StackTraceCommand,
     IdtCommand, BpCommand, UndefinedCommand, MemoryCommandWrong, Done, stopVars
<1>10. CASE MemoryCommand
  BY <1>10 DEF MemoryCommand
<1>11. ASSUME NEW r \in Ranges, MemoryUnavailable(r) \/ MemoryCopied(r) \/ MemoryFaults(r)
       PROVE TrapInv'
  BY <1>11 DEF MemoryUnavailable, MemoryCopied, MemoryFaults, Done, stopVars
<1>12. CASE SendResponse
  BY <1>12 DEF SendResponse, stopVars
<1>13. CASE Cleanup
  BY <1>13 DEF Cleanup
<1>14. CASE UNCHANGED dbgVars
  BY <1>14 DEF dbgVars
<1> QED
  BY <1>1, <1>2, <1>3, <1>4, <1>5, <1>6, <1>7, <1>8, <1>9, <1>10, <1>11, <1>12, <1>13, <1>14
  DEF DbgNext, Serve

(* A request that was received has a parameter of its own, and a command   *)
(* that fills its response gives it data of its own or none.               *)
LEMMA FreeStep == FreeInv /\ [DbgNext]_dbgVars => FreeInv'
<1> SUFFICES ASSUME FreeInv, [DbgNext]_dbgVars PROVE FreeInv'
  OBVIOUS
<1> USE DEF FreeInv
<1>1. CASE ClientBegins \/ ClientSendsEmpty
  BY <1>1 DEF ClientBegins, ClientSendsEmpty
<1>2. ASSUME NEW c \in Commands, ClientSends(c) PROVE FreeInv'
  BY <1>2 DEF ClientSends
<1>3. CASE BreakpointFirst
  BY <1>3 DEF BreakpointFirst, histVars
<1>4. CASE Stops
  BY <1>4 DEF Stops, WaitForPacket
<1>5. CASE StartupByte \/ RecvGarbled
  BY <1>5 DEF StartupByte, RecvGarbled, histVars
<1>6. CASE ConnectRequest
  BY <1>6 DEF ConnectRequest, WaitForPacket
<1>7. CASE RecvRequest
  BY <1>7 DEF RecvRequest, histVars
<1>8. CASE RecvEmpty
  BY <1>8 DEF RecvEmpty
<1>9. CASE \/ StepCommand \/ ContinueCommand \/ QuitCommand \/ RegistersCommand
           \/ UndefinedCommand \/ MemoryCommandWrong
  BY <1>9 DEF StepCommand, ContinueCommand, QuitCommand, RegistersCommand, UndefinedCommand,
     MemoryCommandWrong, Executes, Done, Fills, histVars
<1>10. CASE DisassCommand \/ StackTraceCommand \/ IdtCommand
  BY <1>10 DEF DisassCommand, StackTraceCommand, IdtCommand, Executes, Done, FillsData, histVars
<1>11. CASE DisassCommandNothing \/ BpCommand
  BY <1>11 DEF DisassCommandNothing, BpCommand, Executes, Done
<1>12. CASE MemoryCommand
  BY <1>12 DEF MemoryCommand, Executes, histVars
<1>13. ASSUME NEW r \in Ranges, MemoryUnavailable(r) \/ MemoryCopied(r) PROVE FreeInv'
  BY <1>13 DEF MemoryUnavailable, MemoryCopied, Done, Fills, FillsData, histVars
<1>14. ASSUME NEW r \in Ranges, MemoryFaults(r) PROVE FreeInv'
  BY <1>14 DEF MemoryFaults
<1>15. CASE SendResponse
  BY <1>15 DEF SendResponse
<1>16. CASE Cleanup
  BY <1>16 DEF Cleanup
<1>17. CASE UNCHANGED dbgVars
  BY <1>17 DEF dbgVars
<1> QED
  BY <1>1, <1>2, <1>3, <1>4, <1>5, <1>6, <1>7, <1>8, <1>9, <1>10, <1>11, <1>12, <1>13, <1>14,
     <1>15, <1>16, <1>17
  DEF DbgNext, Serve

(* Every action of the client, of the handlers and of the commands.  In a  *)
(* copy that does not end nobody gets an answer, and a page that is missing*)
(* is none of the two that were checked.                                   *)
LEMMA MemoryStep == MemoryInv /\ [DbgNext]_dbgVars => MemoryInv'
<1> SUFFICES ASSUME MemoryInv, [DbgNext]_dbgVars PROVE MemoryInv'
  OBVIOUS
<1> USE DEF MemoryInv, ClientInv, Busy
<1>1. CASE ClientBegins
  BY <1>1 DEF ClientBegins, NoLine, stopVars
<1>2. CASE ClientSendsEmpty
  BY <1>2 DEF ClientSendsEmpty, NoLine, stopVars
<1>3. ASSUME NEW c \in Commands, ClientSends(c) PROVE MemoryInv'
  BY <1>3 DEF ClientSends, NoLine, stopVars
<1>4. CASE BreakpointFirst
  BY <1>4 DEF BreakpointFirst, stopVars, histVars
<1>5. CASE Stops
  BY <1>5 DEF Stops, BreakpointHit, Received, WaitForPacket, stopVars
<1>6. CASE StartupByte
  BY <1>6 DEF StartupByte, NoLine, histVars
<1>7. CASE ConnectRequest
  BY <1>7 DEF ConnectRequest, Received, WaitForPacket, NoLine
<1>8. CASE RecvRequest \/ RecvEmpty \/ RecvGarbled
  <2>1. /\ phase = "recv" /\ phase' \in {"exec", "garbled"} /\ line' = NoLine
        /\ phase' = "exec" => line.kind \in {"request", "empty"}
        /\ UNCHANGED <<pd, client>>
    BY <1>8 DEF RecvRequest, RecvEmpty, RecvGarbled, stopVars
  <2> QED
    BY <2>1 DEF NoLine
<1>9. CASE StepCommand \/ ContinueCommand \/ QuitCommand
  BY <1>9 DEF StepCommand, ContinueCommand, QuitCommand, Executes, Done, histVars
<1>10. CASE \/ RegistersCommand \/ DisassCommandNothing \/ DisassCommand \/ StackTraceCommand
            \/ IdtCommand \/ BpCommand \/ UndefinedCommand \/ MemoryCommandWrong
  BY <1>10 DEF RegistersCommand, DisassCommandNothing, DisassCommand, StackTraceCommand,
     IdtCommand, BpCommand, UndefinedCommand, MemoryCommandWrong, Executes, Done, stopVars, histVars
<1>11. CASE MemoryCommand
  BY <1>11 DEF MemoryCommand, Executes, histVars
<1>12. ASSUME NEW r \in Ranges, MemoryUnavailable(r) \/ MemoryCopied(r) PROVE MemoryInv'
  BY <1>12 DEF MemoryUnavailable, MemoryCopied, Done, histVars
<1>13. ASSUME NEW r \in Ranges, MemoryFaults(r) PROVE MemoryInv'
  <2>1. got' = "hole"
    BY <1>13 DEF MemoryFaults, Available, LastPage
  <2> QED
    BY <1>13, <2>1 DEF MemoryFaults, stopVars
<1>14. CASE SendResponse
  BY <1>14 DEF SendResponse, Received, stopVars
<1>15. CASE Cleanup
  BY <1>15 DEF Cleanup
<1>16. CASE UNCHANGED dbgVars
  BY <1>16 DEF dbgVars
<1> QED
  BY <1>1, <1>2, <1>3, <1>4, <1>5, <1>6, <1>7, <1>8, <1>9, <1>10, <1>11, <1>12, <1>13, <1>14,
     <1>15, <1>16
  DEF DbgNext, Serve

(* Every step keeps the types, and frees what is live before it waits.     *)
LEMMA ShapeStep == ShapeInv /\ [DbgNext]_dbgVars => ShapeInv'
<1> SUFFICES ASSUME ShapeInv, [DbgNext]_dbgVars PROVE ShapeInv'
  OBVIOUS
<1> USE DEF ShapeInv, DbgTypeOK, Requests, Responses, Lines, Pointers
<1>1. CASE ClientBegins
  BY <1>1 DEF ClientBegins, NoLine, stopVars, histVars
<1>2. CASE ClientSendsEmpty
  BY <1>2 DEF ClientSendsEmpty, NoLine, stopVars, histVars
<1>3. ASSUME NEW c \in Commands, ClientSends(c) PROVE ShapeInv'
  BY <1>3 DEF ClientSends, NoLine, ArgsOf, stopVars, histVars
<1>4. CASE BreakpointFirst
  BY <1>4 DEF BreakpointFirst, stopVars, histVars
<1>5. CASE Stops
  <2>1. /\ phase' = "recv" /\ req' = WildRequest /\ resp' = WildResponse
        /\ running' = FALSE /\ odd' = FALSE /\ UNCHANGED <<connected, tf, pd, line, astray>>
        /\ client' \in {client, "ready"}
    BY <1>5 DEF Stops, BreakpointHit, Received, WaitForPacket, stopVars
  <2>2. /\ req' \in Requests /\ resp' \in Responses
        /\ req'.param = "wild" /\ resp'.data = "wild"
    BY <2>1 DEF WildRequest, WildResponse
  <2> HIDE DEF Requests, Responses, Lines
  <2> QED
    BY <2>1, <2>2
<1>6. CASE StartupByte
  BY <1>6 DEF StartupByte, NoLine, stopVars, histVars
<1>7. CASE ConnectRequest
  BY <1>7 DEF ConnectRequest, Received, WaitForPacket, WildRequest, WildResponse, NoLine,
     stopVars, histVars
<1>8. CASE RecvRequest
  BY <1>8 DEF RecvRequest, NoLine, stopVars, histVars
<1>9. CASE RecvEmpty
  <2> HIDE DEF Requests, Responses, Lines, ShapeInv, DbgTypeOK
  <2>1. req.cmd # "wild" => req.cmd \in Commands
    BY DEF ShapeInv, Requests
  <2>2. PICK c \in Commands :
          req' = [req EXCEPT !.cmd = c,
                             !.arg = IF c = "disass" /\ req.param = "freed" THEN "wild" ELSE req.arg]
    BY <1>9, <2>1 DEF RecvEmpty
  <2>3. req' \in Requests /\ req'.param = req.param
    BY <2>2 DEF ShapeInv, Requests
  <2>4. /\ phase' = "exec" /\ line' = NoLine /\ odd' = TRUE
        /\ UNCHANGED <<connected, tf, pd, resp, running, client, astray>>
    BY <1>9 DEF RecvEmpty, stopVars
  <2>5. line' \in Lines /\ line'.kind = "none"
    BY <2>4 DEF NoLine, Lines
  <2> QED
    BY <2>3, <2>4, <2>5 DEF ShapeInv, DbgTypeOK
<1>10. CASE RecvGarbled
  BY <1>10 DEF RecvGarbled, NoLine, stopVars, histVars
<1>11. CASE StepCommand \/ ContinueCommand \/ QuitCommand
  <2> HIDE DEF Requests, Responses, Lines, ShapeInv, DbgTypeOK
  <2>1. /\ phase' = "send" /\ tf' \in {TRUE, FALSE, tf} /\ pd' \in {"own", pd}
        /\ odd' \in {odd, TRUE}
        /\ UNCHANGED <<connected, req, line, client, astray>>
    BY <1>11 DEF StepCommand, ContinueCommand, QuitCommand, Done, stopVars, histVars
  <2>2. running' \in BOOLEAN
    BY <1>11 DEF StepCommand, ContinueCommand, QuitCommand, Done
  <2>3. resp' \in Responses
    BY <1>11 DEF StepCommand, ContinueCommand, QuitCommand, Done, Executes, Fills, Commands, Responses, ShapeInv
  <2>4. /\ {req'.param, resp'.data} \subseteq Pointers
        /\ req' \in Requests /\ line' \in Lines
        /\ line'.kind = "request" => line'.cmd \in Commands
    BY <2>1, <2>3 DEF Requests, Responses, ShapeInv
  <2> QED
    BY <2>1, <2>2, <2>3, <2>4 DEF ShapeInv, DbgTypeOK
<1>12. CASE RegistersCommand \/ UndefinedCommand \/ MemoryCommandWrong
  <2> HIDE DEF Requests, Responses, Lines, ShapeInv, DbgTypeOK
  <2>1. /\ phase' = "send" /\ tf' \in {TRUE, FALSE, tf} /\ pd' \in {"own", pd}
        /\ odd' \in {odd, TRUE}
        /\ UNCHANGED <<connected, req, line, client, astray>>
    BY <1>12 DEF RegistersCommand, UndefinedCommand, MemoryCommandWrong, Done, stopVars, histVars
  <2>2. running' \in BOOLEAN
    BY <1>12 DEF RegistersCommand, UndefinedCommand, MemoryCommandWrong, Done
  <2>3. resp' \in Responses
    BY <1>12 DEF RegistersCommand, UndefinedCommand, MemoryCommandWrong, Done, Executes, Fills, Commands, Responses, ShapeInv
  <2>4. /\ {req'.param, resp'.data} \subseteq Pointers
        /\ req' \in Requests /\ line' \in Lines
        /\ line'.kind = "request" => line'.cmd \in Commands
    BY <2>1, <2>3 DEF Requests, Responses, ShapeInv
  <2> QED
    BY <2>1, <2>2, <2>3, <2>4 DEF ShapeInv, DbgTypeOK
<1>13. CASE DisassCommand \/ StackTraceCommand \/ IdtCommand
  <2> HIDE DEF Requests, Responses, Lines, ShapeInv, DbgTypeOK
  <2>1. /\ phase' = "send" /\ tf' \in {TRUE, FALSE, tf} /\ pd' \in {"own", pd}
        /\ odd' \in {odd, TRUE}
        /\ UNCHANGED <<connected, req, line, client, astray>>
    BY <1>13 DEF DisassCommand, StackTraceCommand, IdtCommand, Done, stopVars, histVars
  <2>2. running' \in BOOLEAN
    BY <1>13 DEF DisassCommand, StackTraceCommand, IdtCommand, Done
  <2>3. resp' \in Responses
    BY <1>13 DEF DisassCommand, StackTraceCommand, IdtCommand, Done, Executes, FillsData, Commands, Responses, ShapeInv
  <2>4. /\ {req'.param, resp'.data} \subseteq Pointers
        /\ req' \in Requests /\ line' \in Lines
        /\ line'.kind = "request" => line'.cmd \in Commands
    BY <2>1, <2>3 DEF Requests, Responses, ShapeInv
  <2> QED
    BY <2>1, <2>2, <2>3, <2>4 DEF ShapeInv, DbgTypeOK
<1>14. CASE DisassCommandNothing \/ BpCommand
  <2> HIDE DEF Requests, Responses, Lines, ShapeInv, DbgTypeOK
  <2>1. /\ phase' = "send" /\ tf' \in {TRUE, FALSE, tf} /\ pd' \in {"own", pd}
        /\ odd' \in {odd, TRUE}
        /\ UNCHANGED <<connected, req, line, client, astray>>
    BY <1>14 DEF DisassCommandNothing, BpCommand, Done, stopVars, histVars
  <2>2. running' \in BOOLEAN
    BY <1>14 DEF DisassCommandNothing, BpCommand, Done
  <2>3. resp' \in Responses
    BY <1>14 DEF DisassCommandNothing, BpCommand, Done, Executes, Requests, Commands, Responses, ShapeInv
  <2>4. /\ {req'.param, resp'.data} \subseteq Pointers
        /\ req' \in Requests /\ line' \in Lines
        /\ line'.kind = "request" => line'.cmd \in Commands
    BY <2>1, <2>3 DEF Requests, Responses, ShapeInv
  <2> QED
    BY <2>1, <2>2, <2>3, <2>4 DEF ShapeInv, DbgTypeOK
<1>15. CASE MemoryCommand
  BY <1>15 DEF MemoryCommand, Executes, stopVars, histVars
<1>16. ASSUME NEW r \in Ranges, MemoryUnavailable(r) \/ MemoryCopied(r) PROVE ShapeInv'
  <2> HIDE DEF Requests, Responses, Lines, ShapeInv, DbgTypeOK
  <2>1. /\ phase' = "send" /\ tf' \in {TRUE, FALSE, tf} /\ pd' \in {"own", pd}
        /\ odd' \in {odd, TRUE}
        /\ UNCHANGED <<connected, req, line, client, astray>>
    BY <1>16 DEF MemoryUnavailable, MemoryCopied, Done, stopVars, histVars
  <2>2. running' \in BOOLEAN
    BY <1>16 DEF MemoryUnavailable, MemoryCopied, Done
  <2>3. resp' \in Responses
    BY <1>16 DEF MemoryUnavailable, MemoryCopied, Done, Executes, Fills, FillsData, Commands, Responses, ShapeInv
  <2>4. /\ {req'.param, resp'.data} \subseteq Pointers
        /\ req' \in Requests /\ line' \in Lines
        /\ line'.kind = "request" => line'.cmd \in Commands
    BY <2>1, <2>3 DEF Requests, Responses, ShapeInv
  <2> QED
    BY <2>1, <2>2, <2>3, <2>4 DEF ShapeInv, DbgTypeOK
<1>17. ASSUME NEW r \in Ranges, MemoryFaults(r) PROVE ShapeInv'
  BY <1>17 DEF MemoryFaults, stopVars, histVars
<1>18. CASE SendResponse
  BY <1>18 DEF SendResponse, Received, stopVars, histVars
<1>19. CASE Cleanup
  BY <1>19 DEF Cleanup, AfterFree, stopVars, histVars
<1>20. CASE UNCHANGED dbgVars
  BY <1>20 DEF dbgVars, stopVars, histVars
<1> QED
  BY <1>1, <1>2, <1>3, <1>4, <1>5, <1>6, <1>7, <1>8, <1>9, <1>10, <1>11, <1>12, <1>13,
     <1>14, <1>15, <1>16, <1>17, <1>18, <1>19, <1>20
  DEF DbgNext, Serve

(* Every step keeps the answer that of the request.                        *)
LEMMA AnswerStep == AnswerInv /\ FreeInv /\ ShapeInv' /\ [DbgNext]_dbgVars => AnswerInv'
<1> SUFFICES ASSUME AnswerInv /\ FreeInv /\ ShapeInv', [DbgNext]_dbgVars PROVE AnswerInv'
  OBVIOUS
<1> USE DEF AnswerInv, ClientInv, Busy, AnswersMatch, Resuming
<1>1. CASE ClientBegins
  BY <1>1 DEF ClientBegins, NoLine, stopVars, histVars
<1>2. CASE ClientSendsEmpty
  BY <1>2 DEF ClientSendsEmpty, NoLine, stopVars, histVars
<1>3. ASSUME NEW c \in Commands, ClientSends(c) PROVE AnswerInv'
  BY <1>3 DEF ClientSends, NoLine, ArgsOf, stopVars, histVars
<1>4. CASE BreakpointFirst
  BY <1>4 DEF BreakpointFirst, stopVars, histVars
<1>5. CASE Stops
  BY <1>5 DEF Stops, BreakpointHit, Received, WaitForPacket, WildRequest, WildResponse,
     stopVars, histVars
<1>6. CASE StartupByte
  BY <1>6 DEF StartupByte, NoLine, stopVars, histVars
<1>7. CASE ConnectRequest
  BY <1>7 DEF ConnectRequest, Received, WaitForPacket, WildRequest, WildResponse, NoLine,
     stopVars, histVars
<1>8. CASE RecvRequest
  BY <1>8 DEF RecvRequest, NoLine, stopVars, histVars
<1>9. CASE RecvEmpty
  BY <1>9 DEF RecvEmpty, NoLine, stopVars, histVars
<1>10. CASE RecvGarbled
  BY <1>10 DEF RecvGarbled, NoLine, stopVars, histVars
<1>11. CASE StepCommand \/ ContinueCommand \/ QuitCommand
  BY <1>11 DEF StepCommand, ContinueCommand, QuitCommand, Executes, Done, Fills, stopVars,
     histVars
<1>12. CASE RegistersCommand \/ UndefinedCommand \/ MemoryCommandWrong
  BY <1>12 DEF RegistersCommand, UndefinedCommand, MemoryCommandWrong, Executes, Done, Fills,
     stopVars, histVars
<1>13. CASE DisassCommand \/ StackTraceCommand \/ IdtCommand
  BY <1>13 DEF DisassCommand, StackTraceCommand, IdtCommand, Executes, Done, FillsData,
     stopVars, histVars
<1>14. CASE DisassCommandNothing \/ BpCommand
  BY <1>14 DEF DisassCommandNothing, BpCommand, Executes, Done, stopVars, histVars
<1>15. CASE MemoryCommand
  BY <1>15 DEF MemoryCommand, Executes, stopVars, histVars
<1>16. ASSUME NEW r \in Ranges, MemoryUnavailable(r) \/ MemoryCopied(r) PROVE AnswerInv'
  BY <1>16 DEF MemoryUnavailable, MemoryCopied, Done, Fills, FillsData, stopVars, histVars
<1>17. ASSUME NEW r \in Ranges, MemoryFaults(r) PROVE AnswerInv'
  BY <1>17 DEF MemoryFaults, stopVars, histVars
<1>18. CASE SendResponse
  BY <1>18 DEF SendResponse, Received, stopVars, histVars
<1>19. CASE Cleanup
  BY <1>19 DEF Cleanup, AfterFree, stopVars, histVars
<1>20. CASE UNCHANGED dbgVars
  BY <1>20 DEF dbgVars, stopVars, histVars
<1> QED
  BY <1>1, <1>2, <1>3, <1>4, <1>5, <1>6, <1>7, <1>8, <1>9, <1>10, <1>11, <1>12, <1>13,
     <1>14, <1>15, <1>16, <1>17, <1>18, <1>19, <1>20
  DEF DbgNext, Serve

(* Every step leaves one of the two with something to do.                  *)
LEMMA WaitStep == WaitInv /\ AnswerInv /\ FreeInv /\ ShapeInv' /\ [DbgNext]_dbgVars => WaitInv'
<1> SUFFICES ASSUME WaitInv /\ AnswerInv /\ FreeInv /\ ShapeInv', [DbgNext]_dbgVars PROVE WaitInv'
  OBVIOUS
<1> USE DEF WaitInv, AnswerInv, ClientInv, Busy, ShapeInv, Lines
<1>1. CASE ClientBegins
  BY <1>1 DEF ClientBegins, NoLine, stopVars, histVars
<1>2. CASE ClientSendsEmpty
  BY <1>2 DEF ClientSendsEmpty, NoLine, stopVars, histVars
<1>3. ASSUME NEW c \in Commands, ClientSends(c) PROVE WaitInv'
  <2> HIDE DEF WaitInv, AnswerInv, ClientInv, Busy, ShapeInv, Lines
  <2>1. /\ client \in {"greeted", "ready"}
        /\ UNCHANGED <<phase, connected, running, odd>>
    BY <1>3 DEF ClientSends, stopVars
  <2>2. client' = (IF c = "quit" THEN "quit" ELSE "await")
    BY <1>3 DEF ClientSends
  <2>3. line'.kind = "request" /\ line'.cmd = c
    BY <1>3 DEF ClientSends
  <2>4. ASSUME ~astray' PROVE ~astray /\ (client = "greeted" => c = "connect")
    BY <1>3, <2>4 DEF ClientSends
  <2>5. ~Busy
    BY <2>1 DEF AnswerInv, ClientInv
  <2> QED
    BY <2>1, <2>2, <2>3, <2>4, <2>5 DEF WaitInv, Busy
<1>4. CASE BreakpointFirst
  BY <1>4 DEF BreakpointFirst, stopVars, histVars
<1>5. CASE Stops
  BY <1>5 DEF Stops, BreakpointHit, Received, WaitForPacket, WildRequest, WildResponse,
     stopVars, histVars
<1>6. CASE StartupByte
  BY <1>6 DEF StartupByte, NoLine, stopVars, histVars
<1>7. CASE ConnectRequest
  BY <1>7 DEF ConnectRequest, Received, WaitForPacket, WildRequest, WildResponse, NoLine,
     stopVars, histVars
<1>8. CASE RecvRequest
  BY <1>8 DEF RecvRequest, NoLine, stopVars, histVars
<1>9. CASE RecvEmpty
  BY <1>9 DEF RecvEmpty, NoLine, stopVars, histVars
<1>10. CASE RecvGarbled
  BY <1>10 DEF RecvGarbled, NoLine, stopVars, histVars
<1>11. CASE StepCommand \/ ContinueCommand \/ QuitCommand
  BY <1>11 DEF StepCommand, ContinueCommand, QuitCommand, Executes, Done, Fills, stopVars,
     histVars
<1>12. CASE RegistersCommand \/ UndefinedCommand \/ MemoryCommandWrong
  BY <1>12 DEF RegistersCommand, UndefinedCommand, MemoryCommandWrong, Executes, Done, Fills,
     stopVars, histVars
<1>13. CASE DisassCommand \/ StackTraceCommand \/ IdtCommand
  BY <1>13 DEF DisassCommand, StackTraceCommand, IdtCommand, Executes, Done, FillsData,
     stopVars, histVars
<1>14. CASE DisassCommandNothing \/ BpCommand
  BY <1>14 DEF DisassCommandNothing, BpCommand, Executes, Done, stopVars, histVars
<1>15. CASE MemoryCommand
  BY <1>15 DEF MemoryCommand, Executes, stopVars, histVars
<1>16. ASSUME NEW r \in Ranges, MemoryUnavailable(r) \/ MemoryCopied(r) PROVE WaitInv'
  BY <1>16 DEF MemoryUnavailable, MemoryCopied, Done, Fills, FillsData, stopVars, histVars
<1>17. ASSUME NEW r \in Ranges, MemoryFaults(r) PROVE WaitInv'
  BY <1>17 DEF MemoryFaults, stopVars, histVars
<1>18. CASE SendResponse
  <2>1. resp.data = "wild" => odd
    BY <1>18 DEF SendResponse, FreeInv
  <2> QED
    BY <1>18, <2>1 DEF SendResponse, Received, stopVars
<1>19. CASE Cleanup
  BY <1>19 DEF Cleanup, AfterFree, stopVars, histVars
<1>20. CASE UNCHANGED dbgVars
  BY <1>20 DEF dbgVars, stopVars, histVars
<1> QED
  BY <1>1, <1>2, <1>3, <1>4, <1>5, <1>6, <1>7, <1>8, <1>9, <1>10, <1>11, <1>12, <1>13,
     <1>14, <1>15, <1>16, <1>17, <1>18, <1>19, <1>20
  DEF DbgNext, Serve

-----------------------------------------------------------------------------
(* A target that runs because of continue or quit runs freely, and after a *)
(* step it traps (LtDbg::StepCommand, ContinueCommand, QuitCommand).       *)
THEOREM DebuggerTrapMatchesStep == DbgSpec => []TrapMatchesStep
<1>1. DbgInit => TrapInv
  BY DbgInitInv
<1>2. TrapInv => TrapMatchesStep
  BY DEF TrapInv, TrapMatchesStep
<1> QED
  BY <1>1, <1>2, TrapStep, PTL DEF DbgSpec

(* A pointer that is not live is freed only in a stop in which a packet    *)
(* was empty or a response was not filled (LtDbg::CleanupKeDebugRequest).  *)
THEOREM DebuggerFreedOnce == DbgSpec => []FreedOnce
<1>1. DbgInit => FreeInv
  BY DbgInitInv
<1>2. FreeInv => FreedOnce
  BY DEF FreeInv, FreedOnce
<1> QED
  BY <1>1, <1>2, FreeStep, PTL DEF DbgSpec

(* The page directory of the target is current only while its memory is    *)
(* copied, and a copy that does not end meets a hole between the two ends  *)
(* that were checked (LtDbg::MemoryCommand).                               *)
THEOREM DebuggerMemoryLookedAtSafely == DbgSpec => []MemoryLookedAtSafely
<1>1. DbgInit => MemoryInv
  BY DEF DbgInit, NoLine, MemoryInv, ClientInv, Busy
<1>2. MemoryInv => MemoryLookedAtSafely
  BY DEF MemoryInv, MemoryLookedAtSafely
<1> QED
  BY <1>1, <1>2, MemoryStep, PTL DEF DbgSpec

(* The target resumes with the trap flag and the page directory that the   *)
(* client's last command asks for.                                         *)
THEOREM DebuggerResumesAsAsked == DbgSpec => []ResumesAsAsked
<1>1. TrapMatchesStep /\ MemoryLookedAtSafely => ResumesAsAsked
  BY DEF ResumesAsAsked
<1> QED
  BY <1>1, DebuggerTrapMatchesStep, DebuggerMemoryLookedAtSafely, PTL

(* The inductive invariant of the conversation of debugger and client.     *)
THEOREM DebuggerConversation == DbgSpec => []ConversationInv
<1>1. DbgInit => ConversationInv
  <2> SUFFICES ASSUME DbgInit PROVE ConversationInv
    OBVIOUS
  <2>1. ShapeInv
    BY DEF DbgInit, ShapeInv, DbgTypeOK, Requests, Responses, Lines, Pointers, NoLine,
       WildRequest, WildResponse
  <2>2. AnswerInv
    BY <2>1 DEF DbgInit, AnswerInv, ClientInv, Busy, AnswersMatch, NoLine
  <2>3. WaitInv
    BY DEF DbgInit, WaitInv
  <2> QED
    BY <2>2, <2>3, DbgInitInv DEF ConversationInv
<1>2. ConversationInv /\ [DbgNext]_dbgVars => ConversationInv'
  <2> SUFFICES ASSUME ConversationInv, [DbgNext]_dbgVars PROVE ConversationInv'
    OBVIOUS
  <2>1. AnswerInv /\ FreeInv /\ WaitInv /\ ShapeInv
    BY DEF ConversationInv, AnswerInv
  <2>2. ShapeInv'
    BY <2>1, ShapeStep
  <2>3. AnswerInv' /\ FreeInv' /\ WaitInv'
    BY <2>1, <2>2, AnswerStep, FreeStep, WaitStep
  <2> QED
    BY <2>3 DEF ConversationInv
<1> QED
  BY <1>1, <1>2, PTL DEF DbgSpec

(* What the client receives while it waits answers its last request        *)
(* (LtDbg::WaitForPacket with the commands).                               *)
THEOREM DebuggerAnswersMatch == DbgSpec => []AnswersMatch
<1>1. ConversationInv => AnswersMatch
  BY DEF ConversationInv, AnswerInv
<1> QED
  BY <1>1, DebuggerConversation, PTL

(* Neither side waits for the other for ever (WaitForConnectCommand,       *)
(* RecvPacket), and the variables have their types.                        *)
THEOREM DebuggerNoMutualWait == DbgSpec => []NoMutualWait
<1>1. ConversationInv => NoMutualWait
  BY DEF ConversationInv, AnswerInv, ShapeInv, WaitInv, NoMutualWait, NoLine
<1> QED
  BY <1>1, DebuggerConversation, PTL

=============================================================================
