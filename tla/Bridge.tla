------------------------------- MODULE Bridge -------------------------------
(***************************************************************************)
(* The MCP STDIO-to-HTTP bridge of src/tools/swing/mcp/src/main/python/    *)
(* mcp_bridge.py (class MCPBridge), together with the two actors it talks  *)
(* to: the MCP client, which writes lines to the bridge's stdin and may    *)
(* close it, and the HTTP tool server, whose replies are arbitrary.        *)
(*                                                                         *)
(* The bridge is one thread: check_server_connection, then the loop of     *)
(* run() reading one line, dispatching it, and for initialize, tools/list  *)
(* and tools/call blocking on one HTTP call (urlopen with timeout=10)      *)
(* before it writes at most one response line.  A step of the bridge is a  *)
(* whole iteration of that loop, split only at the HTTP call, where the    *)
(* server answers.                                                         *)
(***************************************************************************)
EXTENDS BridgeData

CONSTANTS
  MaxLines,   \* bound on the number of lines the client writes
  Input       \* the lines the client may write

ASSUME MaxLinesAssumption == MaxLines \in Nat
ASSUME InputAssumption == Input \subseteq Lines

VARIABLES
  stdin,      \* every line the client has written, in order
  closed,     \* the client has closed stdin (readline returns "")
  pos,        \* number of stdin lines the bridge has read
  phase,      \* where the bridge thread is
  connected,  \* self.connected
  stdout,     \* the responses the client has received, in order
  outClosed,  \* the client has closed its end of the bridge's stdout
  unflushed   \* sys.stdout's buffer holds a response whose flush failed

vars == <<stdin, closed, pos, phase, connected, stdout, outClosed, unflushed>>

(* "connecting": in check_server_connection; "idle": at readline;          *)
(* "waiting": blocked in make_request for stdin[pos]; "stopped": run()     *)
(* returned (exit 0); "exited": sys.exit(1) or an uncaught exception.      *)
Phases == {"connecting", "idle", "waiting", "stopped", "exited"}

TypeOK ==
  /\ stdin \in Seq(Lines)
  /\ closed \in BOOLEAN
  /\ pos \in 0..Len(stdin)
  /\ phase \in Phases
  /\ connected \in BOOLEAN
  /\ stdout \in Seq(Responses)
  /\ outClosed \in BOOLEAN
  /\ unflushed \in BOOLEAN

Init ==
  /\ stdin = <<>>
  /\ closed = FALSE
  /\ pos = 0
  /\ phase = "connecting"
  /\ connected = FALSE
  /\ stdout = <<>>
  /\ outClosed = FALSE
  /\ unflushed = FALSE

-----------------------------------------------------------------------------
(* The client.                                                             *)
(***************************************************************************)
Send(l) ==
  /\ ~closed
  /\ Len(stdin) < MaxLines
  /\ stdin' = Append(stdin, l)
  /\ UNCHANGED <<closed, pos, phase, connected, stdout, outClosed, unflushed>>

Close ==
  /\ ~closed
  /\ closed' = TRUE
  /\ UNCHANGED <<stdin, pos, phase, connected, stdout, outClosed, unflushed>>

(* The client stops reading the bridge's stdout (it exits, or closes the   *)
(* pipe) while the bridge runs.                                            *)
Hangup ==
  /\ ~outClosed
  /\ outClosed' = TRUE
  /\ UNCHANGED <<stdin, closed, pos, phase, connected, stdout, unflushed>>

-----------------------------------------------------------------------------
(* Startup: run() calls check_server_connection, which GETs /status.       *)
(***************************************************************************)
(* An error reply logs and returns False, and run() calls sys.exit(1); a   *)
(* non-object body makes status.get raise outside any try: the process    *)
(* dies with status 1 as well.                                             *)
CheckServerConnection(r) ==
  /\ phase = "connecting"
  /\ IF IsError(r) \/ ~IsObject(r)
       THEN /\ phase' = "exited"
            /\ UNCHANGED connected
       ELSE /\ phase' = "idle"
            /\ connected' = TRUE
  /\ UNCHANGED <<stdin, closed, pos, stdout, outClosed, unflushed>>

-----------------------------------------------------------------------------
(* The loop of run(): reading and dispatching one line.                    *)
(***************************************************************************)
NextLine == stdin[pos + 1]

(* Whether a decoded line is a request or a notification: msg_id is None   *)
(* covers both a missing id and an explicit null.                          *)
IsNotification(l) == l.kind = "object" /\ l.id \in {"absent", "null"}
IsRequestLine(l) == l.kind = "object" /\ l.id \notin {"absent", "null"}

(* A line whose handling raises before any HTTP call: msg.get on a         *)
(* non-object, or params.get in handle_tool_call on non-object params.     *)
RaisesBeforeCall(l) ==
  \/ l.kind = "nonobject"
  \/ IsRequestLine(l) /\ l.method = "tools/call" /\ ~l.params.isObject

(* A plausible bug caught by EveryLineRead: an off-by-one in the test for  *)
(* available input, so the last line written waits for one more.          *)
ConsumeOffByOne ==
  /\ phase = "idle"
  /\ pos + 1 < Len(stdin)
  /\ pos' = pos + 1
  /\ UNCHANGED <<stdin, closed, phase, connected, stdout, outClosed, unflushed>>

(* The common frame of a step that reads one line and writes nothing.      *)
Consume ==
  /\ phase = "idle"
  /\ pos < Len(stdin)
  /\ pos' = pos + 1
  /\ UNCHANGED <<stdin, closed, phase, connected, stdout, outClosed, unflushed>>

ReadEOF ==
  /\ phase = "idle"
  /\ pos = Len(stdin)
  /\ closed
  /\ phase' = "stopped"
  /\ UNCHANGED <<stdin, closed, pos, connected, stdout, outClosed, unflushed>>

SkipEmptyLine ==
  /\ Consume
  /\ NextLine.kind = "empty"

DropMalformedLine ==
  /\ Consume
  /\ NextLine.kind = "malformed"

(* The exception is caught by the loop's except Exception: logged, and the *)
(* line gets no response.                                                  *)
DropRaisingLine ==
  /\ Consume
  /\ RaisesBeforeCall(NextLine)

HandleNotification ==
  /\ Consume
  /\ IsNotification(NextLine)

(* print(json.dumps(response), flush=True): the line reaches the client,   *)
(* or, once the client has closed the pipe, the flush raises               *)
(* BrokenPipeError, which the loop's except Exception logs and continues;  *)
(* the line stays in sys.stdout's buffer.                                  *)
PrintResponse(response) ==
  \/ /\ ~outClosed
     /\ stdout' = Append(stdout, response)
     /\ UNCHANGED unflushed
  \/ /\ outClosed
     /\ unflushed' = TRUE
     /\ UNCHANGED stdout

(* The JSON-RPC error object.                                              *)
ErrorObject(code, message) == [code |-> code, message |-> message]

(* A plausible bug caught by TypeOK: a JSON-RPC code that is not the one   *)
(* for an unknown method (-32600 is "Invalid Request").                    *)
InvalidRequestError == ErrorObject(-32600, "Method not found")

MethodNotFoundError == ErrorObject(-32601, "Method not found")

(* The "Method not found" response to line l, the i-th line read.          *)
MethodNotFound(l, i) ==
  [line |-> i, up |-> NoUpstream, id |-> l.id, error |-> MethodNotFoundError]

(* A plausible bug caught by RepliesMatchRequests: the "Method not found"   *)
(* branch reached without the notification check (a missing continue).    *)
UnknownMethodWithoutIdCheck ==
  /\ phase = "idle"
  /\ pos < Len(stdin)
  /\ NextLine.kind = "object"
  /\ NextLine.method = "unknown"
  /\ pos' = pos + 1
  /\ PrintResponse(MethodNotFound(NextLine, pos + 1))
  /\ UNCHANGED <<stdin, closed, phase, connected, outClosed>>

UnknownMethod ==
  /\ phase = "idle"
  /\ pos < Len(stdin)
  /\ IsRequestLine(NextLine)
  /\ NextLine.method = "unknown"
  /\ pos' = pos + 1
  /\ PrintResponse(MethodNotFound(NextLine, pos + 1))
  /\ UNCHANGED <<stdin, closed, phase, connected, outClosed>>

(* A routed request: the handler runs up to make_request's urlopen.        *)
CallServer ==
  /\ phase = "idle"
  /\ pos < Len(stdin)
  /\ IsRequestLine(NextLine)
  /\ NextLine.method \in HttpMethods
  /\ ~RaisesBeforeCall(NextLine)
  /\ pos' = pos + 1
  /\ phase' = "waiting"
  /\ UNCHANGED <<stdin, closed, connected, stdout, outClosed, unflushed>>

-----------------------------------------------------------------------------
(* The handlers, from make_request's return to the printed response.       *)
(***************************************************************************)
Pending == stdin[pos]

ErrorResponse(r, message) ==
  [line |-> pos, up |-> r, id |-> Pending.id,
   error |-> ErrorObject(-32603, message)]

ResultResponse(r, result) ==
  [line |-> pos, up |-> r, id |-> Pending.id, result |-> result]

(* A plausible bug caught by ResultsConformToMCP: the upstream            *)
(* capabilities passed through instead of rebuilt.                        *)
InitializeResultPassThrough(r) ==
  [protocolVersion |-> "2024-11-05", capabilities |-> r.caps]

(* handle_initialize: the upstream capabilities are discarded.             *)
InitializeResult(r) ==
  [protocolVersion |-> "2024-11-05",
   capabilities |-> [shape |-> "dict", tools |-> "emptyobj",
                     logging |-> "emptyobj"]]

(* handle_tool_call: call_result.get("content", "").                       *)
EmptyString == [shape |-> "string", image |-> FALSE, format |-> "absent"]
Content(r) == IF r.content.shape = "absent" THEN EmptyString ELSE r.content

IsScreenshotTool(name) == name \in {"app_screenshot", "active_window_screenshot"}

(* f"image/{content.get('format', 'png')}": str(None) is "None".           *)
MimeSubtype(c) ==
  CASE c.format = "absent" -> "png"
    [] c.format = "null"   -> "None"
    [] OTHER               -> c.format

ToolCallResult(r) ==
  LET c == Content(r) IN
  IF IsScreenshotTool(Pending.params.name) /\ c.shape = "dict" /\ c.image
    THEN [content |-> <<[type |-> "image", data |-> c, mimeType |-> MimeSubtype(c)],
                        [type |-> "text", text |-> [conv |-> "summary", of |-> c]]>>]
  ELSE IF c.shape = "dict"
    THEN [content |-> <<[type |-> "text", text |-> [conv |-> "json", of |-> c]]>>]
  ELSE [content |-> <<[type |-> "text", text |-> [conv |-> "str", of |-> c]]>>]

(* A plausible bug caught by ErrorsSurfaced: tools/list without its        *)
(* "error" in tools_result check.                                         *)
HandlerResponseNoListErrorCheck(r) ==
  CASE Pending.method = "initialize" ->
         IF IsError(r) THEN ErrorResponse(r, "Initialization failed")
                       ELSE ResultResponse(r, InitializeResult(r))
    [] Pending.method = "tools/list" -> ResultResponse(r, r)
    [] Pending.method = "tools/call" ->
         IF IsError(r) THEN ErrorResponse(r, "Tool execution failed")
                       ELSE ResultResponse(r, ToolCallResult(r))

(* The response a handler prints for reply r.                              *)
HandlerResponse(r) ==
  CASE Pending.method = "initialize" ->
         IF IsError(r) THEN ErrorResponse(r, "Initialization failed")
                       ELSE ResultResponse(r, InitializeResult(r))
    [] Pending.method = "tools/list" ->
         IF IsError(r) THEN ErrorResponse(r, "Failed to fetch tools")
                       ELSE ResultResponse(r, r)
    [] Pending.method = "tools/call" ->
         IF IsError(r) THEN ErrorResponse(r, "Tool execution failed")
                       ELSE ResultResponse(r, ToolCallResult(r))

UpstreamReplies ==
  CASE Pending.method = "initialize" -> InitReplies
    [] Pending.method = "tools/list" -> ListReplies
    [] Pending.method = "tools/call" -> CallReplies

(* A reply the handler cannot take apart: a non-object body ("error" in    *)
(* it or .get on it raises), or a tools list whose "tools" is null         *)
(* (len(None) raises).                                                     *)
HandlerRaises(r) ==
  \/ ~IsObject(r)
  \/ /\ Pending.method = "tools/list"
     /\ IsObject(r) /\ ~IsError(r)
     /\ r.tools = "null"

(* make_request returns r (a timeout is one of the error replies).         *)
CompleteCall(r) ==
  /\ phase = "waiting"
  /\ ~HandlerRaises(r)
  /\ PrintResponse(HandlerResponse(r))
  /\ phase' = "idle"
  /\ UNCHANGED <<stdin, closed, pos, connected, outClosed>>

(* The handler raises; the loop's except Exception logs and continues.     *)
HandlerFault(r) ==
  /\ phase = "waiting"
  /\ HandlerRaises(r)
  /\ phase' = "idle"
  /\ UNCHANGED <<stdin, closed, pos, connected, stdout, outClosed, unflushed>>

(* SIGINT: KeyboardInterrupt breaks the loop (run() returns); during       *)
(* check_server_connection it is uncaught.                                 *)
Interrupt ==
  /\ phase \in {"connecting", "idle", "waiting"}
  /\ phase' = IF phase = "connecting" THEN "exited" ELSE "stopped"
  /\ UNCHANGED <<stdin, closed, pos, connected, stdout, outClosed, unflushed>>

(* The exit status once run() has returned (phase "stopped"): at shutdown *)
(* the interpreter flushes sys.stdout, and when that fails too (a response *)
(* still buffered after a BrokenPipeError) it reports "Exception ignored"  *)
(* and exits with status 120 instead of 0.                                 *)
ExitStatus == IF unflushed THEN 120 ELSE 0

-----------------------------------------------------------------------------
Client == Close \/ Hangup \/ \E l \in Input : Send(l)

BridgeStep ==
  \/ \E r \in StatusReplies : CheckServerConnection(r)
  \/ ReadEOF \/ SkipEmptyLine \/ DropMalformedLine \/ DropRaisingLine
  \/ HandleNotification \/ UnknownMethod \/ CallServer
  \/ phase = "waiting" /\ \E r \in UpstreamReplies : CompleteCall(r) \/ HandlerFault(r)

Next == Client \/ BridgeStep \/ Interrupt

(* The bridge thread never waits except in readline, which returns as soon *)
(* as a line or EOF is there, and in urlopen, which returns within its     *)
(* timeout: so its steps are weakly fair.  The client and SIGINT are not.  *)
Spec == Init /\ [][Next]_vars /\ WF_vars(BridgeStep)

-----------------------------------------------------------------------------
(* The refinement mapping to the abstract Dispatcher: the replies are the  *)
(* responses with their history line and their id, and the bridge has      *)
(* stopped reading once run() returned or the process exited.              *)
(***************************************************************************)
AnsweredLines ==
  [k \in 1..Len(stdout) |-> [line |-> stdout[k].line, id |-> stdout[k].id]]

Abstract == INSTANCE Dispatcher
              WITH answered <- AnsweredLines,
                   done <- phase \in {"stopped", "exited"}

-----------------------------------------------------------------------------
(* Properties.                                                             *)
(***************************************************************************)
(* The bridge implements the Dispatcher: every iteration of run() reads    *)
(* one line and writes at most one reply, with the id of a request, to the *)
(* line read last and not answered yet, and under the loop's fairness it   *)
(* goes on reading until EOF or an interrupt.  About the whole of run()    *)
(* and the handlers' responses.                                            *)
DispatcherSpec == Abstract!Spec

(* A request in the sense of JSON-RPC and of the specification: an object  *)
(* that has an id key, whatever its value.                                 *)
HasId(l) == l.kind = "object" /\ l.id # "absent"

(* Every response answers a line already read that is a request, echoes   *)
(* that request's id, and the responses follow the order of the requests  *)
(* with at most one per request: the client can pair replies with its     *)
(* requests.  About the msg_id is None check and the id each handler       *)
(* copies into its response (mcp_bridge.py run and the handlers).        *)
RepliesMatchRequests ==
  /\ \A k \in 1..Len(stdout) :
       /\ stdout[k].line \in 1..pos
       /\ HasId(stdin[stdout[k].line])
       /\ stdout[k].id = stdin[stdout[k].line].id
  /\ \A k \in 1..Len(stdout) - 1 : stdout[k].line < stdout[k + 1].line

(* A response is an error exactly when the tool server failed or no call  *)
(* was made; failures of the server are -32603, and -32601 (no call) is    *)
(* given exactly to the methods the bridge does not route, which never     *)
(* reach the server.  About the "error" in result checks of the handlers.  *)
ErrorsSurfaced ==
  \A k \in 1..Len(stdout) :
    LET s == stdout[k] IN
    /\ IsErrorResponse(s) <=> (s.up = NoUpstream \/ IsError(s.up))
    /\ IsErrorResponse(s) =>
         s.error.code = IF s.up = NoUpstream THEN -32601 ELSE -32603
    /\ (s.up = NoUpstream) <=> (stdin[s.line].method = "unknown")

(* The results conform to MCP whatever the server sent: initialize pins   *)
(* the protocol version and gives capabilities as an object of empty      *)
(* objects, never booleans; tools/list passes the server's body through   *)
(* unchanged; tools/call gives an image block first exactly for an image  *)
(* of a screenshot tool, with the server's format or png.  About          *)
(* handle_initialize, handle_tools_list and handle_tool_call.             *)
ResultsConformToMCP ==
  \A k \in 1..Len(stdout) :
    LET s == stdout[k]
        l == stdin[s.line]
    IN ~IsErrorResponse(s) =>
       /\ l.method = "initialize" =>
            /\ s.result.protocolVersion = "2024-11-05"
            /\ s.result.capabilities.shape = "dict"
            /\ s.result.capabilities.tools \in {"absent", "emptyobj"}
            /\ s.result.capabilities.logging \in {"absent", "emptyobj"}
       /\ l.method = "tools/list" => s.result = s.up
       /\ l.method = "tools/call" =>
            /\ (s.result.content[1].type = "image") <=>
                 /\ l.params.name \in {"app_screenshot", "active_window_screenshot"}
                 /\ s.up.content.shape = "dict" /\ s.up.content.image
            /\ s.result.content[1].type = "image" =>
                 s.result.content[1].mimeType =
                   IF s.up.content.format = "absent" THEN "png"
                   ELSE IF s.up.content.format = "null" THEN "None"
                   ELSE s.up.content.format

(* Every line the client writes is eventually read, unless the bridge has  *)
(* stopped: no line makes the loop stall (run, make_request's timeout).    *)
EveryLineRead ==
  \A i \in 1..MaxLines :
    (Len(stdin) >= i) ~> (pos >= i \/ phase \in {"stopped", "exited"})

(* The specification: the process exits with status 0 on clean end of    *)
(* input.  About the break on EOF in run() and main()'s return.           *)
CleanExitOnEOF == [][ReadEOF => ExitStatus = 0]_vars

(* Inductive strengthenings, for the proofs in BridgeProofs.               *)
(***************************************************************************)
(* While the bridge waits on the server, the line it read is a routed      *)
(* request that passed handle_tool_call's params.get.                      *)
WaitingWellFormed ==
  phase = "waiting" =>
    /\ pos \in 1..Len(stdin)
    /\ IsRequestLine(stdin[pos])
    /\ stdin[pos].method \in HttpMethods
    /\ ~RaisesBeforeCall(stdin[pos])

(* No response has been written yet for the line the bridge waits on.     *)
WaitingUnanswered ==
  phase = "waiting" => \A k \in 1..Len(stdout) : stdout[k].line < pos

(* The specification: a request always receives exactly one reply, even   *)
(* on failure.  Whenever the bridge is back at readline, every request it  *)
(* has read has been answered.                                             *)
RequestsAnswered ==
  phase = "idle" =>
    \A i \in 1..pos :
      HasId(stdin[i]) => \E k \in 1..Len(stdout) : stdout[k].line = i

(* The specification: initialize rebuilds capabilities with exactly the    *)
(* keys that are present and truthy upstream, each an empty object.        *)
CapabilitiesMirrorUpstream ==
  \A k \in 1..Len(stdout) :
    LET s == stdout[k] IN
    (stdin[s.line].method = "initialize" /\ ~IsErrorResponse(s)) =>
      \A f \in {"tools", "logging"} :
        s.result.capabilities[f] =
          IF s.up.caps.shape = "dict" /\ Truthy(s.up.caps[f])
            THEN "emptyobj" ELSE "absent"

=============================================================================
