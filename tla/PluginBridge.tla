---------------------------- MODULE PluginBridge ----------------------------
(***************************************************************************)
(* The older MCP STDIO-to-HTTP bridge of the plugin,                       *)
(* src/plugins/swing-mcp/src/main/python/mcp_bridge.py (function main),    *)
(* with the same client and tool server around it as Bridge.  The loop     *)
(* is the same one-line-at-a-time loop; the differences that matter are    *)
(* in its handlers and its HTTP call:                                      *)
(*   - make_request calls urlopen without a timeout: a stalled server      *)
(*     holds the loop for ever;                                            *)
(*   - initialize and tools/call do not look for "error": a failed call    *)
(*     becomes a result;                                                   *)
(*   - initialize rebuilds capabilities only when they are an object, so  *)
(*     a boolean capabilities value passes through;                        *)
(*   - there is one except Exception for the whole iteration, and no       *)
(*     except KeyboardInterrupt.                                           *)
(***************************************************************************)
EXTENDS BridgeData

CONSTANTS MaxLines, Input

ASSUME PluginMaxLinesAssumption == MaxLines \in Nat
ASSUME PluginInputAssumption == Input \subseteq Lines

VARIABLES
  stdin,      \* every line the client has written, in order
  closed,     \* the client has closed stdin
  pos,        \* number of stdin lines main has read
  phase,      \* where the bridge thread is (as in Bridge)
  stdout      \* the responses written, in order

vars == <<stdin, closed, pos, phase, stdout>>

Phases == {"connecting", "idle", "waiting", "stopped", "exited"}

(* The initialize result is the upstream body itself, with protocolVersion *)
(* set; it keeps an "error" key when the call failed.                      *)
PluginInitResults ==
  [protocolVersion: {"2024-11-05"}, capabilities: CapVals, error: BOOLEAN]
PluginResponses ==
  ErrorResponses
  \cup [line: Nat \ {0}, up: Replies \cup {NoUpstream}, id: IdVals,
        result: Results \cup PluginInitResults \cup {NonObjectReply}]

TypeOK ==
  /\ stdin \in Seq(Lines)
  /\ closed \in BOOLEAN
  /\ pos \in 0..Len(stdin)
  /\ phase \in Phases
  /\ stdout \in Seq(PluginResponses)

Init ==
  /\ stdin = <<>>
  /\ closed = FALSE
  /\ pos = 0
  /\ phase = "connecting"
  /\ stdout = <<>>

Send(l) ==
  /\ ~closed
  /\ Len(stdin) < MaxLines
  /\ stdin' = Append(stdin, l)
  /\ UNCHANGED <<closed, pos, phase, stdout>>

Close ==
  /\ ~closed
  /\ closed' = TRUE
  /\ UNCHANGED <<stdin, pos, phase, stdout>>

-----------------------------------------------------------------------------
(* GET /status, outside any try.  "error" in status exits with 1.  On a    *)
(* non-object body it depends on the body: a list, or a string without     *)
(* "error" in it, passes the test and main goes on; a number, or a string  *)
(* containing "error" (status['error'] on a str), raises and exits.        *)
CheckServer(r) ==
  /\ phase = "connecting"
  /\ \/ (IsError(r) \/ ~IsObject(r)) /\ phase' = "exited"
     \/ ~IsError(r) /\ phase' = "idle"
  /\ UNCHANGED <<stdin, closed, pos, stdout>>

NextLine == stdin[pos + 1]

IsNotification(l) == l.kind = "object" /\ l.id \in {"absent", "null"}

(* A plausible bug caught by PluginDispatcherSafety: a request test        *)
(* without the msg_id is None branch in front of it.                       *)
IsRequestLineNoNotificationCheck(l) == l.kind = "object"

IsRequestLine(l) == l.kind = "object" /\ l.id \notin {"absent", "null"}

Consume ==
  /\ phase = "idle"
  /\ pos < Len(stdin)
  /\ pos' = pos + 1
  /\ UNCHANGED <<stdin, closed, phase, stdout>>

ReadEOF ==
  /\ phase = "idle"
  /\ pos = Len(stdin)
  /\ closed
  /\ phase' = "stopped"
  /\ UNCHANGED <<stdin, closed, pos, stdout>>

(* json.loads(line.strip()) raises on an empty or malformed line, msg.get  *)
(* on a non-object, and params.get in the tools/call branch on non-object  *)
(* params; the except Exception logs it and the line gets no response.     *)
DropRaisingLine ==
  /\ Consume
  /\ \/ NextLine.kind \in {"empty", "malformed", "nonobject"}
     \/ /\ IsRequestLine(NextLine)
        /\ NextLine.method = "tools/call"
        /\ ~NextLine.params.isObject

HandleNotification ==
  /\ Consume
  /\ IsNotification(NextLine)

(* The JSON-RPC error object.                                              *)
ErrorObject(code, message) == [code |-> code, message |-> message]

MethodNotFoundError == ErrorObject(-32601, "Method not found")

MethodNotFound(l, i) ==
  [line |-> i, up |-> NoUpstream, id |-> l.id, error |-> MethodNotFoundError]

UnknownMethod ==
  /\ phase = "idle"
  /\ pos < Len(stdin)
  /\ IsRequestLine(NextLine)
  /\ NextLine.method = "unknown"
  /\ pos' = pos + 1
  /\ stdout' = Append(stdout, MethodNotFound(NextLine, pos + 1))
  /\ UNCHANGED <<stdin, closed, phase>>

(* initialize, tools/list, or tools/call with object params: main blocks   *)
(* in urlopen.                                                             *)
CallServer ==
  /\ phase = "idle"
  /\ pos < Len(stdin)
  /\ IsRequestLine(NextLine)
  /\ NextLine.method \in HttpMethods
  /\ NextLine.method = "tools/call" => NextLine.params.isObject
  /\ pos' = pos + 1
  /\ phase' = "waiting"
  /\ UNCHANGED <<stdin, closed, stdout>>

-----------------------------------------------------------------------------
(* The handlers, inline in main.                                           *)
(***************************************************************************)
Pending == stdin[pos]

ResultResponse(r, result) ==
  [line |-> pos, up |-> r, id |-> Pending.id, result |-> result]

(* A plausible bug caught by TypeOK: the tools/list failure given the      *)
(* generic server-error code -32000.                                       *)
ListErrorServerCode(r) ==
  [line |-> pos, up |-> r, id |-> Pending.id,
   error |-> ErrorObject(-32000, "Internal error")]

InternalError == ErrorObject(-32603, "Internal error")

ListError(r) ==
  [line |-> pos, up |-> r, id |-> Pending.id, error |-> InternalError]

(* The capability fix: only a dict is rebuilt, keeping its truthy keys.    *)
FixedCaps(c) ==
  IF c.shape = "dict"
    THEN [shape |-> "dict",
          tools |-> IF Truthy(c.tools) THEN "emptyobj" ELSE "absent",
          logging |-> IF Truthy(c.logging) THEN "emptyobj" ELSE "absent"]
    ELSE c

NoCaps == [shape |-> "absent", tools |-> "absent", logging |-> "absent"]

(* isinstance(init_result, dict): set protocolVersion, fix capabilities.   *)
(* A non-object body is the result unchanged.                              *)
InitializeResult(r) ==
  IF ~IsObject(r) THEN r
  ELSE IF IsError(r)
    THEN [protocolVersion |-> "2024-11-05", capabilities |-> NoCaps, error |-> TRUE]
  ELSE [protocolVersion |-> "2024-11-05", capabilities |-> FixedCaps(r.caps),
        error |-> FALSE]

IsScreenshotTool(name) == name \in {"screenshot", "app_screenshot"}

(* call_result.get("content", ""): an error body has no content.           *)
Content(r) ==
  IF IsError(r) \/ r.content.shape = "absent"
    THEN [shape |-> "string", image |-> FALSE, format |-> "absent"]
    ELSE r.content

MimeSubtype(c) ==
  CASE c.format = "absent" -> "png"
    [] c.format = "null"   -> "None"
    [] OTHER               -> c.format

(* The image branch, or str(content), which renders a dict as Python repr. *)
ToolCallResult(r) ==
  LET c == Content(r) IN
  IF IsScreenshotTool(Pending.params.name) /\ c.shape = "dict" /\ c.image
    THEN [content |-> <<[type |-> "image", data |-> c, mimeType |-> MimeSubtype(c)],
                        [type |-> "text", text |-> [conv |-> "summary", of |-> c]]>>]
  ELSE [content |-> <<[type |-> "text",
                       text |-> [conv |-> IF c.shape = "dict" THEN "repr" ELSE "str",
                                 of |-> c]]>>]

(* A plausible bug caught by PluginErrorsClassified: tools/list without   *)
(* its "error" in tools_result check.                                     *)
HandlerResponseNoListErrorCheck(r) ==
  CASE Pending.method = "initialize" -> ResultResponse(r, InitializeResult(r))
    [] Pending.method = "tools/list" -> ResultResponse(r, r)
    [] Pending.method = "tools/call" -> ResultResponse(r, ToolCallResult(r))

HandlerResponse(r) ==
  CASE Pending.method = "initialize" -> ResultResponse(r, InitializeResult(r))
    [] Pending.method = "tools/list" ->
         IF IsError(r) THEN ListError(r) ELSE ResultResponse(r, r)
    [] Pending.method = "tools/call" -> ResultResponse(r, ToolCallResult(r))

UpstreamReplies ==
  CASE Pending.method = "initialize" -> InitReplies
    [] Pending.method = "tools/list" -> ListReplies
    [] Pending.method = "tools/call" -> CallReplies

(* tools/list: "error" in, .get or len() raises on a non-object body or a  *)
(* null tools list; tools/call: call_result.get raises on a non-object.    *)
HandlerRaises(r) ==
  /\ Pending.method \in {"tools/list", "tools/call"}
  /\ \/ ~IsObject(r)
     \/ /\ Pending.method = "tools/list"
        /\ IsObject(r) /\ ~IsError(r)
        /\ r.tools = "null"

CompleteCall(r) ==
  /\ phase = "waiting"
  /\ ~HandlerRaises(r)
  /\ stdout' = Append(stdout, HandlerResponse(r))
  /\ phase' = "idle"
  /\ UNCHANGED <<stdin, closed, pos>>

HandlerFault(r) ==
  /\ phase = "waiting"
  /\ HandlerRaises(r)
  /\ phase' = "idle"
  /\ UNCHANGED <<stdin, closed, pos, stdout>>

(* KeyboardInterrupt is not an Exception: it leaves main and the process   *)
(* dies with a traceback, wherever it is.                                  *)
Interrupt ==
  /\ phase \in {"connecting", "idle", "waiting"}
  /\ phase' = "exited"
  /\ UNCHANGED <<stdin, closed, pos, stdout>>

-----------------------------------------------------------------------------
Client == Close \/ \E l \in Input : Send(l)

(* The steps of the bridge that do not wait on the server.                 *)
LocalStep ==
  \/ \E r \in StatusReplies : CheckServer(r)
  \/ ReadEOF \/ DropRaisingLine \/ HandleNotification \/ UnknownMethod
  \/ CallServer

(* The server's answer to the pending call.                                *)
ServerAnswers ==
  phase = "waiting" /\ \E r \in UpstreamReplies : CompleteCall(r) \/ HandlerFault(r)

Next == Client \/ LocalStep \/ ServerAnswers \/ Interrupt

(* readline returns once a line or EOF is there, so the bridge's own steps *)
(* are weakly fair; urlopen has no timeout, so nothing forces the server's *)
(* answer to come.                                                         *)
Spec == Init /\ [][Next]_vars /\ WF_vars(LocalStep)

-----------------------------------------------------------------------------
(* The refinement mapping to Dispatcher, as for Bridge.                    *)
(***************************************************************************)
AnsweredLines ==
  [k \in 1..Len(stdout) |-> [line |-> stdout[k].line, id |-> stdout[k].id]]

Abstract == INSTANCE Dispatcher
              WITH answered <- AnsweredLines,
                   done <- phase \in {"stopped", "exited"}

(* The plugin bridge keeps the Dispatcher's safety: each line is read once *)
(* in order, and a reply goes only to the request read last, once, with    *)
(* its id; about the msg_id is None test and the id each branch of main    *)
(* copies into its response.                                               *)
PluginDispatcherSafety == Abstract!Safety

(* The specification: each HTTP call has a short fixed timeout, so a       *)
(* stalled tool server cannot stop the loop; every line the client writes  *)
(* is eventually read unless the bridge has stopped.  About urlopen(req)   *)
(* in make_request.                                                        *)
EveryLineRead ==
  \A i \in 1..MaxLines :
    (Len(stdin) >= i) ~> (pos >= i \/ phase \in {"stopped", "exited"})

(* The specification: an initialize result's capabilities never hold a     *)
(* boolean, for every upstream capability shape.  About the isinstance     *)
(* (caps, dict) test of the capability fix.                                *)
CapabilitiesNeverBoolean ==
  \A k \in 1..Len(stdout) :
    LET s == stdout[k] IN
    (stdin[s.line].method = "initialize" /\ ~IsErrorResponse(s) /\ IsObject(s.result))
      => s.result.capabilities.shape \in {"dict", "absent"}

(* What the plugin keeps of error reporting: a response is an error        *)
(* exactly for a method main does not route (-32601, no call made) or a    *)
(* tools/list whose reply is an error (-32603); an initialize or           *)
(* tools/call reply never gives one.  About the else branch of main and    *)
(* the "error" in tools_result check.                                      *)
PluginErrorsClassified ==
  \A k \in 1..Len(stdout) :
    LET s == stdout[k]
        l == stdin[s.line]
    IN /\ IsErrorResponse(s) <=>
            (s.up = NoUpstream \/ (l.method = "tools/list" /\ IsError(s.up)))
       /\ IsErrorResponse(s) =>
            s.error.code = IF s.up = NoUpstream THEN -32601 ELSE -32603
       /\ (s.up = NoUpstream) <=> (l.method = "unknown")

(* The specification: a transport failure of a request is answered with an *)
(* error response (-32603), never a result.  About the missing "error" in  *)
(* checks of the initialize and tools/call branches.                       *)
TransportErrorsSurfaced ==
  \A k \in 1..Len(stdout) :
    (stdout[k].up # NoUpstream /\ IsError(stdout[k].up))
      => IsErrorResponse(stdout[k])
=============================================================================
