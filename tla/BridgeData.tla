----------------------------- MODULE BridgeData -----------------------------
(***************************************************************************)
(* The values that flow through the MCP STDIO-to-HTTP bridge, abstracted   *)
(* to what its control flow tells apart.  Shared by the two bridges of the *)
(* repository (src/tools/swing/mcp/.../mcp_bridge.py, modelled in Bridge,  *)
(* and src/plugins/swing-mcp/.../mcp_bridge.py).                           *)
(*                                                                         *)
(* Every value that may meet a value of another shape in one field is a    *)
(* record, so that TLC can compare them; the keys of a record stand for    *)
(* the keys of the decoded JSON object, so the code's  "error" in result   *)
(* is  "error" \in DOMAIN r  here.                                         *)
(***************************************************************************)
EXTENDS Integers, Sequences

CONSTANTS
  Ids,     \* the request ids a client uses (model values)
  Tools    \* tool names a client may call (strings)

ASSUME IdsAssumption == Ids \cap {"absent", "null"} = {}
ASSUME ToolsAssumption == Tools \subseteq STRING

-----------------------------------------------------------------------------
(* Input lines: what sys.stdin.readline() yields after line.strip().       *)
(***************************************************************************)
(* "empty": a blank line; "malformed": not JSON; "nonobject": JSON that is *)
(* not an object (msg.get raises); "object": a JSON-RPC envelope.  The     *)
(* method "unknown" stands for every method string other than the three    *)
(* routed ones, and for a missing method (None).  The id "absent" is a     *)
(* missing key, "null" an explicit JSON null.                              *)
Methods == {"initialize", "tools/list", "tools/call", "unknown"}
HttpMethods == {"initialize", "tools/list", "tools/call"}
IdVals == Ids \cup {"absent", "null"}

(* params: an object (a missing params defaults to {} and a missing name   *)
(* to "", which behaves like any non-screenshot name) or a non-object      *)
(* (null, a list) on which params.get raises.                              *)
NonObjectParams == [isObject |-> FALSE, name |-> ""]
DefaultParams == [isObject |-> TRUE, name |-> ""]
ParamVals == {NonObjectParams, DefaultParams} \cup [isObject: {TRUE}, name: Tools]

Line == [kind: {"empty", "malformed", "nonobject", "object"},
         method: Methods, id: IdVals, params: ParamVals]

(* params only steer control in tools/call; other lines carry the default. *)
ObjectLines ==
  {[kind |-> "object", method |-> m, id |-> i, params |-> DefaultParams] :
      m \in Methods \ {"tools/call"}, i \in IdVals}
  \cup {[kind |-> "object", method |-> "tools/call", id |-> i, params |-> p] :
          i \in IdVals, p \in ParamVals}
Lines ==
  {[kind |-> k, method |-> "unknown", id |-> "absent",
    params |-> NonObjectParams] : k \in {"empty", "malformed", "nonobject"}}
  \cup ObjectLines

-----------------------------------------------------------------------------
(* Upstream replies: the value make_request returns.                       *)
(***************************************************************************)
(* A transport failure, an HTTP error status, or a body that has an        *)
(* "error" key all come back as {"error": ...}: ErrorReply.  A body that   *)
(* decodes to a non-object (list, number, string) is NonObjectReply.       *)
ErrorReply == [error |-> TRUE]
NonObjectReply == [nonobject |-> TRUE]
IsError(r) == "error" \in DOMAIN r
IsObject(r) == "nonobject" \notin DOMAIN r

(* GET /status *)
StatusReplies == {ErrorReply, NonObjectReply, [status |-> TRUE]}

(* POST /initialize: the shape of its "capabilities" value.  A flag is the *)
(* value under "tools" or "logging": "emptyobj" is {} (falsy in Python),   *)
(* "obj" a non-empty object (truthy).                                      *)
Flags == {"absent", "false", "true", "emptyobj", "obj"}
Truthy(f) == f \in {"true", "obj"}
CapVals ==
  [shape: {"dict"}, tools: Flags, logging: Flags]
  \cup [shape: {"absent", "true", "false"}, tools: {"absent"},
        logging: {"absent"}]
InitReplies == {ErrorReply, NonObjectReply} \cup [caps: CapVals]

(* GET /tools/list: the value under "tools" (len() of it is logged).       *)
ListReplies == {ErrorReply, NonObjectReply} \cup [tools: {"absent", "list", "null"}]

(* POST /tools/call: the value under "content".                            *)
Formats == {"absent", "null", "png", "jpeg"}
ContentVals ==
  [shape: {"absent", "string", "null", "list"}, image: {FALSE},
   format: {"absent"}]
  \cup [shape: {"dict"}, image: {TRUE}, format: Formats]
  \cup [shape: {"dict"}, image: {FALSE}, format: {"absent"}]
CallReplies == {ErrorReply, NonObjectReply} \cup [content: ContentVals]

NoUpstream == [none |-> TRUE]   \* a response made without an HTTP call
Replies == StatusReplies \cup InitReplies \cup ListReplies \cup CallReplies

-----------------------------------------------------------------------------
(* Responses written to stdout.                                            *)
(***************************************************************************)
(* The wire fields are id and exactly one of result and error ("jsonrpc"   *)
(* is the constant "2.0" and left out).  The fields line (the index of the *)
(* stdin line answered) and up (the upstream reply it was made from) are   *)
(* history fields for stating properties; they are not written.            *)
(* Messages stand for the message templates of the code.                   *)
Messages == {"Initialization failed", "Failed to fetch tools",
             "Tool execution failed", "Method not found", "Internal error"}

(* A text block's text is a conversion applied to the content value:       *)
(* "str" is Python str(), "json" json.dumps(indent=2), "repr" str() of a   *)
(* dict (Python syntax, not JSON), "summary" the screenshot sentence.      *)
Texts == [conv: {"str", "json", "repr", "summary"}, of: ContentVals]
Blocks ==
  [type: {"image"}, data: ContentVals, mimeType: Formats \cup {"None"}]
  \cup [type: {"text"}, text: Texts]
InitResults == [protocolVersion: {"2024-11-05"}, capabilities: CapVals]
Results == InitResults \cup ListReplies \cup [content: Seq(Blocks)]

ErrorResponses ==
  [line: Nat \ {0}, up: Replies \cup {NoUpstream}, id: IdVals,
   error: [code: {-32603, -32601}, message: Messages]]
ResultResponses ==
  [line: Nat \ {0}, up: Replies \cup {NoUpstream}, id: IdVals,
   result: Results]
Responses == ErrorResponses \cup ResultResponses

IsErrorResponse(r) == "error" \in DOMAIN r
=============================================================================
