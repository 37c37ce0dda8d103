------------------------ MODULE BridgeResponseProofs ------------------------
(***************************************************************************)
(* ErrorsSurfaced and ResultsConformToMCP of Bridge, for every value of    *)
(* the constants.  Both are about each response and the line it answers;  *)
(* the responses written and the lines read never change, so each step    *)
(* only has to establish them for the response it appends.                *)
(***************************************************************************)
EXTENDS BridgeProofs

(* ErrorsSurfaced for one response s to the line l.                        *)
Surfaced(s, l) ==
  /\ IsErrorResponse(s) <=> (s.up = NoUpstream \/ IsError(s.up))
  /\ IsErrorResponse(s) =>
       s.error.code = IF s.up = NoUpstream THEN -32601 ELSE -32603
  /\ (s.up = NoUpstream) <=> (l.method = "unknown")

(* ResultsConformToMCP for one response s to the line l.                   *)
Conform(s, l) ==
  ~IsErrorResponse(s) =>
     /\ l.method = "initialize" =>
          /\ s.result.protocolVersion = "2024-11-05"
          /\ s.result.capabilities.shape = "dict"
          /\ s.result.capabilities.tools \in {"absent", "emptyobj"}
          /\ s.result.capabilities.logging \in {"absent", "emptyobj"}
     /\ l.method = "tools/list" => s.result = s.up
     /\ l.method = "tools/call" =>
          /\ (s.result.content[1].type = "image") <=>
               /\ l.params.name \in {"app_screenshot", "active_window_screenshot"}
               /\ s.up.content.shape = "dict" /\ s.up.content.image
          /\ s.result.content[1].type = "image" =>
               s.result.content[1].mimeType =
                 IF s.up.content.format = "absent" THEN "png"
                 ELSE IF s.up.content.format = "null" THEN "None"
                 ELSE s.up.content.format

Good(s, l) == Surfaced(s, l) /\ Conform(s, l)

LEMMA GoodDef ==
  ErrorsSurfaced /\ ResultsConformToMCP
    <=> \A k \in 1..Len(stdout) : Good(stdout[k], stdin[stdout[k].line])
  BY DEF ErrorsSurfaced, Surfaced, ResultsConformToMCP, Conform, Good

(* The JSON-RPC codes of the two error objects.                            *)
LEMMA ErrorCodes ==
  /\ \A m : ErrorObject(-32603, m).code = -32603
  /\ MethodNotFoundError.code = -32601
  BY DEF ErrorObject, MethodNotFoundError

(* A handler's response is an error exactly when the server's reply is,    *)
(* with -32603, and it carries that reply.                                 *)
LEMMA HandlerResponseSurfaced ==
  ASSUME IInv, phase = "waiting",
         NEW r \in UpstreamReplies, ~HandlerRaises(r)
  PROVE  /\ Surfaced(HandlerResponse(r), Pending)
         /\ IsErrorResponse(HandlerResponse(r)) <=> IsError(r)
<1>1. Pending.method \in HttpMethods
  BY PendingTyped
<1>2. r \in Replies /\ r # NoUpstream
  BY <1>1, NoUpstreamNotReply DEF UpstreamReplies, HttpMethods, Replies
<1>3. ASSUME NEW m
      PROVE  /\ ErrorResponse(r, m).up = r
             /\ IsErrorResponse(ErrorResponse(r, m))
             /\ ErrorResponse(r, m).error.code = -32603
  BY ErrorCodes DEF ErrorResponse, IsErrorResponse
<1>4. ASSUME NEW x
      PROVE  /\ ResultResponse(r, x).up = r
             /\ ~IsErrorResponse(ResultResponse(r, x))
  BY DEF ResultResponse, IsErrorResponse
<1>5. /\ HandlerResponse(r).up = r
      /\ IsErrorResponse(HandlerResponse(r)) <=> IsError(r)
      /\ IsErrorResponse(HandlerResponse(r)) => HandlerResponse(r).error.code = -32603
  <2>1. CASE IsError(r)
    <3>1. \E m : HandlerResponse(r) = ErrorResponse(r, m)
      BY <1>1, <2>1 DEF HandlerResponse, HttpMethods
    <3>2. QED
      BY <1>3, <2>1, <3>1
  <2>2. CASE ~IsError(r)
    <3>1. \E x : HandlerResponse(r) = ResultResponse(r, x)
      BY <1>1, <2>2 DEF HandlerResponse, HttpMethods
    <3>2. QED
      BY <1>4, <2>2, <3>1
  <2>3. QED
    BY <2>1, <2>2
<1>6. QED
  BY <1>1, <1>2, <1>5 DEF Surfaced, HttpMethods

(* The result of handle_tool_call: an image block first exactly for an     *)
(* image of a screenshot tool, with the server's format or png.            *)
LEMMA ToolCallResultConform ==
  ASSUME NEW r \in [content: ContentVals], NEW name
  PROVE  LET res == IF IsScreenshotTool(name) /\ Content(r).shape = "dict"
                            /\ Content(r).image
                      THEN [content |-> <<[type |-> "image", data |-> Content(r),
                                           mimeType |-> MimeSubtype(Content(r))],
                                          [type |-> "text",
                                           text |-> [conv |-> "summary", of |-> Content(r)]]>>]
                    ELSE IF Content(r).shape = "dict"
                      THEN [content |-> <<[type |-> "text",
                                           text |-> [conv |-> "json", of |-> Content(r)]]>>]
                    ELSE [content |-> <<[type |-> "text",
                                         text |-> [conv |-> "str", of |-> Content(r)]]>>]
         IN  /\ (res.content[1].type = "image") <=>
                  /\ name \in {"app_screenshot", "active_window_screenshot"}
                  /\ r.content.shape = "dict" /\ r.content.image
             /\ res.content[1].type = "image" =>
                  res.content[1].mimeType =
                    IF r.content.format = "absent" THEN "png"
                    ELSE IF r.content.format = "null" THEN "None"
                    ELSE r.content.format
<1>1. /\ Content(r).shape = "dict" <=> r.content.shape = "dict"
      /\ Content(r).shape = "dict" => Content(r) = r.content
  BY DEF Content, EmptyString, ContentVals
<1>2. QED
  BY <1>1 DEF IsScreenshotTool, MimeSubtype

(* A handler's result has the shape MCP asks for.                          *)
LEMMA HandlerResponseConform ==
  ASSUME IInv, phase = "waiting",
         NEW r \in UpstreamReplies, ~HandlerRaises(r)
  PROVE  Conform(HandlerResponse(r), Pending)
<1>1. Pending.method \in HttpMethods
  BY PendingTyped
<1>2. SUFFICES ASSUME ~IsError(r) PROVE Conform(HandlerResponse(r), Pending)
  <2>1. IsErrorResponse(HandlerResponse(r)) <=> IsError(r)
    BY HandlerResponseSurfaced
  <2>2. QED
    BY <2>1 DEF Conform
<1>3. CASE Pending.method = "initialize"
  <2>1. HandlerResponse(r) = ResultResponse(r, InitializeResult(r))
    BY <1>2, <1>3 DEF HandlerResponse
  <2>2. QED
    BY <1>3, <2>1 DEF Conform, ResultResponse, InitializeResult, IsErrorResponse
<1>4. CASE Pending.method = "tools/list"
  <2>1. HandlerResponse(r) = ResultResponse(r, r)
    BY <1>2, <1>4 DEF HandlerResponse
  <2>2. QED
    BY <1>4, <2>1 DEF Conform, ResultResponse, IsErrorResponse
<1>5. CASE Pending.method = "tools/call"
  <2>1. r \in [content: ContentVals]
    BY <1>2, <1>5 DEF UpstreamReplies, CallReplies, HandlerRaises, IsObject,
                      IsError, ErrorReply, NonObjectReply
  <2>2. HandlerResponse(r) = ResultResponse(r, ToolCallResult(r))
    BY <1>2, <1>5 DEF HandlerResponse
  <2>3. QED
    BY <1>5, <2>1, <2>2, ToolCallResultConform
       DEF Conform, ResultResponse, IsErrorResponse, ToolCallResult
<1>6. QED
  BY <1>1, <1>3, <1>4, <1>5 DEF HttpMethods

EInv == RInv /\ ErrorsSurfaced /\ ResultsConformToMCP

LEMMA NextEInv == EInv /\ [Next]_vars => EInv'
<1> SUFFICES ASSUME EInv, [Next]_vars PROVE EInv'
  OBVIOUS
<1>a. RInv /\ ErrorsSurfaced /\ ResultsConformToMCP
  BY DEF EInv
<1>b. RInv'
  BY <1>a, NextRInv
<1>0. /\ RInv /\ RInv' /\ IInv /\ TypeOK /\ RepliesMatchRequests
      /\ stdout \in Seq(Responses) /\ pos \in 0..Len(stdin)
      /\ \A k \in 1..Len(stdout) : Good(stdout[k], stdin[stdout[k].line])
  BY <1>a, <1>b, GoodDef DEF RInv, IInv, TypeOK
<1>1. \A k \in 1..Len(stdout) : stdout[k].line \in 1..Len(stdin)
  BY <1>0 DEF RepliesMatchRequests
(* Steps that keep every old line of stdin and every old response.         *)
<1>2. ASSUME /\ \A i \in 1..Len(stdin) : stdin'[i] = stdin[i]
             /\ Len(stdout') \in {Len(stdout), Len(stdout) + 1}
             /\ \A k \in 1..Len(stdout) : stdout'[k] = stdout[k]
             /\ Len(stdout') = Len(stdout) + 1 =>
                  Good(stdout'[Len(stdout) + 1],
                       stdin'[stdout'[Len(stdout) + 1].line])
      PROVE  EInv'
  <2>1. SUFFICES ASSUME NEW k \in 1..Len(stdout')
                 PROVE  Good(stdout'[k], stdin'[stdout'[k].line])
    BY <1>b DEF EInv, ErrorsSurfaced, Surfaced, ResultsConformToMCP, Conform, Good
  <2>2. CASE k \in 1..Len(stdout)
    BY <1>0, <1>1, <1>2, <2>2
  <2>3. CASE k \notin 1..Len(stdout)
    <3>1. k = Len(stdout) + 1
      BY <1>0, <1>2, <2>3
    <3>2. QED
      BY <1>2, <3>1
  <2>4. QED
    BY <2>2, <2>3
<1>3. ASSUME NEW l \in Input, Send(l) PROVE EInv'
  <2>1. /\ \A i \in 1..Len(stdin) : stdin'[i] = stdin[i]
        /\ UNCHANGED stdout
    BY <1>0, <1>3 DEF Send
  <2>2. QED
    BY <1>0, <1>2, <2>1
<1>4. ASSUME UNCHANGED <<stdin, stdout>> PROVE EInv'
  BY <1>0, <1>2, <1>4
<1>5. ASSUME UnknownMethod, stdout' # stdout PROVE EInv'
  <2> DEFINE new == MethodNotFound(NextLine, pos + 1)
  <2>1. /\ stdout' = Append(stdout, new)
        /\ UNCHANGED stdin /\ pos < Len(stdin)
        /\ NextLine.method = "unknown"
    BY <1>5, PrintCases DEF UnknownMethod
  <2>2. /\ Len(stdout') = Len(stdout) + 1
        /\ \A k \in 1..Len(stdout) : stdout'[k] = stdout[k]
        /\ stdout'[Len(stdout) + 1] = new
    BY <1>0, <2>1
  <2>3. /\ new.up = NoUpstream /\ new.line = pos + 1
        /\ IsErrorResponse(new)
        /\ new.error.code = -32601
    BY ErrorCodes DEF MethodNotFound, IsErrorResponse
  <2>4. Good(new, stdin[pos + 1])
    BY <2>1, <2>3 DEF Good, Surfaced, Conform, NextLine
  <2>5. QED
    BY <1>0, <1>2, <2>1, <2>2, <2>3, <2>4
<1>6. ASSUME phase = "waiting", NEW r \in UpstreamReplies, CompleteCall(r),
             stdout' # stdout
      PROVE  EInv'
  <2>1. /\ stdout' = Append(stdout, HandlerResponse(r))
        /\ UNCHANGED stdin
    BY <1>6, PrintCases DEF CompleteCall
  <2>2. /\ Len(stdout') = Len(stdout) + 1
        /\ \A k \in 1..Len(stdout) : stdout'[k] = stdout[k]
        /\ stdout'[Len(stdout) + 1] = HandlerResponse(r)
    BY <1>0, <2>1
  <2>3. /\ Good(HandlerResponse(r), Pending)
        /\ HandlerResponse(r).line = pos
    BY <1>0, <1>6, HandlerResponseSurfaced, HandlerResponseConform,
       HandlerResponseFields DEF CompleteCall, Good
  <2>4. QED
    BY <1>0, <1>2, <2>1, <2>2, <2>3 DEF Pending
(* A response lost on a closed pipe adds nothing to check.               *)
<1>7. ASSUME UnknownMethod \/ \E r : CompleteCall(r), UNCHANGED stdout
      PROVE  EInv'
  <2>1. UNCHANGED stdin
    BY <1>7 DEF UnknownMethod, CompleteCall
  <2>2. QED
    BY <1>4, <1>7, <2>1
<1>8. QED
  <2>1. ASSUME NEW r \in StatusReplies, CheckServerConnection(r)
        PROVE  UNCHANGED <<stdin, stdout>>
    BY <2>1 DEF CheckServerConnection
  <2>2. ASSUME NEW r, HandlerFault(r) PROVE UNCHANGED <<stdin, stdout>>
    BY <2>2 DEF HandlerFault
  <2>3. Close \/ Hangup \/ ReadEOF \/ Interrupt \/ Consume \/ CallServer
          \/ UNCHANGED vars
          => UNCHANGED <<stdin, stdout>>
    BY DEF Close, Hangup, ReadEOF, Interrupt, Consume, CallServer, vars
  <2>4. SkipEmptyLine \/ DropMalformedLine \/ DropRaisingLine
          \/ HandleNotification => Consume
    BY DEF SkipEmptyLine, DropMalformedLine, DropRaisingLine,
           HandleNotification
  <2>5. QED
    BY <1>3, <1>4, <1>5, <1>6, <1>7, <2>1, <2>2, <2>3, <2>4
       DEF Next, Client, BridgeStep

LEMMA InitEInv == Init => EInv
  BY InitRInv DEF Init, EInv, ErrorsSurfaced, ResultsConformToMCP

(* Errors are surfaced: every response of the bridge is an error exactly   *)
(* when the tool server failed (-32603) or the method is not routed        *)
(* (-32601, with no call made).  About the "error" in checks of the three  *)
(* handlers and the unknown-method branch of run().                        *)
THEOREM ErrorsSurfacedHolds == Spec => []ErrorsSurfaced
<1>1. EInv => ErrorsSurfaced
  BY DEF EInv
<1>2. QED
  BY InitEInv, NextEInv, <1>1, PTL DEF Spec

(* Every successful result has the shape MCP asks for: initialize's        *)
(* capabilities are rebuilt as objects, tools/list passes the server's     *)
(* body through, tools/call puts an image block first exactly for an image *)
(* of a screenshot tool.  About handle_initialize, handle_tools_list and   *)
(* handle_tool_call.                                                       *)
THEOREM ResultsConformHolds == Spec => []ResultsConformToMCP
<1>1. EInv => ResultsConformToMCP
  BY DEF EInv
<1>2. QED
  BY InitEInv, NextEInv, <1>1, PTL DEF Spec
=============================================================================
