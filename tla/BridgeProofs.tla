---------------------------- MODULE BridgeProofs ----------------------------
(***************************************************************************)
(* Proofs about Bridge, for every value of the constants.                  *)
(***************************************************************************)
EXTENDS Bridge, BridgeDataLemmas, TLAPS

(* The result of handle_tool_call is a list of MCP content blocks.        *)
LEMMA ToolCallResultTyped ==
  ASSUME NEW r \in [content: ContentVals]
  PROVE  ToolCallResult(r) \in [content: Seq(Blocks)]
<1> DEFINE c == Content(r)
<1>1. c \in ContentVals
  BY DEF Content, EmptyString, ContentVals
<1>2. MimeSubtype(c) \in Formats \cup {"None"}
  BY <1>1 DEF MimeSubtype, ContentVals, Formats
<1>3. /\ [type |-> "image", data |-> c, mimeType |-> MimeSubtype(c)] \in Blocks
      /\ \A conv \in {"str", "json", "repr", "summary"} :
            [type |-> "text", text |-> [conv |-> conv, of |-> c]] \in Blocks
  BY <1>1, <1>2 DEF Blocks, Texts
<1>4. QED
  BY <1>3 DEF ToolCallResult

IInv == TypeOK /\ WaitingWellFormed

(* While waiting, the pending line is a typed routed request.              *)
LEMMA PendingTyped ==
  ASSUME IInv, phase = "waiting"
  PROVE  /\ pos \in Nat \ {0}
         /\ Pending \in Line
         /\ Pending.id \in IdVals
         /\ Pending.method \in HttpMethods
<1>1. pos \in 1..Len(stdin) /\ stdin \in Seq(Lines)
  BY DEF IInv, TypeOK, WaitingWellFormed
<1>2. Pending \in Line
  BY <1>1, LinesTyped DEF Pending
<1>3. QED
  BY <1>1, <1>2 DEF Line, IInv, WaitingWellFormed, Pending

(* Every response a handler prints is a well-typed response.              *)
LEMMA HandlerResponseTyped ==
  ASSUME IInv, phase = "waiting",
         NEW r \in UpstreamReplies, ~HandlerRaises(r)
  PROVE  HandlerResponse(r) \in Responses
<1>1. /\ pos \in Nat \ {0}
      /\ Pending.id \in IdVals
      /\ Pending.method \in HttpMethods
  BY PendingTyped
<1>2. IsObject(r)
  BY DEF HandlerRaises
<1>3. r \in Replies
  BY <1>1 DEF UpstreamReplies, HttpMethods, Replies
<1>4. ASSUME NEW m \in Messages, IsError(r)
      PROVE  ErrorResponse(r, m) \in Responses
  <2>1. ErrorObject(-32603, m) \in [code: {-32603, -32601}, message: Messages]
    BY DEF ErrorObject
  <2>2. QED
    BY <1>1, <1>3, <2>1 DEF ErrorResponse, Responses, ErrorResponses
<1>5. ASSUME NEW res \in Results
      PROVE  ResultResponse(r, res) \in Responses
  BY <1>1, <1>3 DEF ResultResponse, Responses, ResultResponses
<1>6. CASE Pending.method = "initialize"
  <2>1. r \in InitReplies
    BY <1>6 DEF UpstreamReplies
  <2>2. CASE IsError(r)
    BY <1>4, <1>6, <2>2 DEF HandlerResponse, Messages
  <2>3. CASE ~IsError(r)
    <3>1. InitializeResult(r) \in Results
      BY DEF InitializeResult, Results, InitResults, CapVals, Flags
    <3>2. QED
      BY <1>5, <1>6, <2>3, <3>1 DEF HandlerResponse
  <2>4. QED
    BY <2>2, <2>3
<1>7. CASE Pending.method = "tools/list"
  <2>1. r \in ListReplies
    BY <1>7 DEF UpstreamReplies
  <2>2. CASE IsError(r)
    BY <1>4, <1>7, <2>2 DEF HandlerResponse, Messages
  <2>3. CASE ~IsError(r)
    BY <1>5, <1>7, <2>1, <2>3 DEF HandlerResponse, Results
  <2>4. QED
    BY <2>2, <2>3
<1>8. CASE Pending.method = "tools/call"
  <2>1. r \in CallReplies
    BY <1>8 DEF UpstreamReplies
  <2>2. CASE IsError(r)
    BY <1>4, <1>8, <2>2 DEF HandlerResponse, Messages
  <2>3. CASE ~IsError(r)
    <3>1. r \in [content: ContentVals]
      BY <1>2, <2>1, <2>3, ObjectReplies
    <3>2. ToolCallResult(r) \in Results
      BY <3>1, ToolCallResultTyped DEF Results
    <3>3. QED
      BY <1>5, <1>8, <2>3, <3>2 DEF HandlerResponse
  <2>4. QED
    BY <2>2, <2>3
<1>9. QED
  BY <1>1, <1>6, <1>7, <1>8 DEF HttpMethods

LEMMA InitIInv == Init => IInv
<1> SUFFICES ASSUME Init PROVE IInv
  OBVIOUS
<1>1. stdin \in Seq(Lines) /\ stdout \in Seq(Responses)
  BY DEF Init
<1>2. pos \in 0..Len(stdin)
  BY DEF Init
<1>3. /\ phase \in Phases /\ closed \in BOOLEAN /\ connected \in BOOLEAN
      /\ outClosed \in BOOLEAN /\ unflushed \in BOOLEAN
  BY DEF Init, Phases
<1>4. WaitingWellFormed
  BY DEF Init, WaitingWellFormed
<1>5. QED
  BY <1>1, <1>2, <1>3, <1>4 DEF IInv, TypeOK

(* The next line, while there is one, is a typed line.                     *)
LEMMA NextLineTyped ==
  ASSUME TypeOK, pos < Len(stdin)
  PROVE  /\ NextLine \in Line
         /\ pos + 1 \in 1..Len(stdin)
<1>1. pos + 1 \in 1..Len(stdin)
  BY DEF TypeOK
<1>2. QED
  BY <1>1, LinesTyped DEF TypeOK, NextLine

(* print(..., flush=True) either delivers the response or buffers it.  *)
LEMMA PrintCases ==
  ASSUME NEW resp, PrintResponse(resp)
  PROVE  \/ ~outClosed /\ stdout' = Append(stdout, resp) /\ UNCHANGED unflushed
         \/ outClosed /\ UNCHANGED stdout /\ unflushed' = TRUE
  BY DEF PrintResponse

LEMMA PrintTyped ==
  ASSUME TypeOK, NEW resp \in Responses, PrintResponse(resp)
  PROVE  stdout' \in Seq(Responses) /\ unflushed' \in BOOLEAN
<1>1. CASE ~outClosed
  <2>1. stdout' = Append(stdout, resp) /\ UNCHANGED unflushed
    BY <1>1 DEF PrintResponse
  <2>2. QED
    BY <2>1 DEF TypeOK
<1>2. CASE outClosed
  BY <1>2 DEF PrintResponse, TypeOK
<1>3. QED
  BY <1>1, <1>2

(* Each step of the bridge, the client or SIGINT keeps IInv.              *)
LEMMA NextIInv == IInv /\ [Next]_vars => IInv'
<1> SUFFICES ASSUME IInv, [Next]_vars PROVE IInv'
  OBVIOUS
<1>0. TypeOK /\ WaitingWellFormed
  BY DEF IInv
<1> USE DEF IInv
<1>1. ASSUME NEW l \in Input, Send(l) PROVE IInv'
  <2>1. l \in Lines
    BY InputAssumption
  <2>2. TypeOK'
    BY <1>1, <2>1 DEF Send, TypeOK
  <2>3. WaitingWellFormed'
    BY <1>1 DEF Send, TypeOK, WaitingWellFormed, IsRequestLine,
              RaisesBeforeCall
  <2>4. QED
    BY <2>2, <2>3
<1>2. CASE Close \/ Hangup
  BY <1>2 DEF Close, Hangup, TypeOK, WaitingWellFormed
<1>3. ASSUME NEW r \in StatusReplies, CheckServerConnection(r) PROVE IInv'
  BY <1>3 DEF CheckServerConnection, TypeOK, WaitingWellFormed, Phases
<1>4. CASE ReadEOF
  BY <1>4 DEF ReadEOF, TypeOK, WaitingWellFormed, Phases
<1>5. CASE Consume
  BY <1>5 DEF Consume, TypeOK, WaitingWellFormed
<1>6. CASE UnknownMethod
  <2>1. NextLine \in Line /\ pos + 1 \in 1..Len(stdin)
    BY <1>0, <1>6, NextLineTyped DEF UnknownMethod
  <2>2. MethodNotFound(NextLine, pos + 1) \in Responses
    <3>1. MethodNotFoundError \in [code: {-32603, -32601}, message: Messages]
      BY DEF MethodNotFoundError, ErrorObject, Messages
    <3>2. NextLine.id \in IdVals /\ NoUpstream \in Replies \cup {NoUpstream}
      BY <2>1 DEF Line
    <3>3. pos + 1 \in Nat \ {0}
      BY <2>1, <1>0 DEF TypeOK
    <3>4. QED
      BY <3>1, <3>2, <3>3 DEF MethodNotFound, Responses, ErrorResponses
  <2>3. TypeOK'
    BY <1>0, <1>6, <2>1, <2>2, PrintTyped DEF UnknownMethod, TypeOK
  <2>4. WaitingWellFormed'
    BY <1>6 DEF UnknownMethod, WaitingWellFormed
  <2>5. QED
    BY <2>3, <2>4
<1>7. CASE CallServer
  <2>1. pos + 1 \in 1..Len(stdin)
    BY <1>0, <1>7, NextLineTyped DEF CallServer
  <2>2. TypeOK'
    BY <1>7, <2>1 DEF CallServer, TypeOK, Phases
  <2>3. WaitingWellFormed'
    BY <1>7, <2>1 DEF CallServer, WaitingWellFormed, NextLine
  <2>4. QED
    BY <2>2, <2>3
<1>8. ASSUME phase = "waiting", NEW r \in UpstreamReplies, CompleteCall(r)
      PROVE  IInv'
  <2>1. HandlerResponse(r) \in Responses
    BY <1>8, HandlerResponseTyped DEF CompleteCall
  <2>2. TypeOK'
    BY <1>0, <1>8, <2>1, PrintTyped DEF CompleteCall, TypeOK, Phases
  <2>3. WaitingWellFormed'
    BY <1>8 DEF CompleteCall, WaitingWellFormed
  <2>4. QED
    BY <2>2, <2>3
<1>9. ASSUME NEW r, HandlerFault(r) PROVE IInv'
  BY <1>9 DEF HandlerFault, TypeOK, WaitingWellFormed, Phases
<1>10. CASE Interrupt
  BY <1>10 DEF Interrupt, TypeOK, WaitingWellFormed, Phases
<1>11. CASE UNCHANGED vars
  BY <1>11 DEF vars, TypeOK, WaitingWellFormed
<1>12. QED
  <2>1. SkipEmptyLine \/ DropMalformedLine \/ DropRaisingLine
          \/ HandleNotification => Consume
    BY DEF SkipEmptyLine, DropMalformedLine, DropRaisingLine,
           HandleNotification
  <2>2. QED
    BY <1>1, <1>2, <1>3, <1>4, <1>5, <1>6, <1>7, <1>8, <1>9, <1>10, <1>11,
       <2>1 DEF Next, Client, BridgeStep

(* The type invariant: every state of the bridge is well typed.            *)
THEOREM TypeCorrect == Spec => []TypeOK
<1>1. Init => IInv
  BY InitIInv
<1>2. IInv /\ [Next]_vars => IInv'
  BY NextIInv
<1>3. IInv => TypeOK
  BY DEF IInv
<1>4. QED
  BY <1>1, <1>2, <1>3, PTL DEF Spec

-----------------------------------------------------------------------------
(* Replies are paired with requests.                                       *)
(***************************************************************************)
(* A handler's response answers the pending line and echoes its id.        *)
LEMMA HandlerResponseFields ==
  ASSUME IInv, phase = "waiting", NEW r
  PROVE  /\ HandlerResponse(r).line = pos
         /\ HandlerResponse(r).id = Pending.id
<1>1. Pending.method \in HttpMethods
  BY PendingTyped
<1>2. /\ \A m : ErrorResponse(r, m).line = pos /\ ErrorResponse(r, m).id = Pending.id
      /\ \A x : ResultResponse(r, x).line = pos /\ ResultResponse(r, x).id = Pending.id
  BY DEF ErrorResponse, ResultResponse
<1>3. QED
  BY <1>1, <1>2 DEF HandlerResponse, HttpMethods

(* The strengthening: IInv, the pairing itself, and no response yet for    *)
(* the line being handled.                                                 *)
RInv == IInv /\ RepliesMatchRequests /\ WaitingUnanswered

LEMMA InitRInv == Init => RInv
  BY InitIInv DEF Init, RInv, RepliesMatchRequests, WaitingUnanswered

LEMMA NextRInv == RInv /\ [Next]_vars => RInv'
<1> SUFFICES ASSUME RInv, [Next]_vars PROVE RInv'
  OBVIOUS
<1>0. /\ IInv /\ IInv' /\ TypeOK /\ WaitingWellFormed
      /\ RepliesMatchRequests /\ WaitingUnanswered
  BY NextIInv DEF RInv, IInv
<1>1. ASSUME NEW l \in Input, Send(l) PROVE RInv'
  <2>1. /\ Len(stdin') = Len(stdin) + 1
        /\ \A i \in 1..Len(stdin) : stdin'[i] = stdin[i]
    BY <1>0, <1>1 DEF Send, TypeOK
  <2>2. pos \in 0..Len(stdin)
    BY <1>0 DEF TypeOK
  <2>3. UNCHANGED <<pos, stdout>>
    BY <1>1 DEF Send
  <2>4. \A k \in 1..Len(stdout) : stdin'[stdout[k].line] = stdin[stdout[k].line]
    <3> SUFFICES ASSUME NEW k \in 1..Len(stdout)
                 PROVE stdin'[stdout[k].line] = stdin[stdout[k].line]
      OBVIOUS
    <3>1. stdout[k].line \in 1..pos
      BY <1>0 DEF RepliesMatchRequests
    <3>2. stdout[k].line \in 1..Len(stdin)
      BY <3>1, <2>2
    <3>3. QED
      BY <3>2, <2>1
  <2>5. RepliesMatchRequests'
    BY <1>0, <2>3, <2>4 DEF RepliesMatchRequests
  <2>6. WaitingUnanswered'
    BY <1>0, <1>1 DEF Send, WaitingUnanswered
  <2>7. QED
    BY <1>0, <2>5, <2>6 DEF RInv
<1>2. CASE /\ UNCHANGED <<stdin, pos, stdout>>
           /\ (phase' # "waiting" \/ UNCHANGED phase)
  BY <1>0, <1>2 DEF RInv, RepliesMatchRequests, WaitingUnanswered
<1>3. CASE Consume
  <2>1. RepliesMatchRequests'
    BY <1>0, <1>3 DEF Consume, RepliesMatchRequests, TypeOK
  <2>2. WaitingUnanswered'
    BY <1>3 DEF Consume, WaitingUnanswered
  <2>3. QED
    BY <1>0, <2>1, <2>2 DEF RInv
<1>4. CASE UnknownMethod
  <2>1. pos + 1 \in 1..Len(stdin) /\ IsRequestLine(NextLine)
    BY <1>0, <1>4, NextLineTyped DEF UnknownMethod
  <2>2. /\ MethodNotFound(NextLine, pos + 1).line = pos + 1
        /\ MethodNotFound(NextLine, pos + 1).id = NextLine.id
    BY DEF MethodNotFound
  <2>3. stdout \in Seq(Responses)
    BY <1>0 DEF TypeOK
  <2>4. RepliesMatchRequests'
    <3> DEFINE new == MethodNotFound(NextLine, pos + 1)
    <3>0. stdin' = stdin /\ pos' = pos + 1
      BY <1>4 DEF UnknownMethod
    <3> SUFFICES ASSUME stdout' # stdout PROVE RepliesMatchRequests'
      BY <1>0, <3>0 DEF RepliesMatchRequests, TypeOK
    <3>1. /\ stdout' = Append(stdout, new)
          /\ stdin' = stdin /\ pos' = pos + 1
      BY <1>4, <3>0, PrintCases DEF UnknownMethod
    <3>2. /\ Len(stdout') = Len(stdout) + 1
          /\ \A k \in 1..Len(stdout) : stdout'[k] = stdout[k]
          /\ stdout'[Len(stdout) + 1] = new
      BY <2>3, <3>1
    <3>3. \A k \in 1..Len(stdout) : stdout[k].line \in 1..pos
      BY <1>0 DEF RepliesMatchRequests
    <3>4. HasId(stdin[pos + 1]) /\ new.id = stdin[pos + 1].id
      BY <2>1, <2>2 DEF NextLine, IsRequestLine, HasId
    <3>5. pos \in Nat
      BY <1>0 DEF TypeOK
    <3>6. QED
      BY <1>0, <2>2, <3>1, <3>2, <3>3, <3>4, <3>5 DEF RepliesMatchRequests
  <2>5. WaitingUnanswered'
    BY <1>4 DEF UnknownMethod, WaitingUnanswered
  <2>6. QED
    BY <1>0, <2>4, <2>5 DEF RInv
<1>5. CASE CallServer
  <2>1. pos + 1 \in 1..Len(stdin)
    BY <1>0, <1>5, NextLineTyped DEF CallServer
  <2>2. RepliesMatchRequests'
    BY <1>0, <1>5, <2>1 DEF CallServer, RepliesMatchRequests, TypeOK
  <2>3. WaitingUnanswered'
    BY <1>0, <1>5 DEF CallServer, WaitingUnanswered, RepliesMatchRequests,
                     TypeOK
  <2>4. QED
    BY <1>0, <2>2, <2>3 DEF RInv
<1>6. ASSUME phase = "waiting", NEW r \in UpstreamReplies, CompleteCall(r)
      PROVE  RInv'
  <2>1. /\ HandlerResponse(r).line = pos
        /\ HandlerResponse(r).id = Pending.id
    BY <1>0, <1>6, HandlerResponseFields
  <2>2. pos \in 1..Len(stdin) /\ IsRequestLine(stdin[pos])
    BY <1>0, <1>6 DEF WaitingWellFormed
  <2>3. stdout \in Seq(Responses)
    BY <1>0 DEF TypeOK
  <2>4. RepliesMatchRequests'
    <3>1. CASE UNCHANGED stdout
      BY <1>0, <1>6, <3>1 DEF CompleteCall, RepliesMatchRequests
    <3>2. CASE stdout' = Append(stdout, HandlerResponse(r))
      BY <1>0, <1>6, <2>1, <2>2, <2>3, <3>2
         DEF CompleteCall, RepliesMatchRequests, WaitingUnanswered, Pending,
             IsRequestLine, HasId
    <3>3. QED
      BY <1>6, <3>1, <3>2, PrintCases DEF CompleteCall
  <2>5. WaitingUnanswered'
    BY <1>6 DEF CompleteCall, WaitingUnanswered
  <2>6. QED
    BY <1>0, <2>4, <2>5 DEF RInv
<1>7. QED
  <2>1. ASSUME NEW r \in StatusReplies, CheckServerConnection(r)
        PROVE  UNCHANGED <<stdin, pos, stdout>> /\ phase' # "waiting"
    BY <2>1 DEF CheckServerConnection
  <2>2. ASSUME NEW r, HandlerFault(r)
        PROVE  UNCHANGED <<stdin, pos, stdout>> /\ phase' # "waiting"
    BY <2>2 DEF HandlerFault
  <2>3. Close \/ Hangup \/ ReadEOF \/ Interrupt \/ UNCHANGED vars
          => /\ UNCHANGED <<stdin, pos, stdout>>
             /\ (phase' # "waiting" \/ UNCHANGED phase)
    BY DEF Close, Hangup, ReadEOF, Interrupt, vars
  <2>4. SkipEmptyLine \/ DropMalformedLine \/ DropRaisingLine
          \/ HandleNotification => Consume
    BY DEF SkipEmptyLine, DropMalformedLine, DropRaisingLine,
           HandleNotification
  <2>5. QED
    BY <1>1, <1>2, <1>3, <1>4, <1>5, <1>6, <2>1, <2>2, <2>3, <2>4
       DEF Next, Client, BridgeStep

(* Every response answers a request already read, echoes its id, and the   *)
(* responses follow the order of the requests, one per request at most.    *)
THEOREM RepliesPaired == Spec => []RepliesMatchRequests
<1>1. Init => RInv
  BY InitRInv
<1>2. RInv /\ [Next]_vars => RInv'
  BY NextRInv
<1>3. RInv => RepliesMatchRequests
  BY DEF RInv
<1>4. QED
  BY <1>1, <1>2, <1>3, PTL DEF Spec

=============================================================================
