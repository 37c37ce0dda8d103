---------------------------- MODULE PluginProofs ----------------------------
(***************************************************************************)
(* Proofs about PluginBridge, for every value of the constants: its type   *)
(* invariant, and that it implements the safety part of Dispatcher.        *)
(***************************************************************************)
EXTENDS PluginBridge, BridgeDataLemmas, TLAPS

(* While main waits on the server, the line it read is a routed request    *)
(* that got past params.get.                                               *)
WaitingWellFormed ==
  phase = "waiting" =>
    /\ pos \in 1..Len(stdin)
    /\ IsRequestLine(stdin[pos])
    /\ stdin[pos].method \in HttpMethods
    /\ stdin[pos].method = "tools/call" => stdin[pos].params.isObject

(* Every response answers a line already read.                             *)
RepliesRead == \A k \in 1..Len(stdout) : stdout[k].line \in 1..pos

(* No response yet for the line main waits on.                             *)
WaitingUnanswered ==
  phase = "waiting" => \A k \in 1..Len(stdout) : stdout[k].line < pos

IInv == TypeOK /\ WaitingWellFormed /\ RepliesRead /\ WaitingUnanswered

-----------------------------------------------------------------------------
(* What the handlers return.                                               *)
(***************************************************************************)
LEMMA PendingTyped ==
  ASSUME IInv, phase = "waiting"
  PROVE  /\ pos \in Nat \ {0}
         /\ Pending \in Line
         /\ Pending.id \in IdVals
         /\ Pending.method \in HttpMethods
         /\ Pending.method = "tools/call" => Pending.params.isObject
<1>1. pos \in 1..Len(stdin) /\ stdin \in Seq(Lines)
  BY DEF IInv, TypeOK, WaitingWellFormed
<1>2. Pending \in Line
  BY <1>1, LinesTyped DEF Pending
<1>3. QED
  BY <1>1, <1>2 DEF Line, IInv, WaitingWellFormed, Pending

(* The capability fix keeps a capabilities value of its shape.             *)
LEMMA FixedCapsTyped ==
  ASSUME NEW c \in CapVals
  PROVE  FixedCaps(c) \in CapVals
  BY DEF FixedCaps, CapVals, Flags, Truthy

LEMMA InitializeResultTyped ==
  ASSUME NEW r \in InitReplies
  PROVE  InitializeResult(r) \in Results \cup PluginInitResults \cup {NonObjectReply}
<1>1. CASE ~IsObject(r)
  BY <1>1 DEF InitializeResult, InitReplies, IsObject, ErrorReply,
              NonObjectReply
<1>2. CASE IsObject(r) /\ IsError(r)
  <2>1. NoCaps \in CapVals
    BY DEF NoCaps, CapVals
  <2>2. QED
    BY <1>2, <2>1 DEF InitializeResult, PluginInitResults
<1>3. CASE IsObject(r) /\ ~IsError(r)
  <2>1. r.caps \in CapVals
    BY <1>3, ObjectReplies
  <2>2. FixedCaps(r.caps) \in CapVals
    BY <2>1, FixedCapsTyped
  <2>3. QED
    BY <1>3, <2>2 DEF InitializeResult, PluginInitResults
<1>4. QED
  BY <1>1, <1>2, <1>3

(* The result of the tools/call branch is a list of MCP content blocks.    *)
LEMMA ToolCallResultTyped ==
  ASSUME NEW r \in CallReplies, IsObject(r)
  PROVE  ToolCallResult(r) \in [content: Seq(Blocks)]
<1> DEFINE c == Content(r)
<1>1. c \in ContentVals
  <2>1. CASE IsError(r)
    BY <2>1 DEF Content, ContentVals
  <2>2. CASE ~IsError(r)
    <3>1. r \in [content: ContentVals]
      BY <2>2, ObjectReplies
    <3>2. QED
      BY <2>2, <3>1 DEF Content, ContentVals
  <2>3. QED
    BY <2>1, <2>2
<1>2. MimeSubtype(c) \in Formats \cup {"None"}
  BY <1>1 DEF MimeSubtype, ContentVals, Formats
<1>3. /\ [type |-> "image", data |-> c, mimeType |-> MimeSubtype(c)] \in Blocks
      /\ \A conv \in {"str", "json", "repr", "summary"} :
            [type |-> "text", text |-> [conv |-> conv, of |-> c]] \in Blocks
  BY <1>1, <1>2 DEF Blocks, Texts
<1>4. QED
  BY <1>3 DEF ToolCallResult

(* Every response the handlers print is a well-typed response.            *)
LEMMA HandlerResponseTyped ==
  ASSUME IInv, phase = "waiting",
         NEW r \in UpstreamReplies, ~HandlerRaises(r)
  PROVE  HandlerResponse(r) \in PluginResponses
<1>1. /\ pos \in Nat \ {0}
      /\ Pending.id \in IdVals
      /\ Pending.method \in HttpMethods
  BY PendingTyped
<1>2. r \in Replies
  BY <1>1 DEF UpstreamReplies, HttpMethods, Replies
<1>3. ASSUME NEW res \in Results \cup PluginInitResults \cup {NonObjectReply}
      PROVE  ResultResponse(r, res) \in PluginResponses
  BY <1>1, <1>2 DEF ResultResponse, PluginResponses
<1>4. CASE Pending.method = "initialize"
  <2>1. r \in InitReplies
    BY <1>4 DEF UpstreamReplies
  <2>2. QED
    BY <1>3, <1>4, <2>1, InitializeResultTyped DEF HandlerResponse
<1>5. CASE Pending.method = "tools/list"
  <2>1. r \in ListReplies /\ IsObject(r)
    BY <1>5 DEF UpstreamReplies, HandlerRaises
  <2>2. CASE IsError(r)
    <3>1. InternalError \in [code: {-32603, -32601}, message: Messages]
      BY DEF InternalError, ErrorObject, Messages
    <3>2. ListError(r) \in ErrorResponses
      BY <1>1, <1>2, <3>1 DEF ListError, ErrorResponses
    <3>3. QED
      BY <1>5, <2>2, <3>2 DEF HandlerResponse, PluginResponses
  <2>3. CASE ~IsError(r)
    BY <1>3, <1>5, <2>1, <2>3 DEF HandlerResponse, Results
  <2>4. QED
    BY <2>2, <2>3
<1>6. CASE Pending.method = "tools/call"
  <2>1. r \in CallReplies /\ IsObject(r)
    BY <1>6 DEF UpstreamReplies, HandlerRaises
  <2>2. ToolCallResult(r) \in Results
    BY <2>1, ToolCallResultTyped DEF Results
  <2>3. QED
    BY <1>3, <1>6, <2>2 DEF HandlerResponse
<1>7. QED
  BY <1>1, <1>4, <1>5, <1>6 DEF HttpMethods

(* A handler's response answers the pending line and echoes its id.        *)
LEMMA HandlerResponseFields ==
  ASSUME IInv, phase = "waiting", NEW r
  PROVE  /\ HandlerResponse(r).line = pos
         /\ HandlerResponse(r).id = Pending.id
<1>1. Pending.method \in HttpMethods
  BY PendingTyped
<1>2. /\ ListError(r).line = pos /\ ListError(r).id = Pending.id
      /\ \A x : ResultResponse(r, x).line = pos /\ ResultResponse(r, x).id = Pending.id
  BY DEF ListError, ResultResponse
<1>3. QED
  BY <1>1, <1>2 DEF HandlerResponse, HttpMethods

-----------------------------------------------------------------------------
(* The inductive invariant.                                                *)
(***************************************************************************)
LEMMA InitIInv == Init => IInv
<1> SUFFICES ASSUME Init PROVE IInv
  OBVIOUS
<1>1. stdin \in Seq(Lines) /\ stdout \in Seq(PluginResponses)
  BY DEF Init
<1>2. pos \in 0..Len(stdin)
  <2>1. pos = 0 /\ stdin = <<>>
    BY DEF Init
  <2>2. QED
    BY <2>1
<1>5. phase \in Phases /\ closed \in BOOLEAN
  BY DEF Init, Phases
<1>3. WaitingWellFormed /\ RepliesRead /\ WaitingUnanswered
  BY DEF Init, WaitingWellFormed, RepliesRead, WaitingUnanswered
<1>4. QED
  BY <1>1, <1>2, <1>3, <1>5 DEF IInv, TypeOK

LEMMA NextLineTyped ==
  ASSUME TypeOK, pos < Len(stdin)
  PROVE  /\ NextLine \in Line
         /\ pos + 1 \in 1..Len(stdin)
<1>1. pos + 1 \in 1..Len(stdin)
  BY DEF TypeOK
<1>2. QED
  BY <1>1, LinesTyped DEF TypeOK, NextLine

(* Steps that change neither stdout nor pos, and do not start a wait.      *)
LEMMA QuietStep ==
  ASSUME IInv, TypeOK', UNCHANGED <<stdin, pos, stdout>>,
         phase' # "waiting"
  PROVE  IInv'
  BY DEF IInv, WaitingWellFormed, RepliesRead, WaitingUnanswered

LEMMA NextIInv == IInv /\ [Next]_vars => IInv'
<1> SUFFICES ASSUME IInv, [Next]_vars PROVE IInv'
  OBVIOUS
<1>0. /\ TypeOK /\ WaitingWellFormed /\ RepliesRead /\ WaitingUnanswered
      /\ pos \in Nat /\ stdout \in Seq(PluginResponses)
  BY DEF IInv, TypeOK
<1>1. ASSUME NEW l \in Input, Send(l) PROVE IInv'
  <2>1. l \in Lines
    BY PluginInputAssumption
  <2>2. TypeOK'
    BY <1>0, <1>1, <2>1 DEF Send, TypeOK
  <2>3. WaitingWellFormed'
    BY <1>0, <1>1 DEF Send, TypeOK, WaitingWellFormed
  <2>4. QED
    BY <1>0, <1>1, <2>2, <2>3 DEF Send, IInv, RepliesRead, WaitingUnanswered
<1>2. CASE Close
  BY <1>0, <1>2 DEF Close, IInv, TypeOK, WaitingWellFormed, RepliesRead,
                    WaitingUnanswered
<1>3. ASSUME NEW r \in StatusReplies, CheckServer(r) PROVE IInv'
  <2>1. TypeOK' /\ phase' # "waiting"
    BY <1>0, <1>3 DEF CheckServer, TypeOK, Phases
  <2>2. QED
    BY <1>3, <2>1, QuietStep DEF CheckServer
<1>4. CASE ReadEOF \/ Interrupt
  <2>1. TypeOK' /\ phase' # "waiting" /\ UNCHANGED <<stdin, pos, stdout>>
    BY <1>0, <1>4 DEF ReadEOF, Interrupt, TypeOK, Phases
  <2>2. QED
    BY <2>1, QuietStep
<1>5. CASE Consume
  <2>1. TypeOK'
    BY <1>0, <1>5 DEF Consume, TypeOK
  <2>2. RepliesRead'
    BY <1>0, <1>5 DEF Consume, RepliesRead
  <2>3. QED
    BY <1>5, <2>1, <2>2 DEF Consume, IInv, WaitingWellFormed,
                            WaitingUnanswered
<1>6. CASE UnknownMethod
  <2>1. NextLine \in Line /\ pos + 1 \in 1..Len(stdin)
    BY <1>0, <1>6, NextLineTyped DEF UnknownMethod
  <2> DEFINE new == MethodNotFound(NextLine, pos + 1)
  <2>2. new \in PluginResponses /\ new.line = pos + 1
    <3>1. MethodNotFoundError \in [code: {-32603, -32601}, message: Messages]
      BY DEF MethodNotFoundError, ErrorObject, Messages
    <3>2. NextLine.id \in IdVals /\ NoUpstream \in Replies \cup {NoUpstream}
      BY <2>1 DEF Line
    <3>3. pos + 1 \in Nat \ {0}
      BY <1>0
    <3>4. new \in ErrorResponses
      BY <3>1, <3>2, <3>3 DEF MethodNotFound, ErrorResponses
    <3>5. QED
      BY <3>4 DEF MethodNotFound, PluginResponses
  <2>3. /\ stdout' = Append(stdout, new)
        /\ UNCHANGED <<stdin, closed, phase>> /\ pos' = pos + 1
    BY <1>6 DEF UnknownMethod
  <2>4. TypeOK'
    BY <1>0, <2>1, <2>2, <2>3 DEF TypeOK
  <2>5. RepliesRead'
    <3>1. /\ Len(stdout') = Len(stdout) + 1
          /\ \A k \in 1..Len(stdout) : stdout'[k] = stdout[k]
          /\ stdout'[Len(stdout) + 1] = new
      BY <1>0, <2>3
    <3>2. QED
      BY <1>0, <2>2, <2>3, <3>1 DEF RepliesRead
  <2>6. QED
    BY <1>6, <2>4, <2>5 DEF UnknownMethod, IInv, WaitingWellFormed,
                            WaitingUnanswered
<1>7. CASE CallServer
  <2>1. pos + 1 \in 1..Len(stdin)
    BY <1>0, <1>7, NextLineTyped DEF CallServer
  <2>2. TypeOK'
    BY <1>0, <1>7, <2>1 DEF CallServer, TypeOK, Phases
  <2>3. WaitingWellFormed'
    BY <1>7, <2>1 DEF CallServer, WaitingWellFormed, NextLine
  <2>4. RepliesRead' /\ WaitingUnanswered'
    BY <1>0, <1>7 DEF CallServer, RepliesRead, WaitingUnanswered
  <2>5. QED
    BY <2>2, <2>3, <2>4 DEF IInv
<1>8. ASSUME phase = "waiting", NEW r \in UpstreamReplies, CompleteCall(r)
      PROVE  IInv'
  <2>1. /\ HandlerResponse(r) \in PluginResponses
        /\ HandlerResponse(r).line = pos
    BY <1>8, HandlerResponseTyped, HandlerResponseFields DEF CompleteCall
  <2>2. /\ stdout' = Append(stdout, HandlerResponse(r))
        /\ phase' = "idle" /\ UNCHANGED <<stdin, closed, pos>>
    BY <1>8 DEF CompleteCall
  <2>3. TypeOK'
    BY <1>0, <2>1, <2>2 DEF TypeOK, Phases
  <2>4. pos \in 1..Len(stdin)
    BY <1>0, <1>8 DEF WaitingWellFormed
  <2>5. RepliesRead'
    <3>1. /\ Len(stdout') = Len(stdout) + 1
          /\ \A k \in 1..Len(stdout) : stdout'[k] = stdout[k]
          /\ stdout'[Len(stdout) + 1] = HandlerResponse(r)
      BY <1>0, <2>2
    <3>2. QED
      BY <1>0, <2>1, <2>2, <2>4, <3>1 DEF RepliesRead
  <2>6. QED
    BY <2>2, <2>3, <2>5 DEF IInv, WaitingWellFormed, WaitingUnanswered
<1>9. ASSUME NEW r, HandlerFault(r) PROVE IInv'
  <2>1. TypeOK' /\ phase' # "waiting" /\ UNCHANGED <<stdin, pos, stdout>>
    BY <1>0, <1>9 DEF HandlerFault, TypeOK, Phases
  <2>2. QED
    BY <2>1, QuietStep
<1>10. CASE UNCHANGED vars
  BY <1>10 DEF vars, IInv, TypeOK, WaitingWellFormed, RepliesRead,
               WaitingUnanswered
<1>11. QED
  <2>1. DropRaisingLine \/ HandleNotification => Consume
    BY DEF DropRaisingLine, HandleNotification
  <2>2. QED
    BY <1>1, <1>2, <1>3, <1>4, <1>5, <1>6, <1>7, <1>8, <1>9, <1>10, <2>1
       DEF Next, Client, LocalStep, ServerAnswers

(* The type invariant: every state of the plugin bridge is well typed,     *)
(* including the results it passes through from the server.                *)
THEOREM PluginTypeCorrect == Spec => []TypeOK
<1>1. Init => IInv
  BY InitIInv
<1>2. IInv /\ [Next]_vars => IInv'
  BY NextIInv
<1>3. IInv => TypeOK
  BY DEF IInv
<1>4. QED
  BY <1>1, <1>2, <1>3, PTL DEF Spec

-----------------------------------------------------------------------------
(* The plugin bridge implements the safety part of Dispatcher.             *)
(***************************************************************************)
Ans(s) == [k \in 1..Len(s) |-> [line |-> s[k].line, id |-> s[k].id]]

LEMMA AnsAppend ==
  ASSUME NEW s \in Seq(PluginResponses), NEW e
  PROVE  Ans(Append(s, e)) = Append(Ans(s), [line |-> e.line, id |-> e.id])
  BY DEF Ans

LEMMA AnsweredIsAns == AnsweredLines = Ans(stdout) /\ AnsweredLines' = Ans(stdout')
  BY DEF AnsweredLines, Ans

LEMMA NextRefines ==
  IInv /\ [Next]_vars => [Abstract!Next]_Abstract!vars
<1> SUFFICES ASSUME IInv, [Next]_vars
             PROVE  [Abstract!Next]_Abstract!vars
  OBVIOUS
<1>0. /\ TypeOK /\ WaitingWellFormed /\ WaitingUnanswered
      /\ stdout \in Seq(PluginResponses)
  BY DEF IInv, TypeOK
<1>1. ASSUME UNCHANGED <<stdin, closed, pos, stdout>>,
             (phase \in {"stopped", "exited"}) = (phase' \in {"stopped", "exited"})
      PROVE  [Abstract!Next]_Abstract!vars
  BY <1>1 DEF Abstract!vars, AnsweredLines
<1>2. ASSUME UNCHANGED <<stdin, closed, pos, stdout>>,
             phase \in {"connecting", "idle", "waiting"},
             phase' \in {"stopped", "exited"}
      PROVE  Abstract!Stop
  BY <1>2 DEF Abstract!Stop, AnsweredLines
<1>3. ASSUME NEW l \in Input, Send(l) PROVE Abstract!Next
  <2>1. Abstract!Send(l)
    BY <1>3 DEF Send, Abstract!Send, AnsweredLines
  <2>2. QED
    BY <2>1 DEF Abstract!Next
<1>4. ASSUME Close PROVE Abstract!Next
  <2>1. Abstract!Close
    BY <1>4 DEF Close, Abstract!Close, AnsweredLines
  <2>2. QED
    BY <2>1 DEF Abstract!Next
<1>5. ASSUME Consume \/ CallServer PROVE Abstract!Next
  <2>1. /\ phase = "idle" /\ pos < Len(stdin) /\ pos' = pos + 1
        /\ UNCHANGED <<stdin, closed, stdout>>
        /\ phase' \in {"idle", "waiting"}
    BY <1>5 DEF Consume, CallServer
  <2>2. Abstract!Read
    BY <2>1 DEF Abstract!Read, AnsweredLines
  <2>3. QED
    BY <2>2 DEF Abstract!Next
<1>6. ASSUME UnknownMethod PROVE Abstract!Next
  <2>1. /\ phase = "idle" /\ pos < Len(stdin) /\ pos' = pos + 1
        /\ UNCHANGED <<stdin, closed, phase>>
        /\ IsRequestLine(stdin[pos + 1])
        /\ stdout' = Append(stdout, MethodNotFound(NextLine, pos + 1))
    BY <1>6 DEF UnknownMethod, NextLine
  <2>2. /\ MethodNotFound(NextLine, pos + 1).line = pos + 1
        /\ MethodNotFound(NextLine, pos + 1).id = stdin[pos + 1].id
    BY DEF MethodNotFound, NextLine
  <2>3. AnsweredLines' = Append(AnsweredLines, Abstract!Reply(pos + 1))
    BY <1>0, <2>1, <2>2, AnsAppend, AnsweredIsAns DEF Abstract!Reply
  <2>4. Abstract!IsRequest(stdin[pos + 1])
    BY <2>1 DEF IsRequestLine, Abstract!IsRequest
  <2>5. Abstract!Read
    BY <2>1, <2>3, <2>4 DEF Abstract!Read
  <2>6. QED
    BY <2>5 DEF Abstract!Next
<1>7. ASSUME phase = "waiting", NEW r, CompleteCall(r) PROVE Abstract!Next
  <2>1. /\ HandlerResponse(r).line = pos
        /\ HandlerResponse(r).id = stdin[pos].id
    BY <1>7, HandlerResponseFields DEF Pending
  <2>2. /\ stdout' = Append(stdout, HandlerResponse(r))
        /\ phase' = "idle"
        /\ UNCHANGED <<stdin, closed, pos>>
    BY <1>7 DEF CompleteCall
  <2>3. AnsweredLines' = Append(AnsweredLines, Abstract!Reply(pos))
    BY <1>0, <2>1, <2>2, AnsAppend, AnsweredIsAns DEF Abstract!Reply
  <2>4. /\ pos \in 1..Len(stdin)
        /\ Abstract!IsRequest(stdin[pos])
    BY <1>0, <1>7 DEF WaitingWellFormed, IsRequestLine, Abstract!IsRequest
  <2>5. \A k \in 1..Len(AnsweredLines) : AnsweredLines[k].line < pos
    BY <1>0, <1>7 DEF WaitingUnanswered, AnsweredLines
  <2>6. Abstract!Answer
    BY <1>7, <2>2, <2>3, <2>4, <2>5 DEF Abstract!Answer
  <2>7. QED
    BY <2>6 DEF Abstract!Next
<1>8. QED
  <2>1. ASSUME NEW r \in StatusReplies, CheckServer(r)
        PROVE  [Abstract!Next]_Abstract!vars
    <3>1. UNCHANGED <<stdin, closed, pos, stdout>> /\ phase = "connecting"
          /\ phase' \in {"idle", "exited"}
      BY <2>1 DEF CheckServer
    <3>2. QED
      BY <3>1, <1>1, <1>2 DEF Abstract!Next
  <2>2. ASSUME NEW r, HandlerFault(r) PROVE [Abstract!Next]_Abstract!vars
    <3>1. UNCHANGED <<stdin, closed, pos, stdout>> /\ phase = "waiting"
          /\ phase' = "idle"
      BY <2>2 DEF HandlerFault
    <3>2. QED
      BY <3>1, <1>1
  <2>3. ASSUME ReadEOF \/ Interrupt PROVE [Abstract!Next]_Abstract!vars
    <3>1. UNCHANGED <<stdin, closed, pos, stdout>>
          /\ phase \in {"connecting", "idle", "waiting"}
          /\ phase' \in {"stopped", "exited"}
      BY <2>3 DEF ReadEOF, Interrupt
    <3>2. QED
      BY <3>1, <1>2 DEF Abstract!Next
  <2>4. ASSUME UNCHANGED vars PROVE [Abstract!Next]_Abstract!vars
    BY <2>4, <1>1 DEF vars
  <2>5. DropRaisingLine \/ HandleNotification => Consume
    BY DEF DropRaisingLine, HandleNotification
  <2>6. QED
    BY <1>3, <1>4, <1>5, <1>6, <1>7, <2>1, <2>2, <2>3, <2>4, <2>5
       DEF Next, Client, LocalStep, ServerAnswers

(* The plugin bridge reads each line once in order and answers only the    *)
(* request read last, once, with its id (PluginDispatcherSafety).          *)
THEOREM PluginRefinesDispatcher == Spec => PluginDispatcherSafety
<1>1. Init => Abstract!Init
  <2> SUFFICES ASSUME Init PROVE Abstract!Init
    OBVIOUS
  <2>1. AnsweredLines = <<>>
    BY DEF Init, AnsweredLines
  <2>2. QED
    BY <2>1 DEF Init, Abstract!Init
<1>2. Spec => []IInv
  BY InitIInv, NextIInv, PTL DEF Spec
<1>3. QED
  BY <1>1, <1>2, NextRefines, PTL DEF Spec, PluginDispatcherSafety,
     Abstract!Safety
-----------------------------------------------------------------------------
(* The error codes.                                                        *)
(***************************************************************************)
(* PluginErrorsClassified for one response s to the line l.                *)
Classified(s, l) ==
  /\ IsErrorResponse(s) <=>
       (s.up = NoUpstream \/ (l.method = "tools/list" /\ IsError(s.up)))
  /\ IsErrorResponse(s) =>
       s.error.code = IF s.up = NoUpstream THEN -32601 ELSE -32603
  /\ (s.up = NoUpstream) <=> (l.method = "unknown")

(* The JSON-RPC codes of the two error objects.                            *)
LEMMA PluginErrorCodes ==
  /\ InternalError.code = -32603
  /\ MethodNotFoundError.code = -32601
  BY DEF ErrorObject, InternalError, MethodNotFoundError

(* A handler's response is an error exactly for a failed tools/list, with  *)
(* -32603, and carries the server's reply.                                 *)
LEMMA HandlerResponseClassified ==
  ASSUME IInv, phase = "waiting", NEW r \in UpstreamReplies
  PROVE  Classified(HandlerResponse(r), Pending)
<1>1. Pending.method \in HttpMethods
  BY PendingTyped
<1>2. r \in Replies /\ r # NoUpstream
  BY <1>1, NoUpstreamNotReply DEF UpstreamReplies, HttpMethods, Replies
<1>3. /\ ListError(r).up = r
      /\ IsErrorResponse(ListError(r))
      /\ ListError(r).error.code = -32603
  BY PluginErrorCodes DEF ListError, IsErrorResponse
<1>4. ASSUME NEW x
      PROVE  /\ ResultResponse(r, x).up = r
             /\ ~IsErrorResponse(ResultResponse(r, x))
  BY DEF ResultResponse, IsErrorResponse
<1>5. CASE Pending.method = "tools/list" /\ IsError(r)
  <2>1. HandlerResponse(r) = ListError(r)
    BY <1>5 DEF HandlerResponse
  <2>2. QED
    BY <1>2, <1>3, <1>5, <2>1 DEF Classified
<1>6. CASE ~(Pending.method = "tools/list" /\ IsError(r))
  <2>1. \E x : HandlerResponse(r) = ResultResponse(r, x)
    BY <1>1, <1>6 DEF HandlerResponse, HttpMethods
  <2>2. QED
    BY <1>1, <1>2, <1>4, <1>6, <2>1 DEF Classified, HttpMethods
<1>7. QED
  BY <1>5, <1>6

LEMMA ClassifiedDef ==
  PluginErrorsClassified
    <=> \A k \in 1..Len(stdout) : Classified(stdout[k], stdin[stdout[k].line])
  BY DEF PluginErrorsClassified, Classified

CInv == IInv /\ PluginErrorsClassified

LEMMA NextCInv == CInv /\ [Next]_vars => CInv'
<1> SUFFICES ASSUME CInv, [Next]_vars PROVE CInv'
  OBVIOUS
<1>a. IInv /\ PluginErrorsClassified
  BY DEF CInv
<1>b. IInv'
  BY <1>a, NextIInv
<1>0. /\ TypeOK /\ RepliesRead
      /\ stdout \in Seq(PluginResponses) /\ pos \in 0..Len(stdin)
      /\ \A k \in 1..Len(stdout) : Classified(stdout[k], stdin[stdout[k].line])
  BY <1>a, ClassifiedDef DEF IInv, TypeOK
<1>1. \A k \in 1..Len(stdout) : stdout[k].line \in 1..Len(stdin)
  BY <1>0 DEF RepliesRead
(* Steps that keep every old line of stdin and every old response.         *)
<1>2. ASSUME /\ \A i \in 1..Len(stdin) : stdin'[i] = stdin[i]
             /\ Len(stdout') \in {Len(stdout), Len(stdout) + 1}
             /\ \A k \in 1..Len(stdout) : stdout'[k] = stdout[k]
             /\ Len(stdout') = Len(stdout) + 1 =>
                  Classified(stdout'[Len(stdout) + 1],
                             stdin'[stdout'[Len(stdout) + 1].line])
      PROVE  CInv'
  <2>1. SUFFICES ASSUME NEW k \in 1..Len(stdout')
                 PROVE  Classified(stdout'[k], stdin'[stdout'[k].line])
    BY <1>b DEF CInv, PluginErrorsClassified, Classified
  <2>2. CASE k \in 1..Len(stdout)
    BY <1>0, <1>1, <1>2, <2>2
  <2>3. CASE k \notin 1..Len(stdout)
    <3>1. k = Len(stdout) + 1
      BY <1>0, <1>2, <2>3
    <3>2. QED
      BY <1>2, <3>1
  <2>4. QED
    BY <2>2, <2>3
<1>3. ASSUME NEW l \in Input, Send(l) PROVE CInv'
  <2>1. /\ \A i \in 1..Len(stdin) : stdin'[i] = stdin[i]
        /\ UNCHANGED stdout
    BY <1>0, <1>3 DEF Send
  <2>2. QED
    BY <1>0, <1>2, <2>1
<1>4. ASSUME UNCHANGED <<stdin, stdout>> PROVE CInv'
  BY <1>0, <1>2, <1>4
<1>5. CASE UnknownMethod
  <2> DEFINE new == MethodNotFound(NextLine, pos + 1)
  <2>1. /\ stdout' = Append(stdout, new)
        /\ UNCHANGED stdin /\ pos < Len(stdin)
        /\ NextLine.method = "unknown"
    BY <1>5 DEF UnknownMethod
  <2>2. /\ Len(stdout') = Len(stdout) + 1
        /\ \A k \in 1..Len(stdout) : stdout'[k] = stdout[k]
        /\ stdout'[Len(stdout) + 1] = new
    BY <1>0, <2>1
  <2>3. /\ new.up = NoUpstream /\ new.line = pos + 1
        /\ IsErrorResponse(new)
        /\ new.error.code = -32601
    BY PluginErrorCodes DEF MethodNotFound, IsErrorResponse
  <2>4. Classified(new, stdin[pos + 1])
    BY <2>1, <2>3 DEF Classified, NextLine
  <2>5. QED
    BY <1>0, <1>2, <2>1, <2>2, <2>3, <2>4
<1>6. ASSUME phase = "waiting", NEW r \in UpstreamReplies, CompleteCall(r)
      PROVE  CInv'
  <2>1. /\ stdout' = Append(stdout, HandlerResponse(r))
        /\ UNCHANGED stdin
    BY <1>6 DEF CompleteCall
  <2>2. /\ Len(stdout') = Len(stdout) + 1
        /\ \A k \in 1..Len(stdout) : stdout'[k] = stdout[k]
        /\ stdout'[Len(stdout) + 1] = HandlerResponse(r)
    BY <1>0, <2>1
  <2>3. /\ Classified(HandlerResponse(r), Pending)
        /\ HandlerResponse(r).line = pos
    BY <1>a, <1>6, HandlerResponseClassified, HandlerResponseFields
  <2>4. QED
    BY <1>0, <1>2, <2>1, <2>2, <2>3 DEF Pending
<1>7. QED
  <2>1. ASSUME NEW r \in StatusReplies, CheckServer(r)
        PROVE  UNCHANGED <<stdin, stdout>>
    BY <2>1 DEF CheckServer
  <2>2. ASSUME NEW r, HandlerFault(r) PROVE UNCHANGED <<stdin, stdout>>
    BY <2>2 DEF HandlerFault
  <2>3. Close \/ ReadEOF \/ Interrupt \/ Consume \/ CallServer \/ UNCHANGED vars
          => UNCHANGED <<stdin, stdout>>
    BY DEF Close, ReadEOF, Interrupt, Consume, CallServer, vars
  <2>4. DropRaisingLine \/ HandleNotification => Consume
    BY DEF DropRaisingLine, HandleNotification
  <2>5. QED
    BY <1>3, <1>4, <1>5, <1>6, <2>1, <2>2, <2>3, <2>4
       DEF Next, Client, LocalStep, ServerAnswers

(* The plugin's error responses are exactly the unrouted methods (-32601,  *)
(* no call made) and the failed tool lists (-32603): an initialize or      *)
(* tools/call failure is never reported as an error.  About the else       *)
(* branch of main and the "error" in tools_result check.                   *)
THEOREM PluginErrorsClassifiedHolds == Spec => []PluginErrorsClassified
<1>1. Init => CInv
  BY InitIInv DEF Init, CInv, PluginErrorsClassified
<1>2. CInv => PluginErrorsClassified
  BY DEF CInv
<1>3. QED
  BY <1>1, <1>2, NextCInv, PTL DEF Spec
=============================================================================
