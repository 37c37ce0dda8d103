-------------------------- MODULE BridgeRefinement --------------------------
(***************************************************************************)
(* The bridge of Bridge implements the safety part of Dispatcher under the *)
(* refinement mapping of Bridge (AnsweredLines, and done for a bridge that *)
(* has stopped reading), for every value of the constants.  The liveness   *)
(* part (WF of Read) is checked by TLC only (run bridge_refinement).       *)
(***************************************************************************)
EXTENDS BridgeProofs

(* The mapping of a sequence of responses to the abstract replies.         *)
Ans(s) == [k \in 1..Len(s) |-> [line |-> s[k].line, id |-> s[k].id]]

(* Appending a response appends its line and id to the abstract replies.  *)
LEMMA AnsAppend ==
  ASSUME NEW s \in Seq(Responses), NEW e
  PROVE  Ans(Append(s, e)) = Append(Ans(s), [line |-> e.line, id |-> e.id])
  BY DEF Ans

LEMMA AnsweredIsAns == AnsweredLines = Ans(stdout) /\ AnsweredLines' = Ans(stdout')
  BY DEF AnsweredLines, Ans

(* The initial state of the bridge is an initial state of the Dispatcher.  *)
LEMMA InitRefines == Init => Abstract!Init
<1> SUFFICES ASSUME Init PROVE Abstract!Init
  OBVIOUS
<1>1. AnsweredLines = <<>>
  BY DEF Init, AnsweredLines
<1>2. QED
  BY <1>1 DEF Init, Abstract!Init

(* Every step of the bridge is a step of the Dispatcher or leaves the      *)
(* mapped state unchanged.                                                 *)
LEMMA NextRefines ==
  RInv /\ [Next]_vars => [Abstract!Next]_Abstract!vars
<1> SUFFICES ASSUME RInv, [Next]_vars
             PROVE  [Abstract!Next]_Abstract!vars
  OBVIOUS
<1>0. TypeOK /\ WaitingWellFormed /\ WaitingUnanswered /\ stdout \in Seq(Responses)
  BY DEF RInv, IInv, TypeOK
(* Steps that change none of stdin, closed, pos, stdout and done.          *)
<1>1. ASSUME UNCHANGED <<stdin, closed, pos, stdout>>,
             (phase \in {"stopped", "exited"}) = (phase' \in {"stopped", "exited"})
      PROVE  [Abstract!Next]_Abstract!vars
  BY <1>1 DEF Abstract!vars, AnsweredLines
(* Steps that stop the bridge: they change nothing else.                   *)
<1>2. ASSUME UNCHANGED <<stdin, closed, pos, stdout>>,
             phase \in {"connecting", "idle", "waiting"},
             phase' \in {"stopped", "exited"}
      PROVE  Abstract!Stop
  BY <1>2 DEF Abstract!Stop, AnsweredLines
<1>3. ASSUME NEW l \in Input, Send(l) PROVE Abstract!Next
  <2>1. Abstract!Send(l)
    BY <1>3 DEF Send, Abstract!Send, AnsweredLines
  <2>2. QED
    BY <2>1 DEF Abstract!Next
<1>4. ASSUME Close PROVE Abstract!Next
  <2>1. Abstract!Close
    BY <1>4 DEF Close, Abstract!Close, AnsweredLines
  <2>2. QED
    BY <2>1 DEF Abstract!Next
(* Reading a line that gets no reply in the same step.                     *)
<1>5. ASSUME Consume \/ CallServer PROVE Abstract!Next
  <2>1. /\ phase = "idle" /\ pos < Len(stdin) /\ pos' = pos + 1
        /\ UNCHANGED <<stdin, closed, stdout>>
        /\ phase' \in {"idle", "waiting"}
    BY <1>5 DEF Consume, CallServer
  <2>2. Abstract!Read
    BY <2>1 DEF Abstract!Read, AnsweredLines
  <2>3. QED
    BY <2>2 DEF Abstract!Next
<1>6. ASSUME UnknownMethod, stdout' # stdout PROVE Abstract!Next
  <2>1. /\ phase = "idle" /\ pos < Len(stdin) /\ pos' = pos + 1
        /\ UNCHANGED <<stdin, closed, phase>>
        /\ IsRequestLine(stdin[pos + 1])
        /\ stdout' = Append(stdout, MethodNotFound(NextLine, pos + 1))
    BY <1>6, PrintCases DEF UnknownMethod, NextLine
  <2>2. /\ MethodNotFound(NextLine, pos + 1).line = pos + 1
        /\ MethodNotFound(NextLine, pos + 1).id = stdin[pos + 1].id
    BY DEF MethodNotFound, NextLine
  <2>3. AnsweredLines' = Append(AnsweredLines, Abstract!Reply(pos + 1))
    BY <1>0, <2>1, <2>2, AnsAppend, AnsweredIsAns DEF Abstract!Reply
  <2>4. Abstract!IsRequest(stdin[pos + 1])
    BY <2>1 DEF IsRequestLine, Abstract!IsRequest
  <2>5. Abstract!Read
    BY <2>1, <2>3, <2>4 DEF Abstract!Read
  <2>6. QED
    BY <2>5 DEF Abstract!Next
<1>7. ASSUME phase = "waiting", NEW r, CompleteCall(r), stdout' # stdout
      PROVE  Abstract!Next
  <2>1. /\ HandlerResponse(r).line = pos
        /\ HandlerResponse(r).id = stdin[pos].id
    BY <1>0, <1>7, HandlerResponseFields DEF IInv, Pending
  <2>2. /\ stdout' = Append(stdout, HandlerResponse(r))
        /\ phase' = "idle"
        /\ UNCHANGED <<stdin, closed, pos>>
    BY <1>7, PrintCases DEF CompleteCall
  <2>3. AnsweredLines' = Append(AnsweredLines, Abstract!Reply(pos))
    BY <1>0, <2>1, <2>2, AnsAppend, AnsweredIsAns DEF Abstract!Reply
  <2>4. /\ pos \in 1..Len(stdin)
        /\ Abstract!IsRequest(stdin[pos])
    BY <1>0, <1>7 DEF WaitingWellFormed, IsRequestLine, Abstract!IsRequest
  <2>5. \A k \in 1..Len(AnsweredLines) : AnsweredLines[k].line < pos
    BY <1>0, <1>7 DEF WaitingUnanswered, AnsweredLines
  <2>6. Abstract!Answer
    BY <1>7, <2>2, <2>3, <2>4, <2>5 DEF Abstract!Answer
  <2>7. QED
    BY <2>6 DEF Abstract!Next
(* The "Method not found" response is lost: a read with no reply.        *)
<1>8. ASSUME UnknownMethod, UNCHANGED stdout PROVE Abstract!Next
  <2>1. /\ phase = "idle" /\ pos < Len(stdin) /\ pos' = pos + 1
        /\ UNCHANGED <<stdin, closed, phase, stdout>>
    BY <1>8 DEF UnknownMethod
  <2>2. Abstract!Read
    BY <2>1 DEF Abstract!Read, AnsweredLines
  <2>3. QED
    BY <2>2 DEF Abstract!Next
<1>9. QED
  <2>1. ASSUME NEW r \in StatusReplies, CheckServerConnection(r)
        PROVE  [Abstract!Next]_Abstract!vars
    <3>1. UNCHANGED <<stdin, closed, pos, stdout>> /\ phase = "connecting"
          /\ phase' \in {"idle", "exited"}
      BY <2>1 DEF CheckServerConnection
    <3>2. QED
      BY <3>1, <1>1, <1>2 DEF Abstract!Next
  <2>2. ASSUME NEW r, HandlerFault(r) \/ (CompleteCall(r) /\ UNCHANGED stdout)
        PROVE  [Abstract!Next]_Abstract!vars
    <3>1. UNCHANGED <<stdin, closed, pos, stdout>> /\ phase = "waiting"
          /\ phase' = "idle"
      BY <2>2 DEF HandlerFault, CompleteCall
    <3>2. QED
      BY <3>1, <1>1
  <2>3. ASSUME ReadEOF \/ Interrupt PROVE [Abstract!Next]_Abstract!vars
    <3>1. UNCHANGED <<stdin, closed, pos, stdout>>
          /\ phase \in {"connecting", "idle", "waiting"}
          /\ phase' \in {"stopped", "exited"}
      BY <2>3 DEF ReadEOF, Interrupt
    <3>2. QED
      BY <3>1, <1>2 DEF Abstract!Next
  <2>4. ASSUME UNCHANGED vars \/ Hangup PROVE [Abstract!Next]_Abstract!vars
    BY <2>4, <1>1 DEF vars, Hangup
  <2>5. SkipEmptyLine \/ DropMalformedLine \/ DropRaisingLine
          \/ HandleNotification => Consume
    BY DEF SkipEmptyLine, DropMalformedLine, DropRaisingLine,
           HandleNotification
  <2>6. QED
    BY <1>3, <1>4, <1>5, <1>6, <1>7, <1>8, <2>1, <2>2, <2>3, <2>4, <2>5
       DEF Next, Client, BridgeStep

(* The bridge implements the Dispatcher's safety: every behaviour of the   *)
(* bridge's run() loop, mapped by AnsweredLines, reads each line once in   *)
(* order and answers only the request read last, once, with its id.        *)
THEOREM RefinesDispatcher == Spec => Abstract!Safety
<1>1. Init => Abstract!Init
  BY InitRefines
<1>2. RInv /\ [Next]_vars => [Abstract!Next]_Abstract!vars
  BY NextRefines
<1>3. Spec => []RInv
  BY InitRInv, NextRInv, PTL DEF Spec
<1>4. QED
  BY <1>1, <1>2, <1>3, PTL DEF Spec, Abstract!Safety
=============================================================================
