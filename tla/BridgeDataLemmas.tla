-------------------------- MODULE BridgeDataLemmas --------------------------
(***************************************************************************)
(* Facts about the values of BridgeData, used by the proofs about both     *)
(* bridges.                                                                *)
(***************************************************************************)
EXTENDS BridgeData, TLAPS

(* Every line the client can write is a well-typed line.                   *)
LEMMA LinesTyped == Lines \subseteq Line
<1>1. NonObjectParams \in ParamVals /\ DefaultParams \in ParamVals
  BY DEF ParamVals
<1>2. ASSUME NEW k \in {"empty", "malformed", "nonobject"}
      PROVE  [kind |-> k, method |-> "unknown", id |-> "absent",
              params |-> NonObjectParams] \in Line
  BY <1>1 DEF Line, Methods, IdVals
<1>3. ASSUME NEW m \in Methods \ {"tools/call"}, NEW i \in IdVals
      PROVE  [kind |-> "object", method |-> m, id |-> i,
              params |-> DefaultParams] \in Line
  BY <1>1 DEF Line
<1>4. ASSUME NEW i \in IdVals, NEW p \in ParamVals
      PROVE  [kind |-> "object", method |-> "tools/call", id |-> i,
              params |-> p] \in Line
  BY DEF Line, Methods
<1>5. QED
  BY <1>2, <1>3, <1>4 DEF Lines, ObjectLines

(* The replies a handler takes apart have the shape of their endpoint.     *)
LEMMA ObjectReplies ==
  ASSUME NEW r, IsObject(r), ~IsError(r)
  PROVE  /\ r \in InitReplies => r \in [caps: CapVals]
         /\ r \in ListReplies => r \in [tools: {"absent", "list", "null"}]
         /\ r \in CallReplies => r \in [content: ContentVals]
  BY DEF IsObject, IsError, InitReplies, ListReplies, CallReplies,
         ErrorReply, NonObjectReply
(* No reply of the tool server is the mark of a response made without one. *)
LEMMA NoUpstreamNotReply == NoUpstream \notin Replies
<1>1. NoUpstream \notin StatusReplies \cup InitReplies
  BY DEF NoUpstream, StatusReplies, InitReplies, ErrorReply, NonObjectReply
<1>2. NoUpstream \notin ListReplies \cup CallReplies
  BY DEF NoUpstream, ListReplies, CallReplies, ErrorReply, NonObjectReply
<1>3. QED
  BY <1>1, <1>2 DEF Replies

=============================================================================
