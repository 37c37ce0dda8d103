----------------------------- MODULE Dispatcher -----------------------------
(***************************************************************************)
(* What a STDIO bridge promises its client, whatever it does with the      *)
(* tool server: it reads the lines the client writes, in order and each    *)
(* once; it answers only lines that carry an id, echoing that id, at most  *)
(* once each and in the order it read them, and only the line it read     *)
(* last, before it reads another (one message at a time); and unless it    *)
(* stops, it goes on reading.  It may leave a request unanswered: both     *)
(* bridges of the repository do, see the runs of Bridge and PluginBridge.  *)
(*                                                                         *)
(* Both bridges (Bridge, PluginBridge) are shown to implement this         *)
(* specification under a refinement mapping.                               *)
(***************************************************************************)
EXTENDS BridgeData

CONSTANTS MaxLines, Input

VARIABLES
  stdin,     \* the lines the client has written
  closed,    \* the client has closed stdin
  pos,       \* the number of lines read
  answered,  \* the replies written: the line each answers and its id
  done       \* the bridge has stopped reading

vars == <<stdin, closed, pos, answered, done>>

(* A line with an id key, whatever its value: a request of JSON-RPC.       *)
IsRequest(l) == l.kind = "object" /\ l.id # "absent"

Reply(i) == [line |-> i, id |-> stdin[i].id]

TypeOK ==
  /\ stdin \in Seq(Lines)
  /\ closed \in BOOLEAN
  /\ pos \in 0..Len(stdin)
  /\ answered \in Seq([line: Nat \ {0}, id: IdVals])
  /\ done \in BOOLEAN

Init ==
  /\ stdin = <<>>
  /\ closed = FALSE
  /\ pos = 0
  /\ answered = <<>>
  /\ done = FALSE

Send(l) ==
  /\ ~closed
  /\ Len(stdin) < MaxLines
  /\ stdin' = Append(stdin, l)
  /\ UNCHANGED <<closed, pos, answered, done>>

Close ==
  /\ ~closed
  /\ closed' = TRUE
  /\ UNCHANGED <<stdin, pos, answered, done>>

(* Read the next line, answering it at once or not (yet).                  *)
Read ==
  /\ ~done
  /\ pos < Len(stdin)
  /\ pos' = pos + 1
  /\ \/ UNCHANGED answered
     \/ /\ IsRequest(stdin[pos + 1])
        /\ answered' = Append(answered, Reply(pos + 1))
  /\ UNCHANGED <<stdin, closed, done>>

(* Answer the line read last, which no reply answers yet.                  *)
Answer ==
  /\ ~done
  /\ pos > 0
  /\ IsRequest(stdin[pos])
  /\ \A k \in 1..Len(answered) : answered[k].line < pos
  /\ answered' = Append(answered, Reply(pos))
  /\ UNCHANGED <<stdin, closed, pos, done>>

Stop ==
  /\ ~done
  /\ done' = TRUE
  /\ UNCHANGED <<stdin, closed, pos, answered>>

Next == (\E l \in Input : Send(l)) \/ Close \/ Read \/ Answer \/ Stop

(* Reading is the bridge's own work: it is weakly fair.  Answering is not: *)
(* a request may stay unanswered.                                          *)
Spec == Init /\ [][Next]_vars /\ WF_vars(Read)

(* The safety part alone.                                                  *)
Safety == Init /\ [][Next]_vars

=============================================================================
