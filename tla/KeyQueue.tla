------------------------------ MODULE KeyQueue -------------------------------
(***************************************************************************)
(* What the keyboard firmware promises to the main board: a bounded FIFO   *)
(* of characters, an answer to each byte the main board sends, and a       *)
(* request line.                                                           *)
(*   - a character offered is appended to the queue, or dropped if the     *)
(*     queue was full when it came; either way the line goes up before the *)
(*     next one is taken;                                                  *)
(*   - the line comes down exactly when a request leaves the queue empty;  *)
(*   - an answer is the device type, the number of characters waiting, or  *)
(*     the oldest character (0 when there is none), which then leaves.     *)
(***************************************************************************)
EXTENDS Naturals, Sequences

CONSTANTS Key, Capacity, DeviceType, Stray

VARIABLES
  queue,      \* the characters waiting
  answer,     \* what the next byte sent will be answered with
  line,       \* the request line
  offer       \* the character being taken in

qvars == <<queue, answer, line, offer>>

Nobody  == <<"none">>
Handled == <<"handled">>

Init == queue = <<>> /\ answer \in Stray /\ line = FALSE /\ offer = Nobody

Offer(k) ==
  /\ offer = Nobody
  /\ Len(queue) < Capacity
  /\ offer' = <<"offered", k>>
  /\ UNCHANGED <<queue, answer, line>>

Drop ==
  /\ offer = Nobody
  /\ Len(queue) = Capacity
  /\ offer' = Handled
  /\ UNCHANGED <<queue, answer, line>>

Put(k) ==
  /\ offer = <<"offered", k>>
  /\ queue' = Append(queue, k)
  /\ offer' = Handled
  /\ UNCHANGED <<answer, line>>

Raise ==
  /\ offer = Handled
  /\ line' = TRUE
  /\ offer' = Nobody
  /\ UNCHANGED <<queue, answer>>

AnswerType == answer' = DeviceType /\ UNCHANGED <<queue, line, offer>>

AnswerSize == answer' = Len(queue) /\ UNCHANGED <<queue, line, offer>>

AnswerKey ==
  /\ answer' = IF queue = <<>> THEN 0 ELSE Head(queue)
  /\ queue'  = IF queue = <<>> THEN <<>> ELSE Tail(queue)
  /\ line'   = (line /\ queue' # <<>>)
  /\ UNCHANGED offer

Next ==
  \/ \E k \in Key : Offer(k) \/ Put(k)
  \/ Drop
  \/ Raise
  \/ AnswerType
  \/ AnswerSize
  \/ AnswerKey

Spec == Init /\ [][Next]_qvars
=============================================================================
