----------------------------- MODULE KeyChannel ------------------------------
(***************************************************************************)
(* What the two boards together promise of the keys: a bounded, lossy FIFO *)
(* from the USB keyboard to the serial line.                               *)
(*   - a key typed joins the line of those on their way, or is dropped     *)
(*     when that line is full;                                             *)
(*   - a grab writes the first of the line, or nothing, and leaves one     *)
(*     request for a key behind (so does a call of bufferSize);            *)
(*   - a request left behind may take one key away unread, and no more;    *)
(*     nothing else loses a key, and no key overtakes another.             *)
(* The n-th key typed is FirstKey + n - 1.                                 *)
(***************************************************************************)
EXTENDS Integers, Sequences

CONSTANTS FirstKey, Capacity

VARIABLES
  typed,      \* keys typed so far
  line,       \* the keys on their way, oldest first
  spare,      \* a request for a key was left behind
  delivered   \* the keys written

cvars == <<typed, line, spare, delivered>>

Init == typed = 0 /\ line = <<>> /\ spare = FALSE /\ delivered = <<>>

(* One key more than the buffer holds: the one a grab is about to write.   *)
Take ==
  /\ Len(line) <= Capacity
  /\ typed' = typed + 1
  /\ line' = Append(line, FirstKey + typed)
  /\ UNCHANGED <<spare, delivered>>

Drop ==
  /\ Len(line) >= Capacity
  /\ typed' = typed + 1
  /\ UNCHANGED <<line, spare, delivered>>

Deliver ==
  /\ line # <<>>
  /\ delivered' = Append(delivered, Head(line))
  /\ line' = Tail(line)
  /\ spare' = TRUE
  /\ UNCHANGED typed

LeaveRequest == spare' = TRUE /\ UNCHANGED <<typed, line, delivered>>

Lose ==
  /\ spare /\ spare' = FALSE
  /\ line # <<>>
  /\ line' = Tail(line)
  /\ UNCHANGED <<typed, delivered>>

(* On an empty line, or under the next request. *)
Spend == spare /\ spare' = FALSE /\ UNCHANGED <<typed, line, delivered>>

Next == Take \/ Drop \/ Deliver \/ LeaveRequest \/ Lose \/ Spend

Spec == Init /\ [][Next]_cvars
=============================================================================
