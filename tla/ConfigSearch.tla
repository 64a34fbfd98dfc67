----------------------------- MODULE ConfigSearch -----------------------------
(***************************************************************************)
(* ProcessConfigurationDescriptor (KeyboardHost/ConfigDescriptor.c): what  *)
(* the keyboard board makes of the configuration descriptor a device       *)
(* sends.  It searches for a keyboard interface with an IN endpoint, with  *)
(* USB_GetNextDescriptorComp (LUFA, ConfigDescriptors.c) and two           *)
(* comparators.  One step is one turn of a loop.                           *)
(*                                                                         *)
(* A configuration is the sequence desc of its sub-descriptors, each with  *)
(* its offset, the size it states and its kind, and the total length that  *)
(* its first one states.  Behind the bytes received, the buffer, a local   *)
(* variable, holds what was there before: beyond says what the search      *)
(* takes that for.                                                         *)
(***************************************************************************)
EXTENDS Integers, Sequences

CONSTANTS
  Configurations,   \* what a device may answer, see Configuration
  Beyond,           \* what the rest of the buffer may look like
  BufferSize        \* of ConfigDescriptorData, 512 in the program

Interfaces == {"keyboard", "interface"}     \* of a boot keyboard, any other
Endpoints  == {"interrupt IN", "bulk IN", "OUT"}
Kinds      == Interfaces \cup Endpoints \cup {"configuration", "other"}

(* The descriptors lie one after the other and begin within the total      *)
(* length, which may cut the last one.                                     *)
Configuration(c) ==
  LET d == c.desc
  IN  /\ d \in Seq([size : Nat, at : Nat, kind : Kinds]) /\ d # <<>>
      /\ d[1].at = 0
      /\ \A n \in 1..(Len(d) - 1) : d[n + 1].at = d[n].at + d[n].size
      /\ \A n \in 1..Len(d) : d[n].at < c.total
      /\ c.total \in Nat /\ c.total <= d[Len(d)].at + d[Len(d)].size

ASSUME SearchAssumption ==
  /\ \A c \in Configurations : Configuration(c)
  /\ Beyond \subseteq Kinds
  /\ BufferSize \in Nat

VARIABLES
  desc,       \* the sub-descriptors received
  total,      \* the length stated
  beyond,     \* what follows them
  answers,    \* how many of the two requests the device answers
  pc,         \* "get", "interface", "endpoint", "candidate", "done"
  loc,        \* CurrConfigLocation, as an index into desc
  rem,        \* CurrConfigBytesRem
  HIDInterface, DataINEndpoint,   \* indices into desc, 0 for NULL
  result      \* what is returned

device == <<desc, total, beyond, answers>>
vars   == <<device, pc, loc, rem, HIDInterface, DataINEndpoint, result>>

Init ==
  /\ \E c \in Configurations : desc = c.desc /\ total = c.total
  /\ beyond \in Beyond
  /\ answers \in 0..2
  /\ pc = "get"
  /\ loc = 1 /\ rem = 0
  /\ HIDInterface = 0 /\ DataINEndpoint = 0
  /\ result = "none"

Return(code) == result' = code /\ pc' = "done"

-----------------------------------------------------------------------------
(* USB_Host_GetDeviceConfigDescriptor: the length first, then all of it.   *)
GetConfigDescriptor ==
  /\ pc = "get"
  /\ rem' = IF answers = 0 THEN rem ELSE total
  /\ CASE answers = 0                        -> Return("ControlError")
       [] answers > 0 /\ total > BufferSize  -> Return("DescriptorTooLarge")
       [] answers = 1 /\ total <= BufferSize -> Return("ControlError")
       [] OTHER -> IF desc[1].kind # "configuration"
                   THEN Return("InvalidConfigDataReturned")
                   ELSE pc' = "interface" /\ UNCHANGED result
  /\ UNCHANGED <<device, loc, HIDInterface, DataINEndpoint>>

(* Mutant: the size left is not bounded. *)
Advance_Unbounded == [loc |-> IF desc[loc].size = 0 THEN loc ELSE loc + 1,
                      rem |-> rem - desc[loc].size]

(* USB_GetNextDescriptor, from a descriptor of the configuration.          *)
Advance ==
  LET size == IF rem < desc[loc].size THEN rem ELSE desc[loc].size
  IN  [loc |-> IF size = 0 THEN loc ELSE loc + 1, rem |-> rem - size]

Header(n) == IF n \in 1..Len(desc) THEN desc[n].kind ELSE beyond

(* USB_GetNextDescriptorComp with DComp_NextKeyboardInterface; at the end  *)
(* of the descriptor the search is over.                                   *)
NextKeyboardInterface ==
  /\ pc = "interface"
  /\ IF rem = 0
     THEN Return("NoCompatibleInterfaceFound") /\ UNCHANGED <<loc, rem, HIDInterface>>
     ELSE /\ loc' = Advance.loc /\ rem' = Advance.rem
          /\ IF Header(Advance.loc) = "keyboard"
             THEN HIDInterface' = Advance.loc /\ pc' = "endpoint"
             ELSE UNCHANGED <<HIDInterface, pc>>
          /\ UNCHANGED result
  /\ UNCHANGED <<device, DataINEndpoint>>

(* Mutant: the search goes on past the next interface. *)
NextDataEndpoint_NoFail ==
  /\ pc = "endpoint"
  /\ IF rem = 0
     THEN pc' = "interface" /\ UNCHANGED <<loc, rem>>
     ELSE /\ loc' = Advance.loc /\ rem' = Advance.rem
          /\ pc' = IF Header(Advance.loc) \in Endpoints THEN "candidate" ELSE pc
  /\ UNCHANGED <<device, HIDInterface, DataINEndpoint, result>>

(* Mutant: the search does not go back to the interface it stopped at. *)
NextDataEndpoint_NotRestored ==
  /\ pc = "endpoint"
  /\ IF rem = 0
     THEN pc' = "interface" /\ UNCHANGED <<loc, rem>>
     ELSE /\ loc' = Advance.loc /\ rem' = Advance.rem
          /\ pc' = CASE Header(Advance.loc) \in Endpoints  -> "candidate"
                     [] Header(Advance.loc) \in Interfaces -> "interface"
                     [] OTHER                              -> pc
  /\ UNCHANGED <<device, HIDInterface, DataINEndpoint, result>>

(* Mutant: without an endpoint, the search for one begins again. *)
NextDataEndpoint_Again ==
  /\ pc = "endpoint"
  /\ \/ rem = 0 /\ UNCHANGED <<pc, loc, rem>>
     \/ /\ rem > 0 /\ Header(Advance.loc) \in Interfaces
        /\ pc' = "interface" /\ UNCHANGED <<loc, rem>>
     \/ /\ rem > 0 /\ Header(Advance.loc) \notin Interfaces
        /\ loc' = Advance.loc /\ rem' = Advance.rem
        /\ pc' = IF Header(Advance.loc) \in Endpoints THEN "candidate" ELSE pc
  /\ UNCHANGED <<device, HIDInterface, DataINEndpoint, result>>

(* Mutant: the location is put back to the keyboard interface. *)
NextDataEndpoint_FromInterface ==
  /\ pc = "endpoint"
  /\ \/ rem = 0 /\ pc' = "interface" /\ UNCHANGED <<loc, rem>>
     \/ /\ rem > 0 /\ Header(Advance.loc) \in Interfaces
        /\ pc' = "interface" /\ loc' = HIDInterface /\ rem' = total - desc[HIDInterface].at
     \/ /\ rem > 0 /\ Header(Advance.loc) \notin Interfaces
        /\ loc' = Advance.loc /\ rem' = Advance.rem
        /\ pc' = IF Header(Advance.loc) \in Endpoints THEN "candidate" ELSE pc
  /\ UNCHANGED <<device, HIDInterface, DataINEndpoint, result>>

(* With DComp_NextKeyboardInterfaceDataEndpoint, which fails at the next   *)
(* interface: the location is then put back before it.                     *)
NextDataEndpoint ==
  /\ pc = "endpoint"
  /\ \/ rem = 0 /\ pc' = "interface" /\ UNCHANGED <<loc, rem>>
     \/ /\ rem > 0 /\ Header(Advance.loc) \in Interfaces
        /\ pc' = "interface" /\ UNCHANGED <<loc, rem>>
     \/ /\ rem > 0 /\ Header(Advance.loc) \notin Interfaces
        /\ loc' = Advance.loc /\ rem' = Advance.rem
        /\ pc' = IF Header(Advance.loc) \in Endpoints THEN "candidate" ELSE pc
  /\ UNCHANGED <<device, HIDInterface, DataINEndpoint, result>>

(* The endpoint found is taken if it is an IN endpoint: its type is not    *)
(* tested, and the pipe is configured as one of interrupt type.            *)
TestEndpoint ==
  /\ pc = "candidate"
  /\ IF Header(loc) \in {"interrupt IN", "bulk IN"}
     THEN DataINEndpoint' = loc /\ Return("SuccessfulConfigRead")
     ELSE pc' = "endpoint" /\ UNCHANGED <<DataINEndpoint, result>>
  /\ UNCHANGED <<device, loc, rem, HIDInterface>>

Done == pc = "done" /\ UNCHANGED vars

Search == GetConfigDescriptor \/ NextKeyboardInterface \/ NextDataEndpoint \/ TestEndpoint

Next == Search \/ Done

Spec == Init /\ [][Next]_vars

FairSpec == Spec /\ WF_vars(Search)

-----------------------------------------------------------------------------
(* Endpoint e is one of interface i: no interface comes between.           *)
Belongs(i, e) ==
  i < e /\ \A n \in 1..Len(desc) : i < n /\ n < e => desc[n].kind \notin Interfaces

(* A keyboard interface and an endpoint of it that the code would take.    *)
Taken(i, e) ==
  /\ desc[i].kind = "keyboard" /\ desc[e].kind \in {"interrupt IN", "bulk IN"}
  /\ Belongs(i, e)

(* And one that the comment of ProcessConfigurationDescriptor asks for.    *)
Match(i, e) == Taken(i, e) /\ desc[e].kind = "interrupt IN"

(* What the search finds is an IN endpoint of a keyboard interface, with   *)
(* its interface, and no interrupt IN endpoint of one comes before it: it  *)
(* is not left at an endpoint of another interface by the location that a  *)
(* failed comparison puts back.  Or it is what lies behind the             *)
(* configuration, when that looks like one.                                *)
FoundIsFirst ==
  result = "SuccessfulConfigRead" =>
    /\ \A i, e \in 1..Len(desc) : Match(i, e) => DataINEndpoint <= e
    /\ \/ /\ {HIDInterface, DataINEndpoint} \subseteq 1..Len(desc)
          /\ Taken(HIDInterface, DataINEndpoint)
       \/ DataINEndpoint = Len(desc) + 1 /\ beyond \in Endpoints

(* And it finds one if there is an interrupt IN endpoint of a keyboard     *)
(* interface, in a configuration it has read.                              *)
NothingMissed ==
  result = "NoCompatibleInterfaceFound" =>
    \A i, e \in 1..Len(desc) : ~Match(i, e)

(* "This routine searches for a HID interface descriptor containing at     *)
(* least one Interrupt type IN endpoint" (ConfigDescriptor.c): the         *)
(* interface accepted, if it is one of the configuration, has one.         *)
InterruptINFound ==
  /\ result = "SuccessfulConfigRead"
  /\ {HIDInterface, DataINEndpoint} \subseteq 1..Len(desc)
  => \E e \in 1..Len(desc) : Match(HIDInterface, e)

(* The location and the number of bytes left, which are kept apart, stay   *)
(* in step, also when the location has been put back: the search ends at   *)
(* the end of the configuration, not before and not behind.                *)
InStep ==
  pc \in {"interface", "endpoint", "candidate"} =>
    IF loc \in 1..Len(desc) THEN rem = total - desc[loc].at ELSE rem = 0

(* The turns left at most: one for each byte, and up to two between.       *)
TurnsLeft == 3 * rem + CASE pc = "endpoint"  -> 1
                         [] pc = "candidate" -> 2
                         [] OTHER            -> 0

(* Every turn of the search comes nearer to its end, though a failed       *)
(* comparison puts the location back: if no descriptor states the size 0,  *)
(* there are three turns for each byte of the configuration at most.       *)
EveryTurnIsNearer ==
  [][pc # "get" /\ (\A n \in 1..Len(desc) : desc[n].size > 0) =>
       pc' = "done" \/ TurnsLeft' \in 0..(TurnsLeft - 1)]_vars

(* The search ends, if no descriptor states the size 0: it would never get *)
(* past that one.                                                          *)
Terminates == (\A n \in 1..Len(desc) : desc[n].size > 0) => <>(pc = "done")
=============================================================================
