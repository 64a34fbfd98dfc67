------------------------------ MODULE KeyReport ------------------------------
(***************************************************************************)
(* From the keys held on a USB keyboard to the characters queued:          *)
(* KeyboardHost_Task and processKeyDown, KeyboardHost.c, once the keyboard *)
(* is configured.                                                          *)
(*                                                                         *)
(* In the boot protocol a report lists the keys held, in an order that is  *)
(* the keyboard's affair, and the modifiers.  The keyboard has a report    *)
(* ready when something changed since the last one; the pipe is polled     *)
(* when the main loop comes to it, so changes may be merged.               *)
(***************************************************************************)
EXTENDS KeyMap, Sequences, SeqFilter, FiniteSets

CONSTANTS
  Codes,        \* the keys there are to press
  MaxHeld,      \* bound: keys held together, at most the 6 of a report
  MaxEvents     \* bound: keys pressed and changes of Shift

ASSUME BoundAssumption ==
  Codes \subseteq 4..255 /\ MaxHeld \in 1..6 /\ MaxEvents \in Nat

VARIABLES
  held,         \* codes of the keys held, as a report lists them
  shift,        \* Shift is held
  changed,      \* the keyboard has a report ready
  upper,        \* upper # 0
  chars,        \* the characters keyHandler was called with
  events,
  intended,     \* history: the characters a typist means to type
  capsLock,     \* history: an odd number of presses of CapsLock
  pressed,      \* history: the keys that were pressed
  paced,        \* history: every change was reported before the next
  solo          \* history: keys and Shift were pressed one at a time

keyboard == <<held, shift, changed, events>>
history  == <<intended, capsLock, pressed, paced, solo>>
vars     == <<keyboard, upper, chars, history>>

Held == {held[i] : i \in DOMAIN held}

TypeOK ==
  /\ held \in Seq(Codes) /\ Len(held) <= MaxHeld
  /\ shift \in BOOLEAN /\ changed \in BOOLEAN
  /\ upper \in BOOLEAN
  /\ chars \in Seq(0..255)
  /\ events \in 0..MaxEvents
  /\ intended \in Seq(1..255)
  /\ capsLock \in BOOLEAN /\ paced \in BOOLEAN /\ solo \in BOOLEAN
  /\ pressed \subseteq Codes

Init ==
  /\ held = <<>> /\ shift = FALSE /\ changed = FALSE
  /\ upper = FALSE
  /\ chars = <<>>
  /\ events = 0
  /\ intended = <<>> /\ capsLock = FALSE /\ pressed = {}
  /\ paced = TRUE /\ solo = TRUE

-----------------------------------------------------------------------------
(* The typist and the keyboard. *)

Change ==
  /\ changed' = TRUE
  /\ paced' = (paced /\ ~changed)

Press(k) ==
  /\ events < MaxEvents /\ events' = events + 1
  /\ k \notin Held /\ Len(held) < MaxHeld
  /\ held' \in {<<k>> \o held, held \o <<k>>}
  /\ Change
  /\ LET c == pressedKey(k, capsLock, shift)
     IN  intended' = IF c = 0 THEN intended ELSE Append(intended, c)
  /\ capsLock' = IF k = CAPS_LOCK THEN ~capsLock ELSE capsLock
  /\ pressed' = pressed \cup {k}
  /\ solo' = (solo /\ held = <<>>)
  /\ UNCHANGED <<shift, upper, chars>>

Release(k) ==
  /\ k \in Held
  /\ held' = Only(held, Codes \ {k})
  /\ Change
  /\ UNCHANGED <<shift, events, upper, chars, intended, capsLock, pressed, solo>>

Shift ==
  /\ events < MaxEvents /\ events' = events + 1
  /\ shift' = ~shift
  /\ Change
  /\ solo' = (solo /\ held = <<>>)
  /\ UNCHANGED <<held, upper, chars, intended, capsLock, pressed>>

-----------------------------------------------------------------------------
(* Mutant: CapsLock sets upper and never clears it. *)
Task_CapsLockLatches ==
  /\ changed
  /\ changed' = FALSE
  /\ IF held = <<>>
     THEN UNCHANGED <<upper, chars>>
     ELSE LET code == Head(held)
          IN  /\ upper' = (upper \/ code = CAPS_LOCK)
              /\ chars' = Append(chars, pressedKey(code, upper', shift))
  /\ UNCHANGED <<held, shift, events, history>>

(* KeyboardHost_Task finds a report.  Only the first key of it is looked   *)
(* at, whether or not it was in the last one; CapsLock, like every key     *)
(* without a character, queues a 0.                                        *)
Task ==
  /\ changed
  /\ changed' = FALSE
  /\ IF held = <<>>
     THEN UNCHANGED <<upper, chars>>
     ELSE LET code == Head(held)
          IN  /\ upper' = IF code = CAPS_LOCK THEN ~upper ELSE upper
              /\ chars' = Append(chars, pressedKey(code, upper', shift))
  /\ UNCHANGED <<held, shift, events, history>>

Next ==
  \/ \E k \in Codes : Press(k) \/ Release(k)
  \/ Shift
  \/ Task

Spec == Init /\ [][Next]_vars

-----------------------------------------------------------------------------
Printed == Only(chars, 1..255)

(* A typist who presses one key at a time, and no faster than the reports  *)
(* are taken, gets each character once, in order, with the Shift and the   *)
(* CapsLock of the moment the key was pressed.                             *)
SoloTypingIsExact == solo /\ paced /\ ~changed => Printed = intended

(* In each state of Shift and CapsLock, two keys never give the same       *)
(* character, and no key loses its own: the two rewritings of              *)
(* processKeyDown, the second over the results of the first, merge no      *)
(* keys.                                                                   *)
KeysAreDistinct ==
  LET keys == {k \in A..DELETE : qwerty(k) # 0}
  IN  \A s \in BOOLEAN :
        LET characters == {pressedKey(k, upper, s) : k \in keys}
        IN  /\ Cardinality(characters) = Cardinality(keys)
            /\ 0 \notin characters

(* What KeyboardHost.txt says of a pressed key: it is transmitted.         *)
EveryPressTransmitted ==
  paced /\ ~changed =>
    \A k \in pressed \ {CAPS_LOCK} : \E i \in DOMAIN chars :
      \E u, s \in BOOLEAN : chars[i] = pressedKey(k, u, s)
=============================================================================
