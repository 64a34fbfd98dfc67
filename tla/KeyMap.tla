------------------------------- MODULE KeyMap --------------------------------
(***************************************************************************)
(* The character processKeyDown makes of a USB key code, KeyboardHost.c:   *)
(* first the character of a QWERTY keyboard, then the one an AZERTY        *)
(* keyboard has at that place, as with Shift; then, unless exactly one of  *)
(* CapsLock and Shift is on, the one without (lowerKey).                   *)
(***************************************************************************)
EXTENDS Integers

(* Key codes of the USB HID usage tables. *)
A         == 4
Z         == 29
DIGIT_1   == 30
DIGIT_0   == 39
CAPS_LOCK == 57
DELETE    == 76

Special(code) ==
  CASE code = DIGIT_0 -> 48                                      \* 0
    [] code = 40 -> 10 [] code = 41 -> 27 [] code = 42 -> 8      \* Enter Escape Backspace
    [] code = 43 -> 9  [] code = 44 -> 32                        \* Tab Space
    [] code = 45 -> 95 [] code = 46 -> 43                        \* _ +
    [] code = 47 -> 123 [] code = 48 -> 125 [] code = 50 -> 124  \* { } |
    [] code = 51 -> 58 [] code = 52 -> 34                        \* : "
    [] code = 54 -> 60 [] code = 55 -> 62 [] code = 56 -> 63     \* < > ?
    [] code = DELETE -> 127
    [] OTHER -> 0

(* Mutant: 'A' and the code of A exchanged. *)
qwerty_Exchanged(code) ==
  IF code \in A..Z THEN code - 65 + A
  ELSE IF code \in DIGIT_1..(DIGIT_0 - 1) THEN code - DIGIT_1 + 49
  ELSE Special(code)

(* Mutant: 0 taken for the digit after 9. *)
qwerty_TenDigits(code) ==
  IF code \in A..Z THEN code - A + 65
  ELSE IF code \in DIGIT_1..DIGIT_0 THEN code - DIGIT_1 + 49
  ELSE Special(code)

(* 0 for any other code, CapsLock among them. *)
qwerty(code) ==
  IF code \in A..Z THEN code - A + 65
  ELSE IF code \in DIGIT_1..(DIGIT_0 - 1) THEN code - DIGIT_1 + 49
  ELSE Special(code)

azerty(c) ==
  CASE c = 65 -> 81 [] c = 81 -> 65 [] c = 90 -> 87 [] c = 87 -> 90   \* A Q, Z W
    [] c = 77 -> 63 [] c = 58 -> 77                          \* M ?, : M
    [] c = 60 -> 46 [] c = 62 -> 47 [] c = 63 -> \hA7        \* < . > / ? §
    [] c = 34 -> 37 [] c = 124 -> \hB5 [] c = 123 -> \hA8    \* " % | µ { ¨
    [] c = 125 -> \hA3 [] c = 95 -> \hB0                     \* } £ _ °
    [] OTHER -> c

lowerKey(c) ==
  CASE c \in 65..90 -> c + 32
    [] c = 49 -> 38 [] c = 50 -> \hE9 [] c = 51 -> 34 [] c = 52 -> 39 [] c = 53 -> 40
                                       \* 1 & 2 é 3 " 4 ' 5 (
    [] c = 54 -> 45 [] c = 55 -> \hE8 [] c = 56 -> 95 [] c = 57 -> \hE7 [] c = 48 -> \hE0
                                       \* 6 - 7 è 8 _ 9 ç 0 à
    [] c = 63 -> 44 [] c = 46 -> 59 [] c = 47 -> 58 [] c = \hA7 -> 33   \* ? , . ; / : § !
    [] c = 37 -> \hF9 [] c = \hB5 -> 42 [] c = \hA8 -> 94    \* % ù µ * ¨ ^
    [] c = \hA3 -> 36 [] c = \hB0 -> 41 [] c = 43 -> 61      \* £ $ ° ) + =
    [] OTHER -> c

(* The character queued for a code.  upper is the state CapsLock leaves.   *)
pressedKey(code, upper, shift) ==
  LET c == azerty(qwerty(code))
  IN  IF upper = shift THEN lowerKey(c) ELSE c
=============================================================================
