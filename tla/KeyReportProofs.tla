--------------------------- MODULE KeyReportProofs ---------------------------
(***************************************************************************)
(* The key map over all key codes, and what a typist who presses one key   *)
(* at a time gets, whatever keys there are, however many he holds and for  *)
(* as long as he types.                                                    *)
(***************************************************************************)
EXTENDS KeyReport, SeqFilterProofs, FiniteSetTheorems

-----------------------------------------------------------------------------
(* The key map.                                                            *)

(* What qwerty makes of the keys that have a character, and azerty of      *)
(* that.                                                                   *)
Common == (48..57) \cup (65..90) \cup {8, 9, 10, 27, 32, 43, 63, 127}
Qwerty == Common \cup {34, 58, 60, 62, 95, 123, 124, 125}
Azerty == Common \cup {37, 46, 47, 163, 167, 168, 176, 181}

Keys == {k \in A..DELETE : qwerty(k) # 0}

LEMMA QwertyMap ==
  /\ \A k \in A..DELETE : qwerty(k) \in Qwerty \cup {0}
  /\ \A k, l \in A..DELETE : qwerty(k) = qwerty(l) /\ qwerty(k) # 0 => k = l
  /\ \A k \in 4..255 : qwerty(k) \in 0..127
<1> USE DEF qwerty, Special, A, Z, DIGIT_1, DIGIT_0, DELETE
<1>1. \A k \in A..DELETE : qwerty(k) \in Qwerty \cup {0}
  BY SMTT(60) DEF Qwerty, Common
<1>2. \A k, l \in A..DELETE : qwerty(k) = qwerty(l) /\ qwerty(k) # 0 => k = l
  BY SMTT(120)
<1>3. \A k \in 4..255 : qwerty(k) \in 0..127
  BY SMTT(60)
<1>4. QED BY <1>1, <1>2, <1>3

LEMMA AzertyMap ==
  /\ \A c \in Qwerty : azerty(c) \in Azerty
  /\ \A c, d \in Qwerty : azerty(c) = azerty(d) => c = d
  /\ \A c \in 0..127 : azerty(c) \in 0..255
<1>1. \A c \in Qwerty : azerty(c) \in Azerty
  BY SMTT(60) DEF Qwerty, Azerty, Common, azerty
<1>2. \A c, d \in Qwerty : azerty(c) = azerty(d) => c = d
  BY SMTT(120) DEF Qwerty, Common, azerty
<1>3. \A c \in 0..127 : azerty(c) \in 0..255
  BY SMTT(60) DEF azerty
<1>4. QED BY <1>1, <1>2, <1>3

LEMMA LowerMap ==
  /\ \A c \in Azerty : lowerKey(c) # 0 /\ c # 0
  /\ \A c, d \in Azerty : lowerKey(c) = lowerKey(d) => c = d
  /\ \A c \in 0..255 : lowerKey(c) \in 0..255
<1>1. \A c \in Azerty : lowerKey(c) # 0 /\ c # 0
  BY SMTT(60) DEF Azerty, Common, lowerKey
<1>2. \A c, d \in Azerty : lowerKey(c) = lowerKey(d) => c = d
  BY SMTT(120) DEF Azerty, Common, lowerKey
<1>3. \A c \in 0..255 : lowerKey(c) \in 0..255
  BY SMTT(60) DEF lowerKey
<1>4. QED BY <1>1, <1>2, <1>3

(* A key has a character if it has one on a QWERTY keyboard, and is not    *)
(* merged with another, in each state of Shift and CapsLock.               *)
LEMMA PressedKey ==
  /\ \A k \in Keys : \A u, s : pressedKey(k, u, s) # 0
  /\ \A k, l \in Keys : \A u, s : pressedKey(k, u, s) = pressedKey(l, u, s) => k = l
  /\ \A k \in 4..255 : \A u, s : pressedKey(k, u, s) \in 0..255
<1>1. \A k \in Keys : k \in A..DELETE /\ qwerty(k) \in Qwerty /\ azerty(qwerty(k)) \in Azerty
  BY QwertyMap, AzertyMap DEF Keys
<1>2. \A k, l \in Keys : azerty(qwerty(k)) = azerty(qwerty(l)) => k = l
  BY <1>1, QwertyMap, AzertyMap DEF Keys
<1>3. \A k \in 4..255 : azerty(qwerty(k)) \in 0..255
  BY QwertyMap, AzertyMap
<1>4. \A k \in Keys : \A u, s : pressedKey(k, u, s) # 0
  BY <1>1, LowerMap DEF pressedKey
<1>5. \A k, l \in Keys : \A u, s : pressedKey(k, u, s) = pressedKey(l, u, s) => k = l
  BY <1>1, <1>2, LowerMap DEF pressedKey
<1>6. \A k \in 4..255 : \A u, s : pressedKey(k, u, s) \in 0..255
  BY <1>3, LowerMap DEF pressedKey
<1>7. QED BY <1>4, <1>5, <1>6

(* CapsLock has none. *)
LEMMA CapsLockIsMute == \A u, s : pressedKey(CAPS_LOCK, u, s) = 0
<1>1. qwerty(CAPS_LOCK) = 0
  BY DEF qwerty, Special, CAPS_LOCK, A, Z, DIGIT_1, DIGIT_0, DELETE
<1>2. azerty(0) = 0
  BY DEF azerty
<1>3. lowerKey(0) = 0
  BY DEF lowerKey
<1>4. QED BY <1>1, <1>2, <1>3 DEF pressedKey

(* The 73 codes of the map, the two rewritings and both halves of lowerKey *)
(* merge no keys and lose none.                                            *)
THEOREM NoKeysMerged == KeysAreDistinct
<1> SUFFICES ASSUME NEW s \in BOOLEAN
             PROVE  LET characters == {pressedKey(k, upper, s) : k \in Keys}
                    IN  /\ Cardinality(characters) = Cardinality(Keys)
                        /\ 0 \notin characters
  BY DEF KeysAreDistinct, Keys
<1> DEFINE characters == {pressedKey(k, upper, s) : k \in Keys}
           f == [k \in Keys |-> pressedKey(k, upper, s)]
<1>1. IsFiniteSet(Keys)
  <2>1. IsFiniteSet(A..DELETE)
    <3>1. A \in Int /\ DELETE \in Int
      BY DEF A, DELETE
    <3>2. QED BY <3>1, FS_Interval
  <2>2. Keys \in SUBSET (A..DELETE)
    BY DEF Keys
  <2>3. QED BY <2>1, <2>2, FS_Subset
<1>2. f \in Bijection(Keys, characters)
  <2>1. f \in [Keys -> characters]
    OBVIOUS
  <2>2. \A k, l \in Keys : f[k] = f[l] => k = l
    BY PressedKey
  <2>3. \A c \in characters : \E k \in Keys : f[k] = c
    OBVIOUS
  <2> HIDE DEF f, characters
  <2>4. f \in Injection(Keys, characters)
    BY <2>1, <2>2 DEF Injection, IsInjective
  <2>5. f \in Surjection(Keys, characters)
    BY <2>1, <2>3 DEF Surjection
  <2>6. QED BY <2>4, <2>5 DEF Bijection
<1>3. Cardinality(characters) = Cardinality(Keys)
  BY <1>1, <1>2, FS_Bijection DEF ExistsBijection
<1>4. 0 \notin characters
  BY PressedKey
<1>5. QED BY <1>3, <1>4

-----------------------------------------------------------------------------
(* Types. *)

LEMMA CodesAreCodes ==
  \A k \in Codes : \A u, s : pressedKey(k, u, s) \in 0..255
BY PressedKey, BoundAssumption

LEMMA HeldParts ==
  ASSUME TypeOK
  PROVE  Held \subseteq Codes /\ Len(held) \in Nat /\ DOMAIN held = 1..Len(held)
<1>1. \A i \in DOMAIN held : held[i] \in Codes
  BY ElementOfSeq, LenProperties DEF TypeOK
<1>2. QED BY <1>1, LenProperties DEF Held, TypeOK

LEMMA PressTypes ==
  ASSUME TypeOK, NEW k \in Codes, Press(k)
  PROVE  TypeOK'
<1> USE DEF TypeOK
<1>1. held' \in Seq(Codes) /\ Len(held') <= MaxHeld
  <2>1. <<k>> \in Seq(Codes) /\ Len(<<k>>) = 1
    OBVIOUS
  <2>2. Len(held) \in Nat /\ Len(held) < MaxHeld /\ MaxHeld \in Nat
    BY HeldParts, BoundAssumption DEF Press
  <2>3. held' = <<k>> \o held \/ held' = held \o <<k>>
    BY DEF Press
  <2>4. held' \in Seq(Codes) /\ Len(held') = Len(held) + 1
    <3>1. CASE held' = <<k>> \o held
      BY <2>1, <2>2, <3>1, ConcatProperties
    <3>2. CASE held' = held \o <<k>>
      BY <2>1, <2>2, <3>2, ConcatProperties
    <3>3. QED BY <2>3, <3>1, <3>2
  <2>5. QED BY <2>2, <2>4
<1>2. intended' \in Seq(1..255)
  <2> DEFINE c == pressedKey(k, capsLock, shift)
  <2>1. c \in 0..255
    BY CodesAreCodes
  <2>2. intended' = IF c = 0 THEN intended ELSE Append(intended, c)
    BY DEF Press
  <2> HIDE DEF c
  <2>3. c # 0 => c \in 1..255
    BY <2>1
  <2>4. QED BY <2>2, <2>3, AppendProperties
<1>3. events' \in 0..MaxEvents
  BY BoundAssumption DEF Press
<1>4. capsLock' \in BOOLEAN /\ solo' \in BOOLEAN /\ paced' \in BOOLEAN /\ changed' \in BOOLEAN
  BY DEF Press, Change
<1>5. pressed' \subseteq Codes
  BY DEF Press
<1>6. QED BY <1>1, <1>2, <1>3, <1>4, <1>5 DEF Press

LEMMA TaskTypes ==
  ASSUME TypeOK, Task
  PROVE  TypeOK'
<1> USE DEF TypeOK
<1>1. UNCHANGED <<held, shift, events, intended, capsLock, pressed, paced, solo>> /\ changed' = FALSE
  BY DEF Task, history
<1>2. CASE held = <<>>
  <2>1. UNCHANGED <<upper, chars>>
    BY <1>2 DEF Task
  <2>2. QED BY <1>1, <2>1
<1>3. CASE held # <<>>
  <2>1. Head(held) \in Codes
    BY <1>3, HeadTailProperties
  <2>2. pressedKey(Head(held), upper', shift) \in 0..255
    BY <2>1, CodesAreCodes
  <2>3. chars' = Append(chars, pressedKey(Head(held), upper', shift)) /\ upper' \in BOOLEAN
    BY <1>3 DEF Task
  <2>4. chars' \in Seq(0..255)
    BY <2>2, <2>3, AppendProperties
  <2>5. QED BY <1>1, <2>3, <2>4
<1>4. QED BY <1>2, <1>3

LEMMA InitTypes == Init => TypeOK
<1>1. \A S : <<>> \in Seq(S)
  OBVIOUS
<1>2. 0 \in 0..MaxEvents /\ Len(<<>>) <= MaxHeld
  BY BoundAssumption
<1>3. QED BY <1>1, <1>2 DEF Init, TypeOK

LEMMA NextTypes == TypeOK /\ [Next]_vars => TypeOK'
<1> SUFFICES ASSUME TypeOK, [Next]_vars PROVE TypeOK'
  OBVIOUS
<1>1. ASSUME NEW k \in Codes, Press(k)
      PROVE  TypeOK'
  BY <1>1, PressTypes
<1>2. ASSUME NEW k \in Codes, Release(k)
      PROVE  TypeOK'
  <2>1. /\ held' \in Seq(Codes) /\ Len(held') <= MaxHeld
    <3>1. Only(held, Codes \ {k}) \in Seq((Codes \ {k}) \cap Codes)
          /\ Len(Only(held, Codes \ {k})) <= Len(held)
      BY OnlyType DEF TypeOK
    <3>2. Only(held, Codes \ {k}) \in Seq(Codes)
      BY <3>1, SeqMonotonic
    <3>3. Len(held) \in Nat /\ Len(Only(held, Codes \ {k})) \in Nat /\ MaxHeld \in Nat
      BY <3>2, HeldParts, LenProperties, BoundAssumption
    <3>4. QED BY <1>2, <3>1, <3>2, <3>3 DEF Release, TypeOK
  <2>2. QED BY <1>2, <2>1 DEF Release, Change, TypeOK
<1>3. CASE Shift
  <2>1. events' \in 0..MaxEvents
    BY <1>3, BoundAssumption DEF Shift, TypeOK
  <2>2. shift' \in BOOLEAN /\ changed' \in BOOLEAN /\ paced' \in BOOLEAN /\ solo' \in BOOLEAN
    BY <1>3 DEF Shift, Change, TypeOK
  <2>3. QED BY <1>3, <2>1, <2>2 DEF Shift, TypeOK
<1>4. CASE Task
  BY <1>4, TaskTypes
<1>5. CASE UNCHANGED vars
  BY <1>5 DEF vars, keyboard, history, TypeOK
<1>6. QED BY <1>1, <1>2, <1>3, <1>4, <1>5 DEF Next

(* The keys held, the characters and the typist's intention keep their     *)
(* types: processKeyDown returns a byte for every code there is.           *)
THEOREM TypeCorrect == Spec => []TypeOK
BY InitTypes, NextTypes, PTL DEF Spec

-----------------------------------------------------------------------------
(* The typist who presses one key at a time.                               *)

(* What the reports taken so far leave to be queued: nothing, or the       *)
(* character of the one key held, whose report is ready.                   *)
Same == Printed = intended /\ upper = capsLock

OneKeyReady ==
  /\ changed
  /\ \E k \in Codes :
       LET locked == IF k = CAPS_LOCK THEN ~upper ELSE upper
           c      == pressedKey(k, locked, shift)
       IN  /\ held = <<k>>
           /\ capsLock = locked
           /\ intended = IF c = 0 THEN Printed ELSE Append(Printed, c)

Solo == (Len(held) <= 1 /\ (changed => held = <<>>) /\ Same) \/ OneKeyReady

SoloInv == TypeOK /\ (solo /\ paced => Solo)

LEMMA PrintedMore ==
  ASSUME TypeOK, NEW c \in 0..255, chars' = Append(chars, c)
  PROVE  Printed' = IF c = 0 THEN Printed ELSE Append(Printed, c)
<1> DEFINE Char == 1..255
           Byte == 0..255
<1>1. chars \in Seq(Byte) /\ c \in Byte /\ (c \in Char <=> c # 0)
  BY DEF TypeOK
<1>2. Printed = Only(chars, Char) /\ Printed' = Only(Append(chars, c), Char)
  BY DEF Printed
<1> HIDE DEF Char, Byte
<1>3. Printed' = IF c \in Char THEN Append(Only(chars, Char), c) ELSE Only(chars, Char)
  BY <1>1, <1>2, OnlyAppend
<1>4. QED BY <1>1, <1>2, <1>3

LEMMA OneHeld ==
  ASSUME TypeOK, held # <<>>, Len(held) <= 1
  PROVE  \E k \in Codes : held = <<k>> /\ Held = {k}
<1>1. Len(held) = 1 /\ held \in Seq(Codes) /\ DOMAIN held = 1..1
  <2>1. held \in Seq(Codes) /\ Len(held) \in Nat
    BY HeldParts DEF TypeOK
  <2>2. Len(held) # 0
    BY <2>1, EmptySeq
  <2>3. Len(held) = 1
    <3>1. Len(held) <= 1
      OBVIOUS
    <3>2. \A n \in Nat : n # 0 /\ n <= 1 => n = 1
      OBVIOUS
    <3>3. QED BY <2>1, <2>2, <3>1, <3>2
  <2>4. QED BY <2>1, <2>3, HeldParts
<1>2. held[1] \in Codes /\ held = <<held[1]>>
  BY <1>1
<1>3. Held = {held[1]}
  BY <1>1 DEF Held
<1>4. QED BY <1>2, <1>3

LEMMA ReleaseOne ==
  ASSUME NEW k \in Codes
  PROVE  Only(<<k>>, Codes \ {k}) = <<>>
<1>1. <<>> \in Seq(Codes) /\ Append(<<>>, k) = <<k>>
  OBVIOUS
<1>2. Only(Append(<<>>, k), Codes \ {k}) = Only(<<>>, Codes \ {k})
  BY <1>1, OnlyAppend
<1>3. QED BY <1>1, <1>2, OnlyEmpty

LEMMA PressSolo ==
  ASSUME TypeOK, Solo, NEW k \in Codes, Press(k), held = <<>>, ~changed
  PROVE  Solo'
<1>1. Same
  BY DEF Solo, OneKeyReady
<1>2. /\ held' = <<k>> /\ changed' = TRUE /\ UNCHANGED <<shift, upper, chars>>
      /\ capsLock' = IF k = CAPS_LOCK THEN ~capsLock ELSE capsLock
  BY DEF Press, Change
<1>3. Printed' = Printed
  BY <1>2 DEF Printed
<1> DEFINE locked == IF k = CAPS_LOCK THEN ~upper ELSE upper
           c      == pressedKey(k, locked, shift)
<1>4. c = pressedKey(k, capsLock, shift)
  BY <1>1, CapsLockIsMute DEF Same
<1>5. intended' = IF c = 0 THEN intended ELSE Append(intended, c)
  BY <1>4 DEF Press
<1>6. intended' = IF c' = 0 THEN Printed' ELSE Append(Printed', c')
  BY <1>1, <1>2, <1>3, <1>5 DEF Same
<1>7. capsLock' = locked'
  BY <1>1, <1>2 DEF Same, TypeOK
<1>8. OneKeyReady'
  BY <1>2, <1>6, <1>7 DEF OneKeyReady
<1>9. QED BY <1>8 DEF Solo

LEMMA ReleaseSolo ==
  ASSUME TypeOK, Solo, NEW k \in Codes, Release(k), ~changed
  PROVE  Solo'
<1>1. Len(held) <= 1 /\ Same
  BY DEF Solo, OneKeyReady
<1>2. held # <<>>
  BY DEF Release, Held
<1>3. held = <<k>>
  BY <1>1, <1>2, OneHeld DEF Release
<1>4. held' = <<>>
  BY <1>3, ReleaseOne DEF Release
<1>5. Same'
  BY <1>1 DEF Release, Same, Printed
<1>6. QED BY <1>4, <1>5 DEF Solo

LEMMA TaskSolo ==
  ASSUME TypeOK, Solo, Task
  PROVE  Solo'
<1>1. changed /\ changed' = FALSE /\ UNCHANGED <<held, shift, intended, capsLock>>
  BY DEF Task, history
<1>2. CASE held = <<>>
  <2>1. Same /\ UNCHANGED <<upper, chars>>
    BY <1>2 DEF Solo, OneKeyReady, Task
  <2>2. QED BY <1>1, <1>2, <2>1 DEF Solo, Same, Printed
<1>3. CASE held # <<>>
  <2>1. OneKeyReady
    BY <1>1, <1>3 DEF Solo
  <2> DEFINE Locked(k) == IF k = CAPS_LOCK THEN ~upper ELSE upper
             Char(k)   == pressedKey(k, Locked(k), shift)
  <2>2. PICK k \in Codes :
          /\ held = <<k>> /\ capsLock = Locked(k)
          /\ intended = IF Char(k) = 0 THEN Printed ELSE Append(Printed, Char(k))
    BY <2>1 DEF OneKeyReady
  <2>3. upper' = Locked(k) /\ chars' = Append(chars, Char(k))
    BY <1>3, <2>2 DEF Task
  <2>4. Char(k) \in 0..255
    BY CodesAreCodes
  <2> HIDE DEF Char, Locked
  <2>5. Printed' = IF Char(k) = 0 THEN Printed ELSE Append(Printed, Char(k))
    BY <2>3, <2>4, PrintedMore
  <2>6. Same'
    BY <1>1, <2>2, <2>3, <2>5 DEF Same
  <2>7. Len(held') <= 1
    BY <1>1, <2>2
  <2>8. QED BY <1>1, <2>6, <2>7 DEF Solo
<1>4. QED BY <1>2, <1>3

LEMMA NextSolo == SoloInv /\ [Next]_vars => SoloInv'
<1> SUFFICES ASSUME SoloInv, [Next]_vars, solo', paced' PROVE Solo'
  BY NextTypes DEF SoloInv
<1>1. TypeOK
  BY DEF SoloInv
<1>2. ASSUME NEW k \in Codes, Press(k)
      PROVE  Solo'
  <2>1. (solo' <=> solo /\ held = <<>>) /\ (paced' <=> paced /\ ~changed)
    BY <1>1, <1>2 DEF Press, Change, TypeOK
  <2>2. QED BY <1>1, <1>2, <2>1, PressSolo DEF SoloInv
<1>3. ASSUME NEW k \in Codes, Release(k)
      PROVE  Solo'
  <2>1. solo' = solo /\ (paced' <=> paced /\ ~changed)
    BY <1>1, <1>3 DEF Release, Change, TypeOK
  <2>2. QED BY <1>1, <1>3, <2>1, ReleaseSolo DEF SoloInv
<1>4. CASE Shift
  <2>1. (solo' <=> solo /\ held = <<>>) /\ (paced' <=> paced /\ ~changed)
    BY <1>1, <1>4 DEF Shift, Change, TypeOK
  <2>2. Same /\ held = <<>>
    BY <2>1 DEF SoloInv, Solo, OneKeyReady
  <2>3. QED BY <1>4, <2>2 DEF Shift, Solo, Same, Printed
<1>5. CASE Task
  BY <1>1, <1>5, TaskSolo DEF SoloInv, Task, history
<1>6. CASE UNCHANGED vars
  BY <1>6 DEF vars, keyboard, history, SoloInv, Solo, Same, OneKeyReady, Printed
<1>7. QED BY <1>2, <1>3, <1>4, <1>5, <1>6 DEF Next

(* One key at a time, no faster than the reports are taken: each character *)
(* is queued once, in order, with the Shift and the CapsLock of the moment *)
(* the key was pressed.  Though only the first key of a report is looked   *)
(* at, and CapsLock queues a 0 of its own.                                 *)
THEOREM SoloTypistIsServed == Spec => []SoloTypingIsExact
<1>1. Init => SoloInv
  <2>1. Init => Printed = <<>>
    BY OnlyEmpty DEF Init, Printed
  <2>2. Len(<<>>) <= 1
    OBVIOUS
  <2>3. QED BY <2>1, <2>2, InitTypes DEF Init, SoloInv, Solo, Same
<1>2. SoloInv => SoloTypingIsExact
  BY DEF SoloInv, Solo, OneKeyReady, Same, SoloTypingIsExact
<1>3. QED BY <1>1, <1>2, NextSolo, PTL DEF Spec
=============================================================================
