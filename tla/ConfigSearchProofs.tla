-------------------------- MODULE ConfigSearchProofs --------------------------
(***************************************************************************)
(* Theorems about ConfigSearch, for every configuration descriptor (of any *)
(* number of sub-descriptors of any sizes, 0 included), whatever lies      *)
(* behind it in the buffer, and every size of the buffer.                  *)
(***************************************************************************)
EXTENDS ConfigSearch, TLAPS

(* The configuration received is one, and never changes. *)
Shape ==
  /\ desc \in Seq([size : Nat, at : Nat, kind : Kinds]) /\ desc # <<>>
  /\ total \in Nat
  /\ desc[1].at = 0
  /\ \A n \in 1..(Len(desc) - 1) : desc[n + 1].at = desc[n].at + desc[n].size
  /\ \A n \in 1..Len(desc) : desc[n].at < total
  /\ total <= desc[Len(desc)].at + desc[Len(desc)].size

Located == loc \in 1..(Len(desc) + 1) /\ (pc = "get" => loc = 1)

(* The kind of a descriptor, and the interfaces left to look at: the one   *)
(* the search is at only if it can never leave it.                         *)
ToLookAt(i) == i > loc \/ (i = loc /\ desc[loc].size = 0)

(* While it looks for an interface, all it could take lies ahead. *)
AtInterface ==
  pc = "interface" => \A i, e \in 1..Len(desc) : Taken(i, e) => ToLookAt(i)

(* The endpoints of the interface found begin behind it, and no interface  *)
(* has been passed since.                                                  *)
SinceInterface ==
  /\ HIDInterface \in 1..loc
  /\ Header(HIDInterface) = "keyboard"
  /\ \A n \in 1..Len(desc) : HIDInterface < n /\ n <= loc => desc[n].kind \notin Interfaces

AtEndpoint ==
  pc = "endpoint" =>
    /\ SinceInterface
    /\ \A i, e \in 1..Len(desc) : Taken(i, e) => HIDInterface <= i /\ loc < e

AtCandidate ==
  pc = "candidate" =>
    /\ SinceInterface /\ HIDInterface < loc /\ Header(loc) \in Endpoints
    /\ \A i, e \in 1..Len(desc) : Taken(i, e) => HIDInterface <= i /\ loc <= e

(* At the end: what the code takes is the first endpoint it would take,    *)
(* bulk endpoints included, and it gives up only when there is none.       *)
TakenIsFirst ==
  result = "SuccessfulConfigRead" =>
    /\ \A i, e \in 1..Len(desc) : Taken(i, e) => DataINEndpoint <= e
    /\ \/ /\ {HIDInterface, DataINEndpoint} \subseteq 1..Len(desc)
          /\ Taken(HIDInterface, DataINEndpoint)
       \/ DataINEndpoint = Len(desc) + 1 /\ beyond \in Endpoints

NoneTaken ==
  result = "NoCompatibleInterfaceFound" =>
    \A i, e \in 1..Len(desc) : ~Taken(i, e)

AtEnd ==
  /\ pc \in {"get", "interface", "endpoint", "candidate"} => result = "none"
  /\ TakenIsFirst /\ NoneTaken

Inv == Shape /\ Located /\ InStep /\ AtInterface /\ AtEndpoint /\ AtCandidate /\ AtEnd

-----------------------------------------------------------------------------
LEMMA InitInv == Init => Inv
<1> SUFFICES ASSUME Init PROVE Inv
  OBVIOUS
<1>1. PICK c \in Configurations : desc = c.desc /\ total = c.total
  BY DEF Init
<1>2. Configuration(c)
  BY SearchAssumption
<1>3. Shape
  BY <1>1, <1>2 DEF Configuration, Shape
<1>4. Located
  BY <1>3 DEF Shape, Located, Init
<1>5. QED
  BY <1>3, <1>4
  DEF Init, Inv, InStep, AtInterface, AtEndpoint, AtCandidate, AtEnd,
      TakenIsFirst, NoneTaken

LEMMA Elements ==
  ASSUME Shape, NEW n \in 1..Len(desc)
  PROVE  desc[n].size \in Nat /\ desc[n].at \in Nat /\ desc[n].at < total
<1>1. \A S : \A d \in Seq(S) : \A m \in 1..Len(d) : d[m] \in S
  OBVIOUS
<1>2. desc \in Seq([size : Nat, at : Nat, kind : Kinds])
  BY DEF Shape
<1>3. desc[n] \in [size : Nat, at : Nat, kind : Kinds]
  BY <1>1, <1>2
<1>4. QED BY <1>3 DEF Shape

(* One turn of the search stays where it is at a descriptor of size 0, and *)
(* otherwise goes on to the next with the bytes that are left from there:  *)
(* none behind the last one, which the total length may have cut.          *)
LEMMA OneTurn ==
  ASSUME Shape, Located, rem # 0,
         IF loc \in 1..Len(desc) THEN rem = total - desc[loc].at ELSE rem = 0
  PROVE  /\ loc \in 1..Len(desc)
         /\ \/ desc[loc].size = 0 /\ Advance.loc = loc /\ Advance.rem = rem
            \/ /\ desc[loc].size # 0 /\ Advance.loc = loc + 1
               /\ loc < Len(desc) => Advance.rem = total - desc[loc + 1].at
               /\ loc = Len(desc) => Advance.rem = 0
<1> DEFINE s == desc[loc].size
           a == desc[loc].at
<1>1. loc \in 1..Len(desc) /\ rem = total - a
  OBVIOUS
<1>2. s \in Nat /\ a \in Nat /\ total \in Nat /\ a < total
  BY <1>1, Elements DEF Shape
<1>3. rem \in Nat /\ rem > 0
  BY <1>1, <1>2
<1>4. CASE s = 0
  BY <1>1, <1>3, <1>4 DEF Advance
<1>5. CASE s # 0 /\ loc < Len(desc)
  <2>1. desc[loc + 1].at = a + s /\ desc[loc + 1].at < total
    BY <1>1, <1>5 DEF Shape
  <2>2. ~(rem < s)
    BY <2>1, <1>1, <1>2
  <2>3. Advance = [loc |-> loc + 1, rem |-> rem - s]
    BY <2>2, <1>5 DEF Advance
  <2>4. QED BY <2>1, <2>3, <1>1, <1>2, <1>5
<1>6. CASE s # 0 /\ loc = Len(desc)
  <2>1. total <= a + s
    BY <1>6 DEF Shape
  <2>2. rem < s \/ rem = s
    BY <2>1, <1>1, <1>2
  <2>3. Advance = [loc |-> loc + 1, rem |-> 0]
    BY <2>2, <1>2, <1>3, <1>6 DEF Advance
  <2>4. QED BY <2>3, <1>1, <1>6
<1>7. QED BY <1>1, <1>4, <1>5, <1>6

(* The device and the buffer do not change. *)
LEMMA SameMatches ==
  ASSUME UNCHANGED device
  PROVE  /\ Shape => Shape'
         /\ \A i, e : Taken(i, e)' <=> Taken(i, e)
         /\ \A n : Header(n)' = Header(n)
BY DEF device, Shape, Taken, Belongs, Header

LEMMA GetInv ==
  ASSUME Inv, GetConfigDescriptor
  PROVE  Inv'
<1> USE DEF Inv, GetConfigDescriptor
<1>1. UNCHANGED device /\ UNCHANGED <<loc, HIDInterface, DataINEndpoint>> /\ loc = 1
  BY DEF Located
<1>2. CASE pc' = "done"
  <2>1. result' \notin {"SuccessfulConfigRead", "NoCompatibleInterfaceFound"}
    BY <1>2 DEF Return
  <2>2. QED
    BY <1>1, <1>2, <2>1, SameMatches
    DEF Located, InStep, AtInterface, AtEndpoint, AtCandidate, AtEnd,
        TakenIsFirst, NoneTaken
<1>3. CASE pc' # "done"
  <2>1. /\ pc' = "interface" /\ rem' = total /\ desc[1].kind = "configuration"
        /\ UNCHANGED result /\ pc = "get"
    BY <1>3 DEF Return
  <2>2. InStep'
    BY <1>1, <2>1 DEF InStep, Shape, device
  <2>3. AtInterface'
    <3> SUFFICES ASSUME NEW i \in 1..Len(desc), NEW e \in 1..Len(desc), Taken(i, e)
                 PROVE  i > loc
      BY <1>1, SameMatches DEF AtInterface, ToLookAt, device
    <3>1. i # 1
      BY <2>1 DEF Taken
    <3>2. QED BY <1>1, <3>1
  <2>4. AtEnd'
    BY <2>1 DEF AtEnd, TakenIsFirst, NoneTaken
  <2>5. QED
    BY <1>1, <2>1, <2>2, <2>3, <2>4, SameMatches
    DEF Located, AtEndpoint, AtCandidate, device
<1>4. QED BY <1>2, <1>3

(* A turn, taken with the location moved. *)
LEMMA TurnInStep ==
  ASSUME Shape, Located, InStep, pc \in {"interface", "endpoint"}, rem # 0,
         UNCHANGED device, loc' = Advance.loc, rem' = Advance.rem, pc' # "get"
  PROVE  InStep' /\ Located'
<1>1. Len(desc) \in Nat
  BY DEF Shape
<1>2. QED
  BY <1>1, OneTurn DEF InStep, Located, device

LEMMA InterfaceInv ==
  ASSUME Inv, NextKeyboardInterface
  PROVE  Inv'
<1> USE DEF Inv, NextKeyboardInterface
<1>1. UNCHANGED device /\ pc = "interface" /\ Len(desc) \in Nat
  BY DEF Shape
<1>2. CASE rem = 0
  <2>1. loc = Len(desc) + 1
    <3>1. loc \in 1..Len(desc) => rem > 0
      BY <1>1, Elements DEF InStep, Shape
    <3>2. QED BY <1>1, <1>2, <3>1 DEF Located
  <2>2. \A i, e \in 1..Len(desc) : ~Taken(i, e)
    BY <1>1, <2>1 DEF AtInterface, ToLookAt
  <2>3. /\ pc' = "done" /\ result' = "NoCompatibleInterfaceFound"
        /\ loc' = loc
    BY <1>2 DEF Return
  <2>4. AtEnd'
    BY <1>1, <2>2, <2>3, SameMatches DEF AtEnd, TakenIsFirst, NoneTaken, device
  <2>5. QED
    BY <1>1, <2>3, <2>4, SameMatches
    DEF Located, InStep, AtInterface, AtEndpoint, AtCandidate, device
<1>3. CASE rem # 0
  <2>1. /\ loc' = Advance.loc /\ rem' = Advance.rem /\ UNCHANGED result
        /\ IF Header(loc') = "keyboard"
           THEN HIDInterface' = loc' /\ pc' = "endpoint"
           ELSE UNCHANGED <<HIDInterface, pc>>
    BY <1>3
  <2>2. InStep' /\ Located'
    BY <1>1, <1>3, <2>1, TurnInStep
  <2>3. /\ loc \in 1..Len(desc)
        /\ \/ desc[loc].size = 0 /\ loc' = loc
           \/ desc[loc].size # 0 /\ loc' = loc + 1
    BY <1>1, <1>3, <2>1, OneTurn DEF InStep
  <2>4. \A i, e \in 1..Len(desc) : Taken(i, e) =>
          i > loc' \/ (i = loc' /\ (desc[loc].size = 0 \/ Header(loc') = "keyboard"))
    <3> SUFFICES ASSUME NEW i \in 1..Len(desc), NEW e \in 1..Len(desc), Taken(i, e)
                 PROVE  i > loc' \/ (i = loc' /\ (desc[loc].size = 0 \/ Header(loc') = "keyboard"))
      OBVIOUS
    <3>1. i > loc \/ (i = loc /\ desc[loc].size = 0)
      BY <1>1 DEF AtInterface, ToLookAt
    <3>2. Header(i) = "keyboard"
      BY DEF Taken, Header
    <3>3. QED BY <2>3, <3>1, <3>2
  <2>5. \A i, e \in 1..Len(desc) : Taken(i, e) => i < e
    BY DEF Taken, Belongs
  <2>6. AtInterface'
    BY <1>1, <2>1, <2>3, <2>4, SameMatches DEF AtInterface, ToLookAt, device
  <2>7. AtEndpoint'
    BY <1>1, <2>1, <2>2, <2>3, <2>4, <2>5, SameMatches
    DEF AtEndpoint, SinceInterface, device, Located
  <2>8. AtCandidate' /\ AtEnd'
    BY <1>1, <2>1 DEF AtCandidate, AtEnd, TakenIsFirst, NoneTaken
  <2>9. QED BY <1>1, <2>2, <2>6, <2>7, <2>8, SameMatches
<1>4. QED BY <1>2, <1>3

LEMMA EndpointInv ==
  ASSUME Inv, NextDataEndpoint
  PROVE  Inv'
<1> USE DEF Inv, NextDataEndpoint
<1>1. /\ UNCHANGED device /\ pc = "endpoint" /\ Len(desc) \in Nat
      /\ UNCHANGED <<HIDInterface, DataINEndpoint, result>>
  BY DEF Shape
<1>2. \A i, e \in 1..Len(desc) : Taken(i, e) => /\ HIDInterface <= i /\ loc < e /\ i < e
                                               /\ desc[i].kind \in Interfaces
                                               /\ desc[e].kind \notin Interfaces
  BY <1>1 DEF AtEndpoint, Taken, Belongs, Interfaces
<1>3. SinceInterface
  BY <1>1 DEF AtEndpoint
<1>4. CASE rem = 0
  <2>1. loc = Len(desc) + 1
    <3>1. loc \in 1..Len(desc) => rem > 0
      BY <1>1, Elements DEF InStep, Shape
    <3>2. QED BY <1>1, <1>4, <3>1 DEF Located
  <2>2. pc' = "interface" /\ UNCHANGED <<loc, rem>>
    BY <1>4
  <2>3. AtInterface'
    BY <1>1, <1>2, <2>1, <2>2, SameMatches DEF AtInterface, ToLookAt, device
  <2>4. QED
    BY <1>1, <2>2, <2>3, SameMatches
    DEF Located, InStep, AtEndpoint, AtCandidate, AtEnd, TakenIsFirst, NoneTaken, device
<1>5. CASE rem # 0
  <2>1. /\ loc \in 1..Len(desc)
        /\ \/ desc[loc].size = 0 /\ Advance.loc = loc
           \/ desc[loc].size # 0 /\ Advance.loc = loc + 1
    BY <1>1, <1>5, OneTurn DEF InStep
  <2>2. CASE Header(Advance.loc) \in Interfaces
    <3>1. pc' = "interface" /\ UNCHANGED <<loc, rem>>
      BY <1>5, <2>2
    <3>2. AtInterface'
      <4> SUFFICES ASSUME NEW i \in 1..Len(desc), NEW e \in 1..Len(desc), Taken(i, e)
                   PROVE  ToLookAt(i)
        BY <1>1, <3>1, SameMatches DEF AtInterface, ToLookAt, device
      <4>1. HIDInterface <= i /\ loc < e /\ i < e /\ desc[i].kind \in Interfaces
            /\ desc[e].kind \notin Interfaces
        BY <1>2
      <4>2. HIDInterface < i => i > loc
        BY <1>3, <4>1, <2>1 DEF SinceInterface
      <4>3. CASE HIDInterface = i
        <5>1. CASE Advance.loc = loc + 1
          <6>1. loc + 1 \in 1..Len(desc) /\ desc[loc + 1].kind \in Interfaces
            BY <2>1, <2>2, <5>1, <4>1, <1>1 DEF Header
          <6>2. loc + 1 # e /\ i < loc + 1 /\ loc + 1 < e
            BY <6>1, <4>1, <4>3, <1>3, <2>1 DEF SinceInterface
          <6>3. QED BY <6>1, <6>2 DEF Taken, Belongs
        <5>2. CASE Advance.loc = loc /\ desc[loc].size = 0
          <6>1. desc[loc].kind \in Interfaces
            BY <2>1, <2>2, <5>2 DEF Header
          <6>2. HIDInterface = loc
            BY <6>1, <1>3, <2>1 DEF SinceInterface
          <6>3. QED BY <6>2, <4>3, <5>2 DEF ToLookAt
        <5>3. QED BY <2>1, <5>1, <5>2
      <4>4. QED BY <4>1, <4>2, <4>3, <1>3, <2>1 DEF ToLookAt, SinceInterface
    <3>3. QED
      BY <1>1, <3>1, <3>2, SameMatches
      DEF Located, InStep, AtEndpoint, AtCandidate, AtEnd, TakenIsFirst, NoneTaken, device
  <2>3. CASE Header(Advance.loc) \notin Interfaces
    <3>1. /\ loc' = Advance.loc /\ rem' = Advance.rem
          /\ pc' = IF Header(loc') \in Endpoints THEN "candidate" ELSE pc
      BY <1>5, <2>3
    <3>2. InStep' /\ Located'
      BY <1>1, <1>5, <3>1, TurnInStep
    <3>3. loc' = loc \/ loc' = loc + 1
      BY <2>1, <3>1
    <3>4. SinceInterface'
      <4>1. ASSUME NEW n \in 1..Len(desc), HIDInterface < n, n <= loc'
            PROVE  desc[n].kind \notin Interfaces
        <5>1. n <= loc \/ n = loc'
          BY <2>1, <3>3, <4>1
        <5>2. n = loc' => desc[n].kind \notin Interfaces
          BY <2>3, <3>1 DEF Header
        <5>3. QED BY <5>1, <5>2, <4>1, <1>3 DEF SinceInterface
      <4>2. HIDInterface \in 1..loc'
        BY <1>3, <2>1, <3>3 DEF SinceInterface
      <4>3. QED BY <1>1, <1>3, <4>1, <4>2, SameMatches DEF SinceInterface, device
    <3>5. \A i, e \in 1..Len(desc) : Taken(i, e) => HIDInterface <= i /\ loc' <= e
      BY <1>2, <2>1, <3>3
    <3>6. AtEndpoint'
      <4> SUFFICES ASSUME pc' = "endpoint", NEW i \in 1..Len(desc), NEW e \in 1..Len(desc),
                          Taken(i, e)
                   PROVE  loc' # e
        BY <1>1, <3>4, <3>5, <2>1, <3>3, SameMatches DEF AtEndpoint, device
      <4>1. Header(loc') \notin Endpoints
        BY <3>1
      <4>2. Header(e) \in Endpoints
        BY DEF Taken, Header, Endpoints
      <4>3. QED BY <4>1, <4>2
    <3>7. AtCandidate'
      <4> SUFFICES ASSUME pc' = "candidate"
                   PROVE  HIDInterface < loc' /\ Header(loc') \in Endpoints
        BY <1>1, <3>4, <3>5, SameMatches DEF AtCandidate, device
      <4>1. Header(loc') \in Endpoints
        BY <3>1, <1>1
      <4>2. Header(HIDInterface) \notin Endpoints
        BY <1>3 DEF SinceInterface, Endpoints
      <4>3. HIDInterface # loc' /\ HIDInterface \in 1..loc'
        BY <1>1, <4>1, <4>2, <3>4 DEF SinceInterface
      <4>4. QED BY <4>1, <4>3, <2>1, <3>3
    <3>8. AtInterface' /\ AtEnd'
      BY <1>1, <3>1 DEF AtInterface, AtEnd, TakenIsFirst, NoneTaken
    <3>9. QED BY <1>1, <3>2, <3>6, <3>7, <3>8, SameMatches
  <2>4. QED BY <2>2, <2>3
<1>6. QED BY <1>4, <1>5

LEMMA CandidateInv ==
  ASSUME Inv, TestEndpoint
  PROVE  Inv'
<1>1. /\ UNCHANGED device /\ pc = "candidate"
      /\ UNCHANGED <<loc, rem, HIDInterface>>
      /\ Shape /\ Located /\ InStep /\ AtCandidate /\ AtEnd
  BY DEF Inv, TestEndpoint
<1>2. /\ SinceInterface /\ HIDInterface < loc /\ Header(loc) \in Endpoints
      /\ \A i, e \in 1..Len(desc) : Taken(i, e) => HIDInterface <= i /\ loc <= e
  BY <1>1 DEF AtCandidate
<1>3. Len(desc) \in Nat /\ loc \in 1..(Len(desc) + 1) /\ HIDInterface \in 1..loc
  BY <1>1, <1>2 DEF Shape, Located, SinceInterface
<1>4. CASE Header(loc) \in {"interrupt IN", "bulk IN"}
  <2>1. /\ DataINEndpoint' = loc /\ result' = "SuccessfulConfigRead" /\ pc' = "done"
    BY <1>4 DEF TestEndpoint, Return
  <2>2. \/ /\ {HIDInterface, loc} \subseteq 1..Len(desc)
           /\ Taken(HIDInterface, loc)
        \/ loc = Len(desc) + 1 /\ beyond \in Endpoints
    <3>1. CASE loc \in 1..Len(desc)
      <4>1. HIDInterface \in 1..Len(desc)
        BY <1>3, <3>1
      <4>2. /\ desc[HIDInterface].kind = "keyboard"
            /\ desc[loc].kind \in {"interrupt IN", "bulk IN"}
        BY <1>2, <1>4, <3>1, <4>1 DEF SinceInterface, Header
      <4>3. Belongs(HIDInterface, loc)
        BY <1>3, <1>2, <3>1 DEF SinceInterface, Belongs
      <4>4. QED BY <3>1, <4>1, <4>2, <4>3 DEF Taken
    <3>2. CASE loc = Len(desc) + 1
      BY <1>3, <1>2, <3>2 DEF Header
    <3>3. QED BY <1>3, <3>1, <3>2
  <2>3. AtEnd'
    BY <1>1, <1>2, <2>1, <2>2, SameMatches DEF AtEnd, TakenIsFirst, NoneTaken, device
  <2>4. QED
    BY <1>1, <2>1, <2>3, SameMatches
    DEF Inv, Located, InStep, AtInterface, AtEndpoint, AtCandidate, device
<1>5. CASE Header(loc) \notin {"interrupt IN", "bulk IN"}
  <2>1. pc' = "endpoint" /\ UNCHANGED <<DataINEndpoint, result>>
    BY <1>5 DEF TestEndpoint
  <2>2. AtEndpoint'
    <3> SUFFICES ASSUME NEW i \in 1..Len(desc), NEW e \in 1..Len(desc), Taken(i, e)
                 PROVE  HIDInterface <= i /\ loc < e
      BY <1>1, <1>2, <2>1, SameMatches DEF AtEndpoint, SinceInterface, device
    <3>1. loc # e
      BY <1>5 DEF Taken, Header
    <3>2. QED BY <1>3, <1>2, <3>1
  <2>3. QED
    BY <1>1, <2>1, <2>2, SameMatches
    DEF Inv, Located, InStep, AtInterface, AtCandidate, AtEnd, TakenIsFirst, NoneTaken, device
<1>6. QED BY <1>4, <1>5

LEMMA Invariance == Spec => []Inv
<1>1. Inv /\ [Next]_vars => Inv'
  <2> SUFFICES ASSUME Inv, UNCHANGED vars PROVE Inv'
    BY GetInv, InterfaceInv, EndpointInv, CandidateInv DEF Next, Search, Done
  <2>1. UNCHANGED device /\ UNCHANGED <<pc, loc, rem, HIDInterface, DataINEndpoint, result>>
    BY DEF vars
  <2>2. QED
    BY <2>1, SameMatches
    DEF Inv, Located, InStep, AtInterface, ToLookAt, AtEndpoint, AtCandidate,
        SinceInterface, AtEnd, TakenIsFirst, NoneTaken, device
<1>2. QED BY <1>1, InitInv, PTL DEF Spec

-----------------------------------------------------------------------------
(* What is found is an IN endpoint of a keyboard interface, with its       *)
(* interface, and no interrupt IN endpoint comes before it: when the       *)
(* search goes back before an interface, no match lies behind it.          *)
THEOREM FirstIsFound == Spec => []FoundIsFirst
<1>1. Inv => FoundIsFirst
  BY DEF Inv, AtEnd, TakenIsFirst, FoundIsFirst, Match
<1>2. QED BY <1>1, Invariance, PTL

(* And no interrupt IN endpoint of a keyboard interface is ever missed. *)
THEOREM MatchIsFound == Spec => []NothingMissed
<1>1. Inv => NothingMissed
  BY DEF Inv, AtEnd, NoneTaken, NothingMissed, Match
<1>2. QED BY <1>1, Invariance, PTL

(* The bytes left are those from the location on, whatever sizes the       *)
(* descriptors state and wherever the total length cuts the last.          *)
THEOREM CountsAgree == Spec => []InStep
<1>1. Inv => InStep
  BY DEF Inv
<1>2. QED BY <1>1, Invariance, PTL

(* A turn takes a byte at least, where no descriptor states the size 0.    *)
LEMMA TurnTakes ==
  ASSUME Inv, pc \in {"interface", "endpoint", "candidate"}, rem # 0,
         \A n \in 1..Len(desc) : desc[n].size > 0
  PROVE  rem \in Nat /\ Advance.rem \in 0..(rem - 1)
<1>1. loc \in 1..Len(desc) /\ rem = total - desc[loc].at
  BY DEF Inv, InStep
<1>2. /\ total \in Nat /\ desc[loc].at \in Nat /\ desc[loc].size \in Nat
      /\ desc[loc].at < total /\ desc[loc].size > 0
  BY <1>1, Elements DEF Inv, Shape
<1>3. rem \in Nat /\ rem > 0
  BY <1>1, <1>2
<1>4. CASE rem < desc[loc].size
  <2>1. Advance.rem = rem - rem
    BY <1>4 DEF Advance
  <2>2. QED BY <1>3, <2>1
<1>5. CASE ~(rem < desc[loc].size)
  <2>1. Advance.rem = rem - desc[loc].size
    BY <1>5 DEF Advance
  <2>2. QED BY <1>2, <1>3, <1>5, <2>1
<1>6. QED BY <1>4, <1>5

(* The search ends: three turns a byte of the configuration at most, for   *)
(* every configuration none of whose descriptors states the size 0.        *)
THEOREM SearchGetsNearer == Spec => EveryTurnIsNearer
<1> DEFINE Turn == pc # "get" /\ (\A n \in 1..Len(desc) : desc[n].size > 0) =>
                     pc' = "done" \/ TurnsLeft' \in 0..(TurnsLeft - 1)
<1>1. ASSUME Inv, Next PROVE Turn \/ UNCHANGED vars
  <2> SUFFICES ASSUME pc # "get", \A n \in 1..Len(desc) : desc[n].size > 0,
                      pc' # "done"
               PROVE  TurnsLeft' \in 0..(TurnsLeft - 1) \/ UNCHANGED vars
    BY DEF Turn
  <2>1. pc \in {"interface", "endpoint", "candidate"} => rem \in Nat
    BY <1>1, Elements DEF Inv, Shape, InStep
  <2>2. CASE NextKeyboardInterface
    <3>1. rem # 0 /\ pc = "interface" /\ rem' = Advance.rem
      BY <2>2 DEF NextKeyboardInterface, Return
    <3>2. rem \in Nat /\ rem' \in 0..(rem - 1)
      BY <1>1, <3>1, TurnTakes
    <3>3. pc' = "endpoint" \/ pc' = "interface"
      BY <2>2, <3>1 DEF NextKeyboardInterface
    <3>4. QED BY <3>1, <3>2, <3>3 DEF TurnsLeft
  <2>3. CASE NextDataEndpoint
    <3>1. CASE rem' = rem /\ pc' = "interface"
      BY <2>1, <2>3, <3>1 DEF NextDataEndpoint, TurnsLeft
    <3>2. CASE rem > 0 /\ rem' = Advance.rem /\ pc' \in {"candidate", "endpoint"}
      <4>1. pc = "endpoint" /\ rem # 0
        BY <2>3, <3>2 DEF NextDataEndpoint
      <4>2. rem \in Nat /\ rem' \in 0..(rem - 1)
        BY <1>1, <3>2, <4>1, TurnTakes
      <4>3. QED BY <3>2, <4>1, <4>2 DEF TurnsLeft
    <3>3. QED BY <2>3, <3>1, <3>2 DEF NextDataEndpoint
  <2>4. CASE TestEndpoint
    <3>1. pc = "candidate" /\ pc' = "endpoint" /\ rem' = rem
      BY <2>4 DEF TestEndpoint, Return
    <3>2. QED BY <2>1, <3>1 DEF TurnsLeft
  <2>5. CASE GetConfigDescriptor \/ Done
    BY <2>5 DEF GetConfigDescriptor, Done
  <2>6. QED BY <1>1, <2>2, <2>3, <2>4, <2>5 DEF Next, Search
<1>2. Inv /\ [Next]_vars => [Turn]_vars
  BY <1>1
<1>3. QED BY <1>2, Invariance, PTL DEF Spec, EveryTurnIsNearer
=============================================================================
