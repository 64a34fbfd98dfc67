----------------------------- MODULE InOutProofs -----------------------------
(***************************************************************************)
(* Theorems about InOut, for every size of the buffer up to the 255 cells  *)
(* of the program, every set of characters and every choice of the points  *)
(* of keyHandler where SPI_STC_vect can fall.                              *)
(***************************************************************************)
EXTENDS InOut, TLAPS, SequenceTheorems

(* Adding one to an index modulo MaxData gives a cell. *)
LEMMA NextCellIsCell ==
  ASSUME NEW t \in Index
  PROVE  nextCell(t) \in Cell /\ (t >= 0 => nextCell(t) = cellAfter(t, 1))
BY MaxDataAssumption DEF Index, Cell, nextCell, cellAfter

(* sizeBuffer answers 0 for an empty buffer and for no other one, though   *)
(* it returns a uint8_t and whatever values the two indices have.          *)
LEMMA SizeZeroIsEmpty ==
  ASSUME NEW b \in BufferType
  PROVE  /\ sizeBuffer(b) \in Byte
         /\ sizeBuffer(b) = 0 <=> isEmpty(b)
<1> DEFINE n == IF b.tail < b.head THEN MaxData - (b.head - b.tail) + 1
                                   ELSE b.tail - b.head + 1
<1>1. b.head \in Index /\ b.tail \in Index
  BY DEF BufferType
<1>2. CASE isEmpty(b)
  BY <1>2 DEF sizeBuffer, Byte
<1>3. CASE ~isEmpty(b)
  <2>1. b.head \in Int /\ b.tail \in Int
    BY <1>1 DEF Index
  <2>2. 0 <= b.head /\ b.head < MaxData /\ -1 <= b.tail /\ b.tail < MaxData
    BY <1>1, <1>3, MaxDataAssumption DEF Index, isEmpty
  <2>3. n \in Int /\ 1 <= n /\ n <= MaxData
    BY <2>1, <2>2, MaxDataAssumption
  <2>4. n % 256 = n
    BY <2>3, MaxDataAssumption
  <2>5. sizeBuffer(b) = n
    BY <1>3, <2>4 DEF sizeBuffer
  <2>6. QED BY <1>3, <2>3, <2>5, MaxDataAssumption DEF Byte
<1>4. QED BY <1>2, <1>3

(* dequeue keeps both indices in the array, returns a character, and never *)
(* makes an empty buffer hold something.                                   *)
LEMMA DequeueType ==
  ASSUME NEW b \in BufferType
  PROVE  /\ dequeue(b) \in BufferType
         /\ dequeueKey(b) \in Byte
         /\ isEmpty(b) => isEmpty(dequeue(b))
<1>1. /\ b.head \in Index /\ b.tail \in Index /\ b.data \in [Cell -> Byte]
      /\ ~isEmpty(b) => b.head \in Cell
  BY MaxDataAssumption DEF BufferType, isEmpty, Index, Cell
<1>2. ~isEmpty(b) => (b.head + 1) % MaxData \in Index
  BY <1>1, MaxDataAssumption DEF Cell, Index
<1>3. -1 \in Index
  BY MaxDataAssumption DEF Index
<1>4. dequeue(b) \in BufferType
  BY <1>1, <1>2, <1>3 DEF dequeue, BufferType
<1>5. dequeueKey(b) \in Byte
  BY <1>1 DEF dequeueKey, Byte
<1>6. QED BY <1>4, <1>5 DEF dequeue

-----------------------------------------------------------------------------
(* The two indices stay in the array, the answer stays a byte, and so on,  *)
(* whatever steps of keyHandler the interrupt falls between.               *)
LEMMA InitTypeOK == Init => TypeOK
<1>1. -1 \in Index /\ 0 \in Byte
  BY MaxDataAssumption DEF Index, Byte
<1>2. EmptyBuffer \in BufferType
  BY <1>1 DEF EmptyBuffer, BufferType
<1>3. QED BY <1>1, <1>2, StrayAssumption DEF Init, TypeOK, Point, EnqueuePoint

LEMMA NextTypeOK == TypeOK /\ [Next]_iovars => TypeOK'
<1> SUFFICES ASSUME TypeOK, [Next]_iovars PROVE TypeOK'
  OBVIOUS
<1> USE DEF TypeOK
<1>1. buffer.tail \in Index /\ buffer.head \in Index /\ 0 \in Index
  BY MaxDataAssumption DEF BufferType, Index
<1>2. nextCell(ktail) \in Cell /\ nextCell(ktail) \in Index
  BY NextCellIsCell, MaxDataAssumption DEF Cell, Index
<1>3. ASSUME NEW k \in Key, KeyHandler(k) PROVE TypeOK'
  BY <1>1, <1>3, KeyAssumption DEF KeyHandler, shared, Point, EnqueuePoint
<1>4. CASE WriteTail
  BY <1>2, <1>4 DEF WriteTail, BufferType, Point, EnqueuePoint
<1>5. CASE WriteData
  BY <1>2, <1>5 DEF WriteData, BufferType, Point, EnqueuePoint
<1>6. CASE SetHead
  BY <1>1, <1>6 DEF SetHead, BufferType, Point, EnqueuePoint
<1>7. CASE SetInt
  BY <1>7 DEF SetInt
<1>8. ASSUME NEW b \in Request, SpiIsr(b) PROVE TypeOK'
  <2> USE <1>8 DEF SpiIsr, local
  <2>1. CASE IsrType(b)
    BY <2>1 DEF IsrType, Keyboard, Byte
  <2>2. CASE IsrSize(b)
    BY <2>2, SizeZeroIsEmpty DEF IsrSize
  <2>3. CASE IsrKey(b)
    BY <2>3, DequeueType DEF IsrKey
  <2>4. QED BY <2>1, <2>2, <2>3
<1>9. CASE UNCHANGED iovars
  BY <1>9 DEF iovars, shared, local
<1>10. QED BY <1>3, <1>4, <1>5, <1>6, <1>7, <1>8, <1>9 DEF Next, HandlerStep

THEOREM TypeCorrect == Spec => []TypeOK
BY InitTypeOK, NextTypeOK, PTL DEF Spec

-----------------------------------------------------------------------------
(* NoStrandedKey is inductive given the types.  Only SPI_STC_vect can      *)
(* break it: it lowers the line when the buffer it leaves has size 0, and  *)
(* size 0 means empty, whatever the race has made of the indices.          *)
LEMMA NextNoStrandedKey ==
  TypeOK /\ NoStrandedKey /\ [Next]_iovars => NoStrandedKey'
<1> SUFFICES ASSUME TypeOK, NoStrandedKey, [Next]_iovars PROVE NoStrandedKey'
  OBVIOUS
<1> USE DEF NoStrandedKey
<1>1. ASSUME NEW k \in Key, KeyHandler(k) PROVE NoStrandedKey'
  BY <1>1 DEF KeyHandler
<1>2. CASE WriteTail \/ WriteData \/ SetHead
  BY <1>2 DEF WriteTail, WriteData, SetHead
<1>3. CASE SetInt
  BY <1>3 DEF SetInt
<1>4. ASSUME NEW b \in Request, SpiIsr(b) PROVE NoStrandedKey'
  <2>1. at' = at
    BY <1>4 DEF SpiIsr, local
  <2>2. CASE IsrType(b) \/ IsrSize(b)
    BY <2>1, <2>2 DEF IsrType, IsrSize, isEmpty
  <2>3. CASE IsrKey(b)
    <3>1. buffer' \in BufferType
      BY <2>3, DequeueType DEF IsrKey, TypeOK
    <3>2. ~isEmpty(buffer)' => ~isEmpty(buffer) /\ sizeBuffer(buffer') # 0
      BY <2>3, <3>1, DequeueType, SizeZeroIsEmpty DEF IsrKey, TypeOK, isEmpty
    <3>3. QED BY <2>1, <2>3, <3>2 DEF IsrKey
  <2>4. QED BY <1>4, <2>2, <2>3 DEF SpiIsr
<1>5. CASE UNCHANGED iovars
  BY <1>5 DEF iovars, shared, local, isEmpty
<1>6. QED BY <1>1, <1>2, <1>3, <1>4, <1>5 DEF Next, HandlerStep

(* A character that waits once keyHandler has returned has the request     *)
(* line up, for every buffer size and wherever interrupts hit keyHandler.  *)
THEOREM KeyNeverStranded == Spec => []NoStrandedKey
<1>1. Init => NoStrandedKey
  BY DEF Init, NoStrandedKey, EmptyBuffer, isEmpty
<1>2. QED BY <1>1, TypeCorrect, NextNoStrandedKey, PTL DEF Spec
-----------------------------------------------------------------------------
(* InOut implements KeyQueue until an interrupt falls inside enqueue: the  *)
(* ring buffer, filled by the three writes of enqueue and emptied by       *)
(* SPI_STC_vect, is the bounded queue.                                     *)

(* The characters from cell h to cell t of an array d. *)
Count(h, t) == IF h = -1 THEN 0
               ELSE IF t < h THEN MaxData - (h - t) + 1 ELSE t - h + 1

View(h, t, d) == [i \in 1..Count(h, t) |-> d[cellAfter(h, i - 1)]]

(* The indices of a buffer, empty or not. *)
Ends(h, t) == h \in Index /\ t \in Index /\ (h = -1 <=> t = -1)

Data == [Cell -> Byte]

-----------------------------------------------------------------------------
(* How many there are, and where they lie. *)
LEMMA CountRange ==
  ASSUME NEW h, NEW t, Ends(h, t)
  PROVE  /\ Count(h, t) \in 0..MaxData
         /\ Count(h, t) = 0 <=> h = -1
         /\ Count(h, t) = MaxData <=> nextCell(t) = h
         /\ \A i \in 1..Count(h, t) : cellAfter(h, i - 1) \in Cell
BY MaxDataAssumption DEF Ends, Index, Cell, Count, nextCell, cellAfter

LEMMA ViewType ==
  ASSUME NEW h, NEW t, Ends(h, t), NEW d \in Data
  PROVE  /\ View(h, t, d) \in Seq(Byte)
         /\ Len(View(h, t, d)) = Count(h, t)
         /\ \A i \in 1..Count(h, t) : View(h, t, d)[i] = d[cellAfter(h, i - 1)]
         /\ View(h, t, d) = <<>> <=> h = -1
<1>1. Count(h, t) \in Nat
  BY CountRange, MaxDataAssumption
<1>2. \A i \in 1..Count(h, t) : d[cellAfter(h, i - 1)] \in Byte
  BY CountRange DEF Data
<1>3. View(h, t, d) \in [1..Count(h, t) -> Byte]
  BY <1>2 DEF View
<1>4. View(h, t, d) \in Seq(Byte)
  BY <1>1, <1>3, SeqDef
<1>5. Len(View(h, t, d)) = Count(h, t)
  BY <1>1, <1>3, <1>4, LenProperties
<1>6. View(h, t, d) = <<>> <=> Count(h, t) = 0
  BY <1>4, <1>5, EmptySeq
<1>7. QED BY <1>4, <1>5, <1>6, CountRange DEF View

(* A character written behind the tail disturbs no other, and joins the    *)
(* queue when head and tail hold it.                                       *)
LEMMA WriteBehind ==
  ASSUME NEW h, NEW t, Ends(h, t), nextCell(t) # h,
         NEW d \in Data, NEW k \in Byte
  PROVE  View(h, t, [d EXCEPT ![nextCell(t)] = k]) = View(h, t, d)
<1>1. \A i \in 1..Count(h, t) : cellAfter(h, i - 1) # nextCell(t)
                                /\ cellAfter(h, i - 1) \in Cell
  BY MaxDataAssumption DEF Ends, Index, Cell, Count, nextCell, cellAfter
<1>2. \A i \in 1..Count(h, t) :
        [d EXCEPT ![nextCell(t)] = k][cellAfter(h, i - 1)] = d[cellAfter(h, i - 1)]
  BY <1>1 DEF Data
<1>3. QED BY <1>2 DEF View

LEMMA Joined ==
  ASSUME NEW h, NEW t, Ends(h, t), nextCell(t) # h, NEW d \in Data
  PROVE  /\ Ends(IF h = -1 THEN 0 ELSE h, nextCell(t))
         /\ View(IF h = -1 THEN 0 ELSE h, nextCell(t), d)
              = Append(View(h, t, d), d[nextCell(t)])
<1> DEFINE g == IF h = -1 THEN 0 ELSE h
           u == nextCell(t)
           n == Count(h, t)
           v == View(h, t, d)
           w == View(g, u, d)
<1>1. Ends(g, u) /\ u \in Cell
  BY MaxDataAssumption DEF Ends, Index, Cell, nextCell
<1>2. Count(g, u) = n + 1 /\ n \in Nat
  BY MaxDataAssumption DEF Ends, Index, Count, nextCell
<1>3. cellAfter(g, n) = u
  BY MaxDataAssumption DEF Ends, Index, Count, nextCell, cellAfter
<1>4. \A i \in 1..n : cellAfter(g, i - 1) = cellAfter(h, i - 1)
  BY DEF Count, cellAfter
<1>5. d[u] \in Byte
  BY <1>1 DEF Data
<1> HIDE DEF g, u, n, v, w
<1>6. /\ v \in Seq(Byte) /\ Len(v) = n
      /\ \A i \in 1..n : v[i] = d[cellAfter(h, i - 1)]
  BY ViewType DEF v, n
<1>7. /\ w \in Seq(Byte) /\ Len(w) = n + 1
      /\ \A i \in 1..(n + 1) : w[i] = d[cellAfter(g, i - 1)]
  BY <1>1, <1>2, ViewType DEF w
<1>8. /\ Append(v, d[u]) \in Seq(Byte) /\ Len(Append(v, d[u])) = n + 1
      /\ \A i \in 1..n : Append(v, d[u])[i] = v[i]
      /\ Append(v, d[u])[n + 1] = d[u]
  BY <1>2, <1>5, <1>6, AppendProperties
<1>9. \A i \in 1..(n + 1) : w[i] = Append(v, d[u])[i]
  <2> SUFFICES ASSUME NEW i \in 1..(n + 1) PROVE w[i] = Append(v, d[u])[i]
    OBVIOUS
  <2>1. CASE i \in 1..n
    BY <2>1, <1>4, <1>6, <1>7, <1>8
  <2>2. CASE i = n + 1
    <3>1. i - 1 = n
      BY <2>2, <1>2
    <3>2. QED BY <2>2, <3>1, <1>3, <1>7, <1>8
  <2>3. n \in Nat
    BY <1>2
  <2>4. i \in 1..n \/ i = n + 1
    BY <2>3
  <2>5. QED BY <2>1, <2>2, <2>4
<1>10. w = Append(v, d[u])
  BY <1>7, <1>8, <1>9, SeqEqual
<1>11. QED BY <1>1, <1>10 DEF g, u, v, w

(* The oldest character leaves. *)
LEMMA Left ==
  ASSUME NEW h, NEW t, Ends(h, t), h # -1, NEW d \in Data
  PROVE  /\ Head(View(h, t, d)) = d[h]
         /\ h = t => Tail(View(h, t, d)) = <<>>
         /\ h # t => /\ Ends((h + 1) % MaxData, t)
                     /\ View((h + 1) % MaxData, t, d) = Tail(View(h, t, d))
<1> DEFINE n == Count(h, t)
           v == View(h, t, d)
           g == (h + 1) % MaxData
           w == View(g, t, d)
<1>1. n \in Nat /\ n > 0 /\ cellAfter(h, 0) = h
  BY MaxDataAssumption DEF Ends, Index, Count, cellAfter
<1>2. h = t => n = 1
  BY MaxDataAssumption DEF Ends, Index, Count
<1>3. h # t => /\ Ends(g, t) /\ Count(g, t) = n - 1
               /\ \A i \in 1..(n - 1) : cellAfter(g, i - 1) = cellAfter(h, i)
  <2> SUFFICES ASSUME h # t
               PROVE  /\ Ends(g, t) /\ Count(g, t) = n - 1
                      /\ \A i \in 1..(n - 1) : cellAfter(g, i - 1) = cellAfter(h, i)
    OBVIOUS
  <2>1. h \in Cell /\ t \in Cell /\ MaxData \in Nat
    BY MaxDataAssumption DEF Ends, Index, Cell
  <2>2. g = IF h + 1 = MaxData THEN 0 ELSE h + 1
    BY <2>1, MaxDataAssumption DEF Cell
  <2> HIDE DEF g
  <2>3. Ends(g, t) /\ g # -1
    BY <2>1, <2>2 DEF Ends, Index, Cell
  <2>4. Count(g, t) = n - 1
    BY <2>1, <2>2 DEF Count, Cell
  <2>5. \A i \in 1..(n - 1) : cellAfter(g, i - 1) = cellAfter(h, i)
    BY <2>1, <2>2 DEF Count, Cell, cellAfter
  <2>6. QED BY <2>3, <2>4, <2>5
<1> HIDE DEF n, v, g, w
<1>4. /\ v \in Seq(Byte) /\ Len(v) = n /\ v # <<>>
      /\ \A i \in 1..n : v[i] = d[cellAfter(h, i - 1)]
  BY ViewType DEF v, n
<1>5. Head(v) = d[h]
  BY <1>1, <1>4
<1>6. /\ Tail(v) \in Seq(Byte) /\ Len(Tail(v)) = n - 1
      /\ \A i \in 1..(n - 1) : Tail(v)[i] = v[i + 1]
  BY <1>4, HeadTailProperties
<1>7. h = t => Tail(v) = <<>>
  <2>1. h = t => Len(Tail(v)) = 0
    BY <1>2, <1>6
  <2>2. QED BY <2>1, <1>6, EmptySeq
<1>8. ASSUME h # t PROVE w = Tail(v)
  <2>1. /\ w \in Seq(Byte) /\ Len(w) = n - 1
        /\ \A i \in 1..(n - 1) : w[i] = d[cellAfter(g, i - 1)]
    BY <1>3, <1>8, ViewType DEF w
  <2>2. \A i \in 1..(n - 1) : w[i] = Tail(v)[i]
    <3> SUFFICES ASSUME NEW i \in 1..(n - 1) PROVE w[i] = Tail(v)[i]
      OBVIOUS
    <3>1. i + 1 \in 1..n /\ (i + 1) - 1 = i
      BY <1>1
    <3>2. Tail(v)[i] = d[cellAfter(h, i)]
      BY <3>1, <1>4, <1>6
    <3>3. QED BY <3>2, <2>1, <1>3, <1>8
  <2>3. QED BY <2>1, <2>2, <1>6, SeqEqual
<1>9. QED BY <1>3, <1>5, <1>7, <1>8 DEF v, g, w

-----------------------------------------------------------------------------
(* The invariant.  Outside enqueue, the two indices hold a queue; inside   *)
(* it, the tail read and the head do, and the cell behind is free: it is   *)
(* the tail once written, and then holds the character.                    *)
Tail0 == IF at \in EnqueuePoint THEN ktail ELSE buffer.tail

Held ==
  /\ Ends(buffer.head, Tail0)
  /\ at \in EnqueuePoint => nextCell(ktail) # buffer.head /\ key \in Key
  /\ at = "writeTail" => buffer.tail = ktail
  /\ at \in {"writeData", "setHead"} => buffer.tail = nextCell(ktail)
  /\ at = "setHead" => buffer.data[nextCell(ktail)] = key
  /\ sizeSendFlag = 0

Inv == TypeOK /\ Held

LEMMA SizeIsCount ==
  ASSUME NEW b, Ends(b.head, b.tail)
  PROVE  sizeBuffer(b) = Count(b.head, b.tail)
<1>1. Count(b.head, b.tail) \in 0..MaxData
  BY CountRange
<1>2. \A n \in 0..MaxData : n % 256 = n
  BY MaxDataAssumption
<1>3. QED BY <1>1, <1>2 DEF Count, sizeBuffer, isEmpty

(* Contents, the refinement mapping, is what lies from head to tail. *)
Mapped ==
  /\ Contents = View(buffer.head, Tail0, buffer.data)
  /\ buffer.data \in Data

LEMMA ContentsIsView == Inv => Mapped
<1> SUFFICES ASSUME Inv PROVE Mapped
  OBVIOUS
<1>1. buffer \in BufferType /\ Ends(buffer.head, Tail0)
  BY DEF Inv, TypeOK, Held
<1>2. buffer.data \in Data
  BY <1>1 DEF BufferType, Data
<1> DEFINE b == [buffer EXCEPT !.tail = Tail0]
<1>3. b.head = buffer.head /\ b.tail = Tail0
  BY <1>1 DEF BufferType
<1>4. sizeBuffer(b) = Count(buffer.head, Tail0)
  <2> HIDE DEF b
  <2>1. QED BY <1>1, <1>3, SizeIsCount
<1>5. QED BY <1>2, <1>4 DEF Mapped, Contents, View, Tail0

LEMMA ContentsIsViewNext == Inv' => Mapped'
BY ContentsIsView, PTL

LEMMA InitHeld == Init => Held
BY MaxDataAssumption
DEF Init, Held, EmptyBuffer, Ends, Index, Tail0, EnqueuePoint

(* A step of keyHandler. *)
LEMMA HandlerHeld ==
  ASSUME Inv, (\E k \in Key : KeyHandler(k)) \/ HandlerStep
  PROVE  Held'
<1> USE DEF Inv, Held, Tail0, EnqueuePoint
<1>1. /\ buffer \in BufferType /\ buffer.head \in Index /\ buffer.tail \in Index
      /\ ktail \in Index /\ buffer.data \in [Cell -> Byte]
  BY DEF TypeOK, BufferType
<1>2. ASSUME NEW k \in Key, KeyHandler(k) PROVE Held'
  BY <1>2 DEF KeyHandler, isFull, nextCell, shared
<1>3. CASE WriteTail
  <2>1. buffer'.head = buffer.head /\ buffer'.tail = nextCell(ktail)
    BY <1>1, <1>3 DEF WriteTail, BufferType
  <2>2. QED BY <1>3, <2>1 DEF WriteTail
<1>4. CASE WriteData
  <2>1. nextCell(ktail) \in Cell
    BY <1>1, NextCellIsCell
  <2>2. /\ buffer'.head = buffer.head /\ buffer'.tail = buffer.tail
        /\ buffer'.data[nextCell(ktail)] = key
    BY <1>1, <1>4, <2>1 DEF WriteData, BufferType
  <2>3. QED BY <1>4, <2>2 DEF WriteData
<1>5. CASE SetHead
  <2>1. /\ buffer'.head = IF buffer.head = -1 THEN 0 ELSE buffer.head
        /\ buffer'.tail = nextCell(ktail)
    BY <1>1, <1>5 DEF SetHead, BufferType, isEmpty
  <2>2. Ends(IF buffer.head = -1 THEN 0 ELSE buffer.head, nextCell(ktail))
    <3>1. Ends(buffer.head, ktail) /\ nextCell(ktail) # buffer.head
      BY <1>5 DEF SetHead
    <3>2. QED BY <1>1, <3>1, Joined DEF Data
  <2>3. QED BY <1>5, <2>1, <2>2 DEF SetHead
<1>6. CASE SetInt
  BY <1>6 DEF SetInt
<1>7. QED BY <1>2, <1>3, <1>4, <1>5, <1>6 DEF HandlerStep

(* SPI_STC_vect, which finds the indices of a queue: sizeSendFlag is never *)
(* set, for the case that sets it needs it set.                            *)
LEMMA IsrHeld ==
  ASSUME Inv, at \notin EnqueuePoint, NEW b \in Request, SpiIsr(b)
  PROVE  Held'
<1> USE DEF Inv, Held, Tail0
<1>1. UNCHANGED <<at, key, ktail>>
  BY DEF SpiIsr, local
<1>2. /\ buffer \in BufferType /\ buffer.data \in Data
      /\ Ends(buffer.head, buffer.tail)
  BY <1>1 DEF TypeOK, BufferType, Data
<1>3. CASE IsrType(b) \/ IsrSize(b)
  BY <1>1, <1>3 DEF IsrType, IsrSize, EnqueuePoint
<1>4. CASE IsrKey(b)
  <2>1. buffer' = dequeue(buffer) /\ sizeSendFlag' = 0
    BY <1>4 DEF IsrKey
  <2>2. Ends(buffer'.head, buffer'.tail)
    <3>1. CASE isEmpty(buffer)
      BY <1>2, <2>1, <3>1 DEF dequeue
    <3>2. CASE ~isEmpty(buffer) /\ buffer.head = buffer.tail
      BY <2>1, <3>2, MaxDataAssumption DEF dequeue, Ends, Index
    <3>3. CASE ~isEmpty(buffer) /\ buffer.head # buffer.tail
      <4>1. /\ buffer'.head = (buffer.head + 1) % MaxData
            /\ buffer'.tail = buffer.tail
        BY <1>2, <2>1, <3>3 DEF dequeue, BufferType
      <4>2. QED BY <1>2, <3>3, <4>1, Left DEF isEmpty
    <3>4. QED BY <3>1, <3>2, <3>3
  <2>3. QED BY <1>1, <2>1, <2>2 DEF EnqueuePoint
<1>5. QED BY <1>1, <1>3, <1>4 DEF SpiIsr

(* A history in which no interrupt has fallen inside enqueue. *)
QueueInv == TypeOK /\ (~raced => Held)

LEMMA IsrIsOutside ==
  ASSUME NEW b, SpiIsr(b), ~raced'
  PROVE  at \notin EnqueuePoint
BY DEF SpiIsr

LEMMA RacedStays ==
  ASSUME TypeOK, [Next]_iovars, ~raced'
  PROVE  ~raced
<1>1. raced \in BOOLEAN
  BY DEF TypeOK
<1>2. \A b : SpiIsr(b) => (raced => raced')
  BY <1>1 DEF SpiIsr
<1>3. HandlerStep => raced' = raced
  BY DEF HandlerStep, WriteTail, WriteData, SetHead, SetInt
<1>4. \A k : KeyHandler(k) => raced' = raced
  BY DEF KeyHandler
<1>5. UNCHANGED iovars => raced' = raced
  BY DEF iovars
<1>6. QED BY <1>2, <1>3, <1>4, <1>5 DEF Next

LEMMA NextInv ==
  ASSUME QueueInv, [Next]_iovars
  PROVE  QueueInv'
<1> SUFFICES ASSUME ~raced' PROVE Held'
  BY NextTypeOK DEF QueueInv
<1>1. Inv
  BY RacedStays DEF QueueInv, Inv
<1>2. CASE UNCHANGED iovars
  BY <1>1, <1>2 DEF iovars, shared, local, Inv, Held, Tail0
<1>3. QED BY <1>1, <1>2, HandlerHeld, IsrHeld, IsrIsOutside DEF Next

-----------------------------------------------------------------------------
(* Every step is a step of the queue, or none. *)

Same == UNCHANGED <<Contents, SPDR, INT, Offered>>

LEMMA SameIsStutter == Same => UNCHANGED Q!qvars
BY DEF Same, Q!qvars

LEMMA OfferStep ==
  ASSUME Inv, Inv', NEW k \in Key, KeyHandler(k)
  PROVE  Q!Offer(k) \/ Q!Drop
<1>1. Mapped /\ Mapped'
  BY ContentsIsView, ContentsIsViewNext
<1>2. at = "idle" /\ UNCHANGED <<buffer, SPDR, INT>> /\ key' = k
  BY DEF KeyHandler, shared
<1>3. Tail0 = buffer.tail /\ Ends(buffer.head, buffer.tail)
  BY <1>2 DEF Inv, Held, Tail0, EnqueuePoint
<1>4. Tail0' = buffer.tail
  BY <1>2 DEF KeyHandler, Tail0, EnqueuePoint
<1>5. Contents' = Contents
  BY <1>1, <1>2, <1>3, <1>4 DEF Mapped
<1>6. Len(Contents) = Count(buffer.head, buffer.tail)
  BY <1>1, <1>3, ViewType DEF Mapped
<1>7. /\ Count(buffer.head, buffer.tail) \in 0..MaxData
      /\ isFull(buffer) <=> Count(buffer.head, buffer.tail) = MaxData
  BY <1>3, CountRange DEF isFull, nextCell
<1>8. CASE isFull(buffer)
  <2>1. Offered = Q!Nobody /\ Offered' = Q!Handled
    BY <1>2, <1>8 DEF KeyHandler, Offered, Q!Nobody, Q!Handled
  <2>2. QED BY <1>2, <1>5, <1>6, <1>7, <1>8, <2>1 DEF Q!Drop
<1>9. CASE ~isFull(buffer)
  <2>1. Offered = Q!Nobody /\ Offered' = <<"offered", k>>
    BY <1>2, <1>9 DEF KeyHandler, Offered, Q!Nobody
  <2>2. Len(Contents) < MaxData
    BY <1>6, <1>7, <1>9, MaxDataAssumption
  <2>3. QED BY <1>2, <1>5, <2>1, <2>2 DEF Q!Offer
<1>10. QED BY <1>8, <1>9

(* The first two writes of enqueue change nothing that counts. *)
LEMMA WriteStep ==
  ASSUME Inv, Inv', WriteTail \/ WriteData
  PROVE  Same
<1>1. Mapped /\ Mapped' /\ Ends(buffer.head, ktail) /\ Tail0 = ktail
  BY ContentsIsView, ContentsIsViewNext
  DEF Inv, Held, Tail0, WriteTail, WriteData, EnqueuePoint
<1>2. UNCHANGED <<SPDR, INT, Offered, ktail>> /\ Tail0' = ktail
  BY DEF WriteTail, WriteData, Offered, Tail0, EnqueuePoint
<1>3. buffer \in BufferType /\ ktail \in Index
  BY DEF Inv, TypeOK
<1>4. CASE WriteTail
  <2>1. buffer'.head = buffer.head /\ buffer'.data = buffer.data
    BY <1>3, <1>4 DEF WriteTail, BufferType
  <2>2. QED BY <1>1, <1>2, <2>1 DEF Mapped, Same
<1>5. CASE WriteData
  <2>1. /\ buffer'.head = buffer.head
        /\ buffer'.data = [buffer.data EXCEPT ![nextCell(ktail)] = key]
    BY <1>3, <1>5 DEF WriteData, BufferType
  <2>2. nextCell(ktail) # buffer.head /\ key \in Byte
    BY <1>5 DEF WriteData, Inv, TypeOK, Held, EnqueuePoint
  <2>3. View(buffer.head, ktail, buffer'.data) = View(buffer.head, ktail, buffer.data)
    BY <1>1, <2>1, <2>2, WriteBehind DEF Mapped
  <2>4. QED BY <1>1, <1>2, <2>1, <2>3 DEF Mapped, Same
<1>6. QED BY <1>4, <1>5

(* The third puts the character in the queue. *)
LEMMA PutStep ==
  ASSUME Inv, Inv', SetHead
  PROVE  key \in Key /\ Q!Put(key)
<1>1. /\ Mapped /\ Mapped' /\ Ends(buffer.head, ktail) /\ Tail0 = ktail
      /\ nextCell(ktail) # buffer.head /\ key \in Key
      /\ buffer.tail = nextCell(ktail) /\ buffer.data[nextCell(ktail)] = key
  BY ContentsIsView, ContentsIsViewNext
  DEF Inv, Held, Tail0, SetHead, EnqueuePoint
<1>2. buffer \in BufferType
  BY DEF Inv, TypeOK
<1>3. /\ buffer'.head = (IF buffer.head = -1 THEN 0 ELSE buffer.head)
      /\ buffer'.tail = nextCell(ktail) /\ buffer'.data = buffer.data
      /\ Tail0' = buffer'.tail
  BY <1>1, <1>2 DEF SetHead, BufferType, isEmpty, Tail0, EnqueuePoint
<1>4. Contents' = Append(Contents, key)
  <2> DEFINE g == IF buffer.head = -1 THEN 0 ELSE buffer.head
  <2>1. View(g, nextCell(ktail), buffer.data)
          = Append(View(buffer.head, ktail, buffer.data), key)
    BY <1>1, Joined DEF Mapped
  <2>2. buffer'.head = g
    BY <1>3
  <2> HIDE DEF g
  <2>3. QED BY <1>1, <1>3, <2>1, <2>2 DEF Mapped
<1>5. Offered = <<"offered", key>> /\ Offered' = Q!Handled
  BY DEF SetHead, Offered, Q!Handled
<1>6. QED BY <1>1, <1>4, <1>5 DEF Q!Put, SetHead

LEMMA RaiseStep ==
  ASSUME Inv, Inv', SetInt
  PROVE  Q!Raise
<1>1. Mapped /\ Mapped' /\ UNCHANGED <<buffer, SPDR>> /\ INT' = TRUE
  BY ContentsIsView, ContentsIsViewNext DEF SetInt
<1>2. Tail0' = Tail0
  BY DEF SetInt, Tail0, EnqueuePoint
<1>3. Offered = Q!Handled /\ Offered' = Q!Nobody
  BY DEF SetInt, Offered, Q!Handled, Q!Nobody
<1>4. QED BY <1>1, <1>2, <1>3 DEF Mapped, Q!Raise

(* SPI_STC_vect answers. *)
LEMMA AnswerStep ==
  ASSUME Inv, Inv', at \notin EnqueuePoint, NEW b \in Request, SpiIsr(b)
  PROVE  /\ b = AskType => Q!AnswerType
         /\ b = AskSize => Q!AnswerSize
         /\ b = AskKey  => Q!AnswerKey
<1>1. /\ Mapped /\ Mapped' /\ UNCHANGED Offered
      /\ Tail0 = buffer.tail /\ Tail0' = buffer'.tail
      /\ Ends(buffer.head, buffer.tail) /\ Ends(buffer'.head, buffer'.tail)
      /\ buffer \in BufferType
  BY ContentsIsView, ContentsIsViewNext
  DEF SpiIsr, local, Offered, Tail0, Inv, TypeOK, Held
<1>2. Contents = View(buffer.head, buffer.tail, buffer.data)
  BY <1>1 DEF Mapped
<1>3. Contents' = View(buffer'.head, buffer'.tail, buffer'.data)
  BY <1>1 DEF Mapped
<1>4. IsrType(b) => Q!AnswerType
  BY <1>1, <1>2, <1>3 DEF IsrType, Q!AnswerType
<1>5. ASSUME IsrSize(b) PROVE Q!AnswerSize
  <2>1. SPDR' = Count(buffer.head, buffer.tail)
    BY <1>1, <1>5, SizeIsCount DEF IsrSize
  <2>2. Len(Contents) = Count(buffer.head, buffer.tail)
    BY <1>1, <1>2, ViewType DEF Mapped
  <2>3. QED BY <1>1, <1>2, <1>3, <1>5, <2>1, <2>2 DEF IsrSize, Q!AnswerSize
<1>6. ASSUME IsrKey(b) PROVE Q!AnswerKey
  <2>1. /\ SPDR' = dequeueKey(buffer) /\ buffer' = dequeue(buffer)
        /\ INT' = (INT /\ ~(sizeBuffer(buffer') = 0))
    BY <1>6 DEF IsrKey
  <2>2. Contents = <<>> <=> isEmpty(buffer)
    BY <1>1, <1>2, ViewType DEF Mapped, isEmpty
  <2>3. Contents' = <<>> <=> sizeBuffer(buffer') = 0
    <3>1. Contents' = <<>> <=> buffer'.head = -1
      BY <1>1, <1>3, ViewType DEF Mapped
    <3>2. sizeBuffer(buffer') = 0 <=> buffer'.head = -1
      BY <1>1, SizeIsCount, CountRange
    <3>3. QED BY <3>1, <3>2
  <2>4. INT' = (INT /\ Contents' # <<>>)
    BY <2>1, <2>3
  <2>5. CASE isEmpty(buffer)
    <3>1. Contents = <<>> /\ SPDR' = 0 /\ buffer' = buffer
      BY <2>1, <2>2, <2>5 DEF dequeue, dequeueKey
    <3>2. Contents' = <<>>
      BY <1>2, <1>3, <3>1
    <3>3. QED BY <1>1, <2>4, <3>1, <3>2 DEF Q!AnswerKey
  <2>6. CASE ~isEmpty(buffer)
    <3>1. Contents # <<>> /\ SPDR' = buffer.data[buffer.head] /\ buffer.head # -1
      BY <2>1, <2>2, <2>6 DEF dequeueKey, isEmpty
    <3> DEFINE v == View(buffer.head, buffer.tail, buffer.data)
    <3>2. /\ Head(v) = buffer.data[buffer.head]
          /\ buffer.head = buffer.tail => Tail(v) = <<>>
          /\ buffer.head # buffer.tail =>
               View((buffer.head + 1) % MaxData, buffer.tail, buffer.data) = Tail(v)
      <4>1. buffer.data \in Data
        BY <1>1 DEF Mapped
      <4>2. Ends(buffer.head, buffer.tail) /\ buffer.head # -1
        BY <1>1, <3>1
      <4>3. QED BY <4>1, <4>2, Left, ZenonT(60)
    <3> HIDE DEF v
    <3>3. Contents = v
      BY <1>2 DEF v
    <3>4. CASE buffer.head = buffer.tail
      <4>1. Tail(Contents) = <<>>
        BY <3>2, <3>4, <3>3
      <4>2. buffer'.head = -1
        BY <2>1, <2>6, <3>4 DEF dequeue
      <4>3. Contents' = <<>>
        BY <1>1, <1>3, <4>2, ViewType DEF Mapped
      <4>4. QED BY <1>1, <2>4, <3>1, <3>2, <3>3, <4>1, <4>3 DEF Q!AnswerKey
    <3>5. CASE buffer.head # buffer.tail
      <4>1. /\ buffer'.head = (buffer.head + 1) % MaxData
            /\ buffer'.tail = buffer.tail /\ buffer'.data = buffer.data
        BY <1>1, <2>1, <2>6, <3>5 DEF dequeue, BufferType
      <4>2. View((buffer.head + 1) % MaxData, buffer.tail, buffer.data) = Tail(Contents)
        BY <3>2, <3>5, <3>3
      <4>3. Contents' = Tail(Contents)
        BY <1>3, <4>1, <4>2
      <4>4. QED BY <1>1, <2>4, <3>1, <3>2, <3>3, <4>3 DEF Q!AnswerKey
    <3>6. QED BY <3>4, <3>5
  <2>7. QED BY <2>5, <2>6
<1>7. /\ b = AskType => IsrType(b)
      /\ b = AskSize => IsrSize(b)
      /\ b = AskKey  => IsrKey(b)
  BY DEF SpiIsr, IsrType, IsrSize, IsrKey, Inv, Held, AskType, AskSize, AskKey
<1>8. QED BY <1>4, <1>5, <1>6, <1>7

LEMMA InitQueue == Init /\ Inv => Q!Init
<1> SUFFICES ASSUME Init, Inv PROVE Q!Init
  OBVIOUS
<1>1. Mapped /\ Ends(buffer.head, Tail0) /\ buffer.head = -1
  BY ContentsIsView DEF Inv, Held, Init, EmptyBuffer
<1>2. Contents = <<>>
  BY <1>1, ViewType DEF Mapped
<1>3. QED BY <1>2 DEF Q!Init, Init, Offered, Q!Nobody

LEMMA NextQueue ==
  ASSUME Inv, Inv', [Next]_iovars, ~raced'
  PROVE  [Q!Next]_(Q!qvars)
<1>1. ASSUME NEW k \in Key, KeyHandler(k) PROVE Q!Next
  BY <1>1, OfferStep DEF Q!Next
<1>2. CASE WriteTail \/ WriteData
  BY <1>2, WriteStep, SameIsStutter
<1>3. CASE SetHead
  BY <1>3, PutStep DEF Q!Next
<1>4. CASE SetInt
  BY <1>4, RaiseStep DEF Q!Next
<1>5. ASSUME NEW b \in Request, SpiIsr(b) PROVE Q!Next
  BY <1>5, AnswerStep, IsrIsOutside DEF Q!Next, Request
<1>6. CASE UNCHANGED iovars
  <2>1. Mapped /\ Mapped'
    BY ContentsIsView, ContentsIsViewNext
  <2>2. UNCHANGED <<buffer, SPDR, INT, Tail0, Offered>>
    BY <1>6 DEF iovars, shared, local, Tail0, Offered
  <2>3. Same
    BY <2>1, <2>2 DEF Mapped, Same
  <2>4. QED BY <2>3, SameIsStutter
<1>7. QED BY <1>1, <1>2, <1>3, <1>4, <1>5, <1>6 DEF Next, HandlerStep

(* keyHandler and SPI_STC_vect are a bounded FIFO queue, for every size of *)
(* the buffer up to the 255 cells that sizeBuffer can count, up to the     *)
(* first interrupt that falls inside enqueue: no character is lost,        *)
(* repeated, overtaken or invented.                                        *)
THEOREM BufferIsQueue == Spec => ImplementsKeyQueue
<1>1. Init => QueueInv
  BY InitTypeOK, InitHeld DEF QueueInv
<1>2. QueueInv /\ [Next]_iovars => QueueInv'
  BY NextInv
<1>3. Init => Q!Init
  BY InitTypeOK, InitHeld, InitQueue DEF Inv
<1>4. QueueInv /\ QueueInv' /\ [Next]_iovars => [raced' \/ Q!Next]_(Q!qvars)
  <2> SUFFICES ASSUME QueueInv, QueueInv', [Next]_iovars, ~raced'
               PROVE  [Q!Next]_(Q!qvars)
    OBVIOUS
  <2>1. Inv /\ Inv'
    BY RacedStays DEF QueueInv, Inv
  <2>2. QED BY <2>1, NextQueue
<1>5. QED
  BY <1>1, <1>2, <1>3, <1>4, PTL DEF Spec, ImplementsKeyQueue
=============================================================================
