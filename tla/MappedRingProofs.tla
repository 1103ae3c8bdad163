-------------------------- MODULE MappedRingProofs --------------------------
(***************************************************************************)
(* Proofs about MappedRing for every buffer size, every set of batches     *)
(* that fit in the buffer and every bound below the cursor's wrap-around.  *)
(*                                                                         *)
(* The argument is that of any ring buffer, with the twist that the code   *)
(* has no free-space check: the wait after each batch keeps cur + batch    *)
(* within BufSize of the acknowledged cursor, hence of the host's cursor,  *)
(* so a copy never meets the slot of an unread dword (SlotFree).           *)
(***************************************************************************)
EXTENDS MappedRing, ArithmeticLemmas, SequenceTheorems

-----------------------------------------------------------------------------
(* Arithmetic of the slot index.                                           *)

\* Two cursors less than a buffer apart have different slots.
LEMMA ModDistinct ==
  ASSUME NEW B \in Nat \ {0}, NEW p \in Nat, NEW q \in Nat, p < q, q < p + B
  PROVE  p % B # q % B
<1>1. SUFFICES ASSUME p % B = q % B PROVE FALSE
  OBVIOUS
<1> DEFINE x == p \div B
           y == q \div B
<1>2. p = B * x + (p % B) /\ x \in Nat /\ (p % B) \in Int  BY DivMod
<1>3. q = B * y + (q % B) /\ y \in Nat  BY DivMod
<1>4. B * (y - x) = B * y - B * x /\ B * (x - y) = B * x - B * y
  BY <1>2, <1>3, Z3
<1>5. (y > x => B * (y - x) >= B) /\ (y < x => B * (x - y) >= B)
  BY <1>2, <1>3, MulGap
<1>6. B * x \in Int /\ B * y \in Int  BY <1>2, <1>3
<1> HIDE DEF x, y
<1>7. x = y => B * x = B * y  OBVIOUS
<1>8. QED  BY <1>1, <1>2, <1>3, <1>4, <1>5, <1>6, <1>7 DEF x, y

\* The slot k places after the slot of cursor a.
LEMMA ModAdd ==
  ASSUME NEW B \in Nat \ {0}, NEW a \in Nat, NEW k \in Nat, k < B
  PROVE  (a + k) % B = IF (a % B) + k < B THEN (a % B) + k ELSE (a % B) + k - B
<1> DEFINE r == a % B
           x == a \div B
           s == (a + k) % B
           y == (a + k) \div B
<1>1. a = B * x + r /\ x \in Nat /\ r \in 0 .. B - 1  BY DivMod
<1>2. a + k = B * y + s /\ y \in Nat /\ s \in 0 .. B - 1
  <2>1. a + k \in Nat  OBVIOUS
  <2>2. QED  BY <2>1, DivMod
<1>3. B * x + B = B * (x + 1)  BY <1>1, Z3
<1>4. B * x \in Nat /\ B * (x + 1) \in Nat  BY <1>1
<1> HIDE DEF r, x, s, y
<1>5. r + k < B => s = r + k
  <2>0. HAVE r + k < B
  <2>1. B * x + (r + k) = B * y + s  BY <1>1, <1>2, <1>4
  <2>2. r + k \in 0 .. B - 1  BY <2>0, <1>1
  <2>3. QED  BY <2>1, <2>2, <1>1, <1>2, UniqueDivMod
<1>6. ~(r + k < B) => s = r + k - B
  <2>0. HAVE ~(r + k < B)
  <2> DEFINE u == r + k - B
             v == x + 1
  <2>1. u \in 0 .. B - 1 /\ v \in Int /\ y \in Int  BY <2>0, <1>1, <1>2
  <2>2. B * v + u = B * y + s  BY <1>1, <1>2, <1>4, <1>3
  <2> HIDE DEF u, v
  <2>3. u = s  BY <2>1, <2>2, <1>2, UniqueDivMod
  <2>4. QED  BY <2>3 DEF u
<1>7. s = IF r + k < B THEN r + k ELSE r + k - B  BY <1>5, <1>6
<1>8. QED  BY <1>7 DEF r, s

\* Below its modulus a cursor is not changed by the reduction to uint32.
LEMMA ModSmall ==
  ASSUME NEW M \in Nat \ {0}, NEW a \in Nat, a < M
  PROVE  a % M = a
<1>1. a = M * (a \div M) + (a % M) /\ (a \div M) \in Nat /\ (a % M) \in 0 .. M - 1
  BY DivMod
<1>2. a = M * 0 + a /\ a \in 0 .. M - 1 /\ (a \div M) \in Int
  BY <1>1
<1>3. QED  BY <1>1, <1>2, UniqueDivMod

-----------------------------------------------------------------------------
(* The operators of the model.                                             *)

\* Every command of a batch is a nonempty sequence of dwords.
LEMMA CommandType ==
  ASSUME NEW c \in Command
  PROVE  c \in Seq(Dword) /\ Len(c) \in Nat \ {0}
<1>1. PICK b \in Batch : c \in {b[i] : i \in DOMAIN b}  BY DEF Command
<1>2. b \in Seq(Seq(Dword) \ {<< >>})  BY RingAssumption
<1>3. c \in Seq(Dword) \ {<< >>}  BY <1>1, <1>2
<1>4. QED  BY <1>3

\* A batch is a sequence of one or two commands that fit in the buffer.
LEMMA BatchType ==
  ASSUME NEW b \in Batch
  PROVE  b \in Seq(Command) /\ Len(b) \in 1 .. 2 /\ BatchLen(b) <= BufSize
<1>1. b \in Seq(Seq(Dword) \ {<< >>}) /\ Len(b) \in 1 .. 2 /\ BatchLen(b) <= BufSize
  BY RingAssumption
<1>2. \A i \in 1 .. Len(b) : b[i] \in Command  BY <1>1 DEF Command
<1>3. QED  BY <1>1, <1>2

\* A sequence is empty exactly when its length is zero.
LEMMA EmptyLen ==
  ASSUME NEW S, NEW s \in Seq(S)
  PROVE  Len(s) \in Nat /\ (s = << >> <=> Len(s) = 0)
<1>1. s = << >> => Len(s) = 0  OBVIOUS
<1>2. s # << >> => Len(s) # 0  OBVIOUS
<1>3. QED  BY <1>1, <1>2

\* The length of what is left of a batch, and of its tail.
LEMMA BatchLenTail ==
  ASSUME NEW b \in Seq(Command), Len(b) <= 2
  PROVE  /\ BatchLen(b) \in Nat
         /\ b # << >> => /\ b[1] \in Command
                         /\ Tail(b) \in Seq(Command) /\ Len(Tail(b)) <= 2
                         /\ BatchLen(b) = Len(b[1]) + BatchLen(Tail(b))
                         /\ BatchLen(Tail(b)) \in Nat
<1>1. CASE b = << >>  BY <1>1 DEF BatchLen
<1>2. CASE b # << >>
  <2> DEFINE l == Len(b)
             t == Tail(b)
  <2>1. l \in Nat /\ l # 0 /\ l <= 2  BY <1>2, EmptyLen
  <2>2. /\ t \in Seq(Command) /\ Len(t) = l - 1
        /\ \A i \in 1 .. Len(t) : t[i] = b[i + 1]
    BY <1>2, HeadTailProperties
  <2>3. \A i \in 1 .. l : b[i] \in Command /\ Len(b[i]) \in Nat
    BY ElementOfSeq, CommandType
  <2>4. BatchLen(b) = IF l = 1 THEN Len(b[1]) ELSE Len(b[1]) + Len(b[2])
    BY <1>2 DEF BatchLen
  <2>5. BatchLen(t) = IF t = << >> THEN 0 ELSE IF Len(t) = 1 THEN Len(t[1]) ELSE Len(t[1]) + Len(t[2])
    BY DEF BatchLen
  <2> HIDE DEF l, t
  <2>6. t = << >> <=> Len(t) = 0  BY <2>2, EmptyLen
  <2>7. CASE l = 1
    <3>1. BatchLen(t) = 0 /\ Len(t) = 0  BY <2>2, <2>5, <2>6, <2>7
    <3>2. QED  BY <2>2, <2>3, <2>4, <2>7, <3>1 DEF t
  <2>8. CASE l = 2
    <3>1. Len(t) = 1 /\ t[1] = b[2]  BY <2>2, <2>8
    <3>2. BatchLen(t) = Len(b[2])  BY <2>5, <2>6, <3>1
    <3>3. QED  BY <2>2, <2>3, <2>4, <2>8, <3>1, <3>2 DEF t
  <2>9. QED  BY <2>1, <2>7, <2>8
<1>3. QED  BY <1>1, <1>2

\* copy writes exactly its range, and only dwords into it.
LEMMA CopySlots ==
  ASSUME NEW m \in [Slots -> Dword \cup {Zero}], NEW at \in Nat, NEW s \in Seq(Dword)
  PROVE  /\ CopyInto(m, at, s) \in [Slots -> Dword \cup {Zero}]
         /\ \A i \in Slots : i >= at /\ i < at + Len(s) => CopyInto(m, at, s)[i] = s[i - at + 1]
         /\ \A i \in Slots : ~(i >= at /\ i < at + Len(s)) => CopyInto(m, at, s)[i] = m[i]
<1>1. ASSUME NEW i \in Slots, i >= at, i < at + Len(s)
      PROVE  s[i - at + 1] \in Dword
  <2>1. i \in Nat  BY RingAssumption DEF Slots
  <2>2. i - at + 1 \in 1 .. Len(s)  BY <1>1, <2>1
  <2>3. QED  BY <2>2
<1>2. QED  BY <1>1 DEF CopyInto

\* The facts about the current command every client step needs.
LEMMA CurrentCommand ==
  ASSUME RingInv, todo # << >>
  PROVE  /\ todo[1] \in Seq(Dword) /\ todo[1] \in Command
         /\ Len(todo[1]) \in Nat \ {0}
         /\ Len(todo[1]) <= BufSize
         /\ cur + Len(todo[1]) <= acked + BufSize
         /\ cur + Len(todo[1]) <= MaxStream
         /\ cur % BufSize \in 0 .. BufSize - 1
<1>1. todo \in Seq(Command) /\ Len(todo) <= 2  BY DEF RingInv, RingTypeOK, Phases
<1>2. todo[1] \in Command /\ BatchLen(todo) = Len(todo[1]) + BatchLen(Tail(todo))
      /\ BatchLen(Tail(todo)) \in Nat
  BY <1>1, BatchLenTail
<1>3. todo[1] \in Seq(Dword) /\ Len(todo[1]) \in Nat \ {0}  BY <1>2, CommandType
<1>4. cur % BufSize \in 0 .. BufSize - 1
  BY RingAssumption, DivMod DEF RingInv, RingTypeOK
<1>5. QED
  BY <1>2, <1>3, <1>4, RingAssumption DEF RingInv, RingTypeOK, Cursors

\* The slots the current command goes to hold no unread dword.
LEMMA SlotFree ==
  ASSUME RingInv, todo # << >>, NEW p \in hcur .. tail - 1,
         NEW j \in Nat, j < Len(todo[1])
  PROVE  p % BufSize # (cur + j) % BufSize
<1>1. cur + Len(todo[1]) <= acked + BufSize /\ Len(todo[1]) \in Nat
  BY CurrentCommand
<1>2. /\ hcur \in Nat /\ tail \in Nat /\ cur \in Nat /\ acked \in Nat /\ head \in Nat
      /\ tail = cur /\ acked <= head /\ head <= hcur
  BY DEF RingInv, RingTypeOK, Cursors
<1>3. BufSize \in Nat \ {0}  BY RingAssumption
<1>4. p \in Nat /\ cur + j \in Nat /\ p < cur + j /\ cur + j < p + BufSize
  BY <1>1, <1>2, <1>3
<1>5. QED  BY <1>3, <1>4, ModDistinct

-----------------------------------------------------------------------------
(* One lemma per action: the action preserves the invariant.               *)

\* Starting a batch: everything before it has been read, so it fits.
LEMMA BeginBatchInv ==
  ASSUME RingInv, NEW b \in Batch, BeginBatch(b)
  PROVE  RingInv'
<1>1. b \in Seq(Command) /\ Len(b) \in 1 .. 2 /\ BatchLen(b) <= BufSize
  BY BatchType
<1>2. b # << >> /\ Len(b) <= 2
  <2>1. b # << >>  BY <1>1, EmptyLen
  <2> DEFINE l == Len(b)
  <2>2. l \in 1 .. 2  BY <1>1
  <2> HIDE DEF l
  <2>3. l <= 2  BY <2>2
  <2>4. QED  BY <2>1, <2>3 DEF l
<1>3. BatchLen(b) \in Nat  BY <1>1, <1>2, BatchLenTail
<1>4. todo' = b /\ pc' = "copy" /\ pc = "ready"
      /\ UNCHANGED <<mem, head, tail, status, cur, hcur, stream, taken, acked>>
  BY DEF BeginBatch, ringMem, history
<1>5. RingTypeOK'  BY <1>1, <1>4 DEF RingInv, RingTypeOK
<1>6. Cursors'
  BY <1>1, <1>3, <1>4, RingAssumption DEF RingInv, RingTypeOK, Cursors, Phases, BeginBatch
<1>7. Phases'
  <2>1. (todo = << >>)' = FALSE /\ (Len(todo) <= 2)'  BY <1>2, <1>4
  <2>2. QED  BY <2>1, <1>4 DEF Phases
<1>8. Copied'  BY <1>4 DEF Copied, CopiedLen
<1>9. UnreadIntact' /\ ReadAsSubmitted'
  BY <1>4 DEF RingInv, UnreadIntact, ReadAsSubmitted
<1>10. QED  BY <1>5, <1>6, <1>7, <1>8, <1>9 DEF RingInv

\* The first copy of writeCmd, with or without a wrapped remainder.
LEMMA CopyFirstInv ==
  ASSUME RingInv, CopyFirst
  PROVE  RingInv'
<1> DEFINE c == todo[1]
           start == cur % BufSize
           first == BufSize - start
           n == IF start + Len(c) <= BufSize THEN Len(c) ELSE first
           s == IF start + Len(c) <= BufSize THEN c ELSE SubSeq(c, 1, first)
<1>1. pc = "copy" /\ todo # << >>  BY DEF CopyFirst, RingInv, Phases
<1>2. /\ c \in Seq(Dword) /\ Len(c) \in Nat \ {0} /\ Len(c) <= BufSize
      /\ start \in 0 .. BufSize - 1
  BY <1>1, CurrentCommand
<1>3. BufSize \in Nat \ {0}  BY RingAssumption
<1>4. first \in 1 .. BufSize  BY <1>2, <1>3
<1>5. n \in Nat /\ n <= Len(c) /\ start + n <= BufSize  BY <1>2, <1>3, <1>4
<1>6. s \in Seq(Dword) /\ Len(s) = n /\ \A k \in 0 .. n - 1 : s[k + 1] = c[k + 1]
  <2>1. CASE start + Len(c) <= BufSize  BY <1>2, <2>1
  <2>2. CASE ~(start + Len(c) <= BufSize)
    <3>1. first <= Len(c) /\ first \in Int  BY <1>2, <1>3, <2>2
    <3>2. \A i \in 1 .. first : c[i] \in Dword  BY <1>2, <3>1, ElementOfSeq
    <3>3. /\ SubSeq(c, 1, first) \in Seq(Dword)
          /\ Len(SubSeq(c, 1, first)) = first - 1 + 1
          /\ \A i \in 1 .. first - 1 + 1 : SubSeq(c, 1, first)[i] = c[1 + i - 1]
      BY <3>1, <3>2, <1>4, SubSeqProperties
    <3>4. s = SubSeq(c, 1, first) /\ n = first  BY <2>2
    <3> HIDE DEF c, s, n, first
    <3>5. \A k \in 0 .. n - 1 : s[k + 1] = c[k + 1]  BY <3>1, <3>3, <3>4
    <3>6. Len(s) = n  BY <3>1, <3>3, <3>4
    <3>7. QED  BY <3>3, <3>4, <3>5, <3>6
  <2>3. QED  BY <2>1, <2>2
<1>7. /\ mem' = CopyInto(mem, start, s)
      /\ pc' = IF start + Len(c) <= BufSize THEN "tail" ELSE "wrap"
      /\ UNCHANGED <<head, tail, status, cur, todo, hcur, stream, taken, acked>>
  BY DEF CopyFirst, history
<1> HIDE DEF c, start, n, s
<1>8. mem \in [Slots -> Dword \cup {Zero}]  BY DEF RingInv, RingTypeOK
<1>9. /\ mem' \in [Slots -> Dword \cup {Zero}]
      /\ \A i \in Slots : i >= start /\ i < start + n => mem'[i] = s[i - start + 1]
      /\ \A i \in Slots : ~(i >= start /\ i < start + n) => mem'[i] = mem[i]
  <2>1. start \in Nat  BY <1>2
  <2>2. QED  BY <2>1, <1>6, <1>7, <1>8, CopySlots
<1>10. \A k \in 0 .. n - 1 : (cur + k) % BufSize = start + k
  <2>1. cur \in Nat  BY DEF RingInv, RingTypeOK
  <2>2. SUFFICES ASSUME NEW k \in 0 .. n - 1 PROVE (cur + k) % BufSize = start + k
    OBVIOUS
  <2>3. k \in Nat /\ k < BufSize /\ start + k < BufSize  BY <1>2, <1>3, <1>5
  <2>4. QED  BY <2>1, <2>3, <1>3, ModAdd DEF start
<1>11. RingTypeOK'  BY <1>7, <1>9 DEF RingInv, RingTypeOK
<1>12. Cursors'  BY <1>7 DEF RingInv, Cursors
<1>13. Phases'
  BY <1>1, <1>2, <1>3, <1>7 DEF RingInv, Phases, c, start
<1>14. Copied'
  <2>1. CopiedLen' = n
    BY <1>7 DEF CopiedLen, n, c, start, first
  <2>2. SUFFICES ASSUME NEW k \in 0 .. n - 1
                 PROVE  mem'[(cur + k) % BufSize] = c[k + 1]
    BY <2>1, <1>7 DEF Copied, c
  <2>3. start + k \in Slots /\ start + k >= start /\ start + k < start + n
        /\ (start + k) - start + 1 = k + 1
    BY <1>2, <1>3, <1>5 DEF Slots
  <2>4. mem'[start + k] = s[k + 1]  BY <2>3, <1>9
  <2>5. QED  BY <2>4, <1>6, <1>10
<1>15. UnreadIntact'
  <2>1. SUFFICES ASSUME NEW p \in hcur .. tail - 1
                 PROVE  mem'[p % BufSize] = stream[p + 1]
    BY <1>7 DEF UnreadIntact
  <2>2. mem[p % BufSize] = stream[p + 1]  BY DEF RingInv, UnreadIntact
  <2>3. p % BufSize \in Slots
    <3>1. p \in Nat  BY DEF RingInv, RingTypeOK
    <3>2. QED  BY <3>1, <1>3, DivMod DEF Slots
  <2>4. ~(p % BufSize >= start /\ p % BufSize < start + n)
    <3>1. SUFFICES ASSUME p % BufSize >= start, p % BufSize < start + n PROVE FALSE
      OBVIOUS
    <3>2. PICK k \in 0 .. n - 1 : p % BufSize = start + k
      <4>1. (p % BufSize) - start \in 0 .. n - 1  BY <3>1, <2>3, <1>2, <1>3, <1>5 DEF Slots
      <4>2. p % BufSize = start + ((p % BufSize) - start)  BY <2>3, <1>2, <1>3 DEF Slots
      <4>3. QED  BY <4>1, <4>2
    <3>3. p % BufSize = (cur + k) % BufSize  BY <3>2, <1>10
    <3>4. k \in Nat /\ k < Len(todo[1])  BY <1>2, <1>5 DEF c
    <3>5. QED  BY <3>3, <3>4, <1>1, SlotFree
  <2>5. QED  BY <2>2, <2>3, <2>4, <1>9
<1>16. ReadAsSubmitted'  BY <1>7 DEF RingInv, ReadAsSubmitted
<1>17. QED  BY <1>11, <1>12, <1>13, <1>14, <1>15, <1>16 DEF RingInv

\* The second copy of writeCmd: the remainder at the start of the buffer.
LEMMA CopyRestInv ==
  ASSUME RingInv, CopyRest
  PROVE  RingInv'
<1> DEFINE c == todo[1]
           start == cur % BufSize
           first == BufSize - start
           s == SubSeq(c, first + 1, Len(c))
<1>1. pc = "wrap" /\ todo # << >> /\ start + Len(c) > BufSize
  BY DEF CopyRest, RingInv, Phases
<1>2. /\ c \in Seq(Dword) /\ Len(c) \in Nat \ {0} /\ Len(c) <= BufSize
      /\ start \in 0 .. BufSize - 1
  BY <1>1, CurrentCommand
<1>3. BufSize \in Nat \ {0}  BY RingAssumption
<1>4. first \in 1 .. BufSize /\ first < Len(c) /\ Len(c) - first <= start
  BY <1>1, <1>2, <1>3
<1>5. /\ s \in Seq(Dword) /\ Len(s) = Len(c) - first
      /\ \A k \in first .. Len(c) - 1 : s[k - first + 1] = c[k + 1]
  <2>1. \A i \in first + 1 .. Len(c) : c[i] \in Dword  BY <1>2, <1>4, ElementOfSeq
  <2>2. first + 1 \in Int /\ Len(c) \in Int /\ first + 1 <= Len(c)  BY <1>2, <1>4
  <2>3. /\ s \in Seq(Dword)
        /\ Len(s) = Len(c) - (first + 1) + 1
        /\ \A i \in 1 .. Len(c) - (first + 1) + 1 : s[i] = c[first + 1 + i - 1]
    BY <2>1, <2>2, SubSeqProperties
  <2> HIDE DEF s, c, first
  <2>4. Len(s) = Len(c) - first  BY <2>2, <2>3, <1>4
  <2>5. ASSUME NEW k \in first .. Len(c) - 1 PROVE s[k - first + 1] = c[k + 1]
    <3>1. k - first + 1 \in 1 .. Len(c) - (first + 1) + 1
          /\ first + 1 + (k - first + 1) - 1 = k + 1
      BY <1>2, <1>4
    <3>2. QED  BY <3>1, <2>3
  <2>6. QED  BY <2>3, <2>4, <2>5
<1>6. /\ mem' = CopyInto(mem, 0, s)
      /\ pc' = "tail"
      /\ UNCHANGED <<head, tail, status, cur, todo, hcur, stream, taken, acked>>
  BY DEF CopyRest, history
<1>7. CopiedLen = first /\ CopiedLen' = Len(c)  BY <1>1, <1>6 DEF CopiedLen
<1>8. \A k \in 0 .. first - 1 : mem[(cur + k) % BufSize] = c[k + 1]
  BY <1>7 DEF RingInv, Copied
<1> HIDE DEF c, start, first, s
<1>9. mem \in [Slots -> Dword \cup {Zero}]  BY DEF RingInv, RingTypeOK
<1>10. /\ mem' \in [Slots -> Dword \cup {Zero}]
       /\ \A i \in Slots : i < Len(c) - first => mem'[i] = s[i + 1]
       /\ \A i \in Slots : ~(i < Len(c) - first) => mem'[i] = mem[i]
  <2>1. 0 \in Nat  OBVIOUS
  <2>2. /\ mem' \in [Slots -> Dword \cup {Zero}]
        /\ \A i \in Slots : i >= 0 /\ i < 0 + Len(s) => mem'[i] = s[i - 0 + 1]
        /\ \A i \in Slots : ~(i >= 0 /\ i < 0 + Len(s)) => mem'[i] = mem[i]
    BY <2>1, <1>5, <1>6, <1>9, CopySlots
  <2>3. \A i \in Slots : i \in Nat /\ i >= 0 /\ i - 0 + 1 = i + 1  BY <1>3 DEF Slots
  <2>4. 0 + Len(s) = Len(c) - first  BY <1>5, <1>2, <1>4
  <2>5. QED  BY <2>2, <2>3, <2>4
<1>11. \A k \in 0 .. Len(c) - 1 :
         (cur + k) % BufSize = IF k < first THEN start + k ELSE k - first
  <2>1. cur \in Nat  BY DEF RingInv, RingTypeOK
  <2>2. SUFFICES ASSUME NEW k \in 0 .. Len(c) - 1
                 PROVE  (cur + k) % BufSize = IF k < first THEN start + k ELSE k - first
    OBVIOUS
  <2>3. k \in Nat /\ k < BufSize  BY <1>2, <1>3
  <2>4. (cur + k) % BufSize = IF start + k < BufSize THEN start + k ELSE start + k - BufSize
    BY <2>1, <2>3, <1>3, ModAdd DEF start
  <2>5. QED  BY <2>3, <2>4, <1>2, <1>3 DEF first
<1>12. RingTypeOK'  BY <1>6, <1>10 DEF RingInv, RingTypeOK
<1>13. Cursors'  BY <1>6 DEF RingInv, Cursors
<1>14. Phases'  BY <1>1, <1>6 DEF RingInv, Phases
<1>15. Copied'
  <2>1. SUFFICES ASSUME NEW k \in 0 .. Len(c) - 1
                 PROVE  mem'[(cur + k) % BufSize] = c[k + 1]
    BY <1>7, <1>6 DEF Copied, c
  <2>2. CASE k < first
    <3>1. start + k \in Slots /\ ~(start + k < Len(c) - first) /\ k \in 0 .. first - 1
      BY <2>2, <1>2, <1>3, <1>4 DEF Slots, first
    <3>2. mem'[start + k] = mem[start + k]  BY <3>1, <1>10
    <3>3. QED  BY <3>1, <3>2, <2>2, <1>8, <1>11
  <2>3. CASE ~(k < first)
    <3>1. k - first \in Slots /\ k - first < Len(c) - first /\ k \in first .. Len(c) - 1
      BY <2>3, <1>2, <1>3, <1>4 DEF Slots
    <3>2. mem'[k - first] = s[(k - first) + 1]  BY <3>1, <1>10
    <3>3. QED  BY <3>1, <3>2, <2>3, <1>5, <1>11
  <2>4. QED  BY <2>2, <2>3
<1>16. UnreadIntact'
  <2>1. SUFFICES ASSUME NEW p \in hcur .. tail - 1
                 PROVE  mem'[p % BufSize] = stream[p + 1]
    BY <1>6 DEF UnreadIntact
  <2>2. mem[p % BufSize] = stream[p + 1]  BY DEF RingInv, UnreadIntact
  <2>3. p % BufSize \in Slots
    <3>1. p \in Nat  BY DEF RingInv, RingTypeOK
    <3>2. QED  BY <3>1, <1>3, DivMod DEF Slots
  <2>4. ~(p % BufSize < Len(c) - first)
    <3>1. SUFFICES ASSUME p % BufSize < Len(c) - first PROVE FALSE
      OBVIOUS
    <3> DEFINE k == first + (p % BufSize)
    <3>2. k \in 0 .. Len(c) - 1 /\ ~(k < first) /\ k - first = p % BufSize
      BY <3>1, <2>3, <1>2, <1>3, <1>4 DEF Slots
    <3> HIDE DEF k
    <3>3. p % BufSize = (cur + k) % BufSize  BY <3>2, <1>11
    <3>4. k \in Nat /\ k < Len(todo[1])  BY <3>2, <1>2 DEF c
    <3>5. QED  BY <3>3, <3>4, <1>1, SlotFree
  <2>5. QED  BY <2>2, <2>3, <2>4, <1>10
<1>17. ReadAsSubmitted'  BY <1>6 DEF RingInv, ReadAsSubmitted
<1>18. QED  BY <1>12, <1>13, <1>14, <1>15, <1>16, <1>17 DEF RingInv

\* The store of the tail publishes exactly the copied command.
LEMMA StoreTailInv ==
  ASSUME RingInv, StoreTail
  PROVE  /\ RingInv'
         /\ \E c \in Command : stream' = stream \o c
<1> DEFINE c == todo[1]
           n == Len(c)
<1>1. pc = "tail" /\ todo # << >>  BY DEF StoreTail, RingInv, Phases
<1>2. /\ c \in Seq(Dword) /\ c \in Command /\ n \in Nat \ {0} /\ n <= BufSize
      /\ cur + n <= MaxStream
  BY <1>1, CurrentCommand
<1>3. /\ cur \in Nat /\ cur = Len(stream) /\ tail = cur /\ hcur <= tail /\ hcur \in Nat
      /\ acked \in Nat /\ head \in Nat /\ hcur = Len(taken) /\ stream \in Seq(Dword)
  BY DEF RingInv, RingTypeOK, Cursors
<1>4. (cur + n) % CursorMod = cur + n
  <2>1. cur + n \in Nat /\ cur + n < CursorMod /\ CursorMod \in Nat \ {0}
    BY <1>2, <1>3, RingAssumption
  <2>2. QED  BY <2>1, ModSmall
<1>5. /\ tail' = cur + n /\ cur' = cur + n
      /\ todo' = Tail(todo) /\ stream' = stream \o c
      /\ pc' = IF todo' = << >> THEN "wait" ELSE "copy"
      /\ UNCHANGED <<mem, head, status, hcur, taken, acked>>
  BY <1>4 DEF StoreTail
<1>6. /\ todo' \in Seq(Command) /\ Len(todo') <= 2 /\ BatchLen(todo') \in Nat
      /\ BatchLen(todo) = n + BatchLen(todo')
  <2>1. todo \in Seq(Command) /\ Len(todo) <= 2  BY DEF RingInv, RingTypeOK, Phases
  <2>2. QED  BY <2>1, <1>1, <1>5, BatchLenTail
<1>7. /\ stream' \in Seq(Dword) /\ Len(stream') = cur + n
      /\ \A i \in 1 .. cur + n : stream'[i] = IF i <= cur THEN stream[i] ELSE c[i - cur]
  BY <1>2, <1>3, <1>5, ConcatProperties
<1>8. CopiedLen = n /\ \A k \in 0 .. n - 1 : mem[(cur + k) % BufSize] = c[k + 1]
  <2>1. CopiedLen = n  BY <1>1 DEF CopiedLen
  <2>2. QED  BY <2>1 DEF RingInv, Copied
<1> HIDE DEF c, n
<1>9. RingTypeOK'
  <2>1. pc' \in {"wait", "copy"} /\ cur + n \in Nat  BY <1>2, <1>3, <1>5
  <2>2. QED  BY <2>1, <1>5, <1>6, <1>7 DEF RingInv, RingTypeOK
<1>10. Cursors'
  <2>1. cur + n + BatchLen(todo') <= MaxStream /\ cur + n + BatchLen(todo') <= acked + BufSize
    <3> DEFINE r == BatchLen(todo')
    <3>1. cur + (n + r) <= MaxStream /\ cur + (n + r) <= acked + BufSize /\ r \in Nat
      BY <1>6 DEF RingInv, Cursors
    <3> HIDE DEF r
    <3>2. cur + n + r <= MaxStream /\ cur + n + r <= acked + BufSize
      BY <3>1, <1>2, <1>3
    <3>3. QED  BY <3>2 DEF r
  <2>2. (BatchLen(todo))' = BatchLen(todo')  BY DEF BatchLen
  <2>3. (Len(stream))' = cur + n /\ hcur <= cur + n  BY <1>2, <1>3, <1>7
  <2>4. QED  BY <2>1, <2>2, <2>3, <1>5 DEF RingInv, Cursors
<1>11. Phases'  BY <1>5, <1>6 DEF Phases
<1>12. Copied'  BY <1>5 DEF Copied, CopiedLen
<1>13. UnreadIntact'
  <2>1. ASSUME NEW p \in hcur .. cur + n - 1
        PROVE  mem[p % BufSize] = stream'[p + 1]
    <3>1. p \in Nat /\ p + 1 \in 1 .. cur + n  BY <1>2, <1>3
    <3>2. CASE p < cur
      <4>1. mem[p % BufSize] = stream[p + 1]
        BY <3>1, <3>2, <1>3 DEF RingInv, UnreadIntact
      <4>2. QED  BY <4>1, <3>1, <3>2, <1>3, <1>7
    <3>3. CASE ~(p < cur)
      <4> DEFINE k == p - cur
      <4>1. k \in 0 .. n - 1 /\ cur + k = p /\ (p + 1) - cur = k + 1 /\ ~(p + 1 <= cur)
        BY <3>1, <3>3, <1>2, <1>3
      <4> HIDE DEF k
      <4>2. mem[p % BufSize] = c[k + 1]  BY <4>1, <1>8
      <4>3. stream'[p + 1] = c[k + 1]  BY <4>1, <3>1, <1>7
      <4>4. QED  BY <4>2, <4>3
    <3>4. QED  BY <3>2, <3>3
  <2> DEFINE unread == hcur .. cur + n - 1
  <2>2. (hcur .. tail - 1)' = unread /\ mem' = mem  BY <1>2, <1>3, <1>5
  <2>3. \A p \in (hcur .. tail - 1)' : mem'[p % BufSize] = stream'[p + 1]
    <3>1. \A p \in unread : mem[p % BufSize] = stream'[p + 1]  BY <2>1
    <3> HIDE DEF unread
    <3>2. QED  BY <2>2, <3>1
  <2>4. QED  BY <2>3 DEF UnreadIntact
<1>14. ReadAsSubmitted'
  <2>1. \A i \in 1 .. Len(taken) : i \in 1 .. cur + n /\ i <= cur  BY <1>2, <1>3
  <2>2. QED  BY <2>1, <1>5, <1>7 DEF RingInv, ReadAsSubmitted
<1>15. RingInv'  BY <1>9, <1>10, <1>11, <1>12, <1>13, <1>14 DEF RingInv
<1>16. QED  BY <1>2, <1>5, <1>15

\* A wait that succeeds acknowledges only what the host has read.
LEMMA WaitReachedInv ==
  ASSUME RingInv, WaitReached
  PROVE  RingInv'
<1>1. /\ pc = "wait" /\ head >= cur /\ acked' = cur /\ pc' = "ready"
      /\ UNCHANGED <<mem, head, tail, status, cur, todo, hcur, stream, taken>>
  BY DEF WaitReached, ringMem
<1>2. todo = << >> /\ BatchLen(todo) = 0
  BY <1>1 DEF RingInv, Phases, BatchLen
<1>3. RingTypeOK'  BY <1>1 DEF RingInv, RingTypeOK
<1>4. Cursors'
  <2>1. (BatchLen(todo))' = 0  BY <1>1, <1>2 DEF BatchLen
  <2>2. QED
    BY <1>1, <1>2, <2>1, RingAssumption DEF RingInv, RingTypeOK, Cursors
<1>5. Phases'  BY <1>1, <1>2 DEF RingInv, Phases
<1>6. Copied'  BY <1>1 DEF Copied, CopiedLen
<1>7. UnreadIntact' /\ ReadAsSubmitted'
  BY <1>1 DEF RingInv, UnreadIntact, ReadAsSubmitted
<1>8. QED  BY <1>3, <1>4, <1>5, <1>6, <1>7 DEF RingInv

\* A wait that times out changes nothing but the client's state.
LEMMA WaitTimeoutInv ==
  ASSUME RingInv, WaitTimeout
  PROVE  RingInv'
<1>1. /\ pc = "wait" /\ pc' = "failed"
      /\ UNCHANGED <<mem, head, tail, status, cur, todo, hcur, stream, taken, acked>>
  BY DEF WaitTimeout, ringMem, history
<1>2. RingTypeOK' /\ Cursors' /\ UnreadIntact' /\ ReadAsSubmitted'
  BY <1>1 DEF RingInv, RingTypeOK, Cursors, UnreadIntact, ReadAsSubmitted
<1>3. Phases'  BY <1>1 DEF RingInv, Phases
<1>4. Copied'  BY <1>1 DEF Copied, CopiedLen
<1>5. QED  BY <1>2, <1>3, <1>4 DEF RingInv

\* The host reads the next submitted dword, whatever the client is copying.
LEMMA HostTakeInv ==
  ASSUME RingInv, HostTake
  PROVE  /\ RingInv'
         /\ Len(taken) < Len(stream)
         /\ taken' = Append(taken, stream[Len(taken) + 1])
<1> DEFINE d == mem[hcur % BufSize]
<1>1. /\ hcur \in Nat /\ tail \in Nat /\ hcur <= tail /\ tail <= MaxStream
      /\ hcur = Len(taken) /\ tail = Len(stream)
      /\ taken \in Seq(Dword) /\ stream \in Seq(Dword)
  <2>1. BatchLen(todo) \in Nat
    BY BatchLenTail DEF RingInv, RingTypeOK, Phases
  <2>2. QED  BY <2>1, RingAssumption DEF RingInv, RingTypeOK, Cursors
<1>2. hcur # tail /\ hcur < tail  BY <1>1 DEF HostTake
<1>3. d = stream[hcur + 1]  BY <1>1, <1>2 DEF RingInv, UnreadIntact
<1>4. d \in Dword
  <2>1. hcur + 1 \in 1 .. Len(stream)  BY <1>1, <1>2
  <2>2. QED  BY <2>1, <1>1, <1>3, ElementOfSeq
<1>5. (hcur + 1) % CursorMod = hcur + 1
  <2>1. hcur + 1 \in Nat /\ hcur + 1 < CursorMod /\ CursorMod \in Nat \ {0}
    BY <1>1, <1>2, RingAssumption
  <2>2. QED  BY <2>1, ModSmall
<1>6. /\ taken' = Append(taken, d) /\ hcur' = hcur + 1
      /\ UNCHANGED <<mem, head, tail, status, pc, cur, todo, stream, acked>>
  BY <1>5 DEF HostTake, ringMem, clientVars
<1> HIDE DEF d
<1>7. /\ taken' \in Seq(Dword) /\ Len(taken') = hcur + 1
      /\ \A i \in 1 .. hcur : taken'[i] = taken[i]
      /\ taken'[hcur + 1] = d
  BY <1>1, <1>4, <1>6, AppendProperties
<1>8. RingTypeOK'
  <2>1. hcur + 1 \in Nat  BY <1>1
  <2>2. QED  BY <2>1, <1>6, <1>7 DEF RingInv, RingTypeOK
<1>9. Cursors'
  <2>1. (Len(taken))' = hcur + 1 /\ hcur + 1 <= tail  BY <1>1, <1>2, <1>7
  <2>2. (BatchLen(todo))' = BatchLen(todo)  BY <1>6 DEF BatchLen
  <2>3. head \in Nat /\ head <= hcur + 1  BY <1>1 DEF RingInv, RingTypeOK, Cursors
  <2>4. QED  BY <2>1, <2>2, <2>3, <1>6 DEF RingInv, Cursors
<1>10. Phases' /\ Copied'  BY <1>6 DEF RingInv, Phases, Copied, CopiedLen
<1>11. UnreadIntact'
  <2>1. \A p \in hcur + 1 .. tail - 1 : p \in hcur .. tail - 1  BY <1>1
  <2>2. \A p \in hcur + 1 .. tail - 1 : mem[p % BufSize] = stream[p + 1]
    BY <2>1 DEF RingInv, UnreadIntact
  <2>3. QED  BY <2>2, <1>6 DEF UnreadIntact
<1>12. ReadAsSubmitted'
  <2>1. ASSUME NEW i \in 1 .. hcur + 1 PROVE taken'[i] = stream[i]
    <3>1. CASE i = hcur + 1  BY <3>1, <1>3, <1>7
    <3>2. CASE i # hcur + 1
      <4>1. i \in 1 .. hcur  BY <3>2, <1>1
      <4>2. QED  BY <4>1, <1>1, <1>7 DEF RingInv, ReadAsSubmitted
    <3>3. QED  BY <3>1, <3>2
  <2>2. (Len(taken))' = hcur + 1 /\ stream' = stream  BY <1>6, <1>7
  <2>3. QED  BY <2>1, <2>2 DEF ReadAsSubmitted
<1>13. RingInv'  BY <1>8, <1>9, <1>10, <1>11, <1>12 DEF RingInv
<1>14. QED  BY <1>1, <1>2, <1>3, <1>6, <1>13

\* Publishing the head, going idle and stopping touch no dword.
LEMMA HostControlInv ==
  ASSUME RingInv, HostStoreHead \/ HostIdle \/ HostStop
  PROVE  RingInv'
<1>1. /\ head' \in {head, hcur} /\ status' \in {"running", "idle", "stopped"}
      /\ UNCHANGED <<mem, tail, pc, cur, todo, hcur, stream, taken, acked>>
  BY DEF HostStoreHead, HostIdle, HostStop, clientVars, history, RingInv, RingTypeOK
<1>2. RingTypeOK'  BY <1>1 DEF RingInv, RingTypeOK
<1>3. Cursors'
  <2>1. (BatchLen(todo))' = BatchLen(todo)  BY <1>1 DEF BatchLen
  <2>2. acked <= head' /\ head' <= hcur  BY <1>1 DEF RingInv, RingTypeOK, Cursors
  <2>3. QED  BY <2>1, <2>2, <1>1 DEF RingInv, Cursors
<1>4. Phases' /\ Copied'  BY <1>1 DEF RingInv, Phases, Copied, CopiedLen
<1>5. UnreadIntact' /\ ReadAsSubmitted'
  BY <1>1 DEF RingInv, UnreadIntact, ReadAsSubmitted
<1>6. QED  BY <1>2, <1>3, <1>4, <1>5 DEF RingInv

-----------------------------------------------------------------------------
(* The theorems.                                                           *)

\* The cleared mapping with both cursors at zero satisfies the invariant.
LEMMA RingInitInv == RingInit => RingInv
<1> SUFFICES ASSUME RingInit PROVE RingInv
  OBVIOUS
<1>2. BatchLen(todo) = 0  BY DEF RingInit, BatchLen
<1>3. Len(stream) = 0 /\ Len(taken) = 0 /\ Len(todo) = 0  BY DEF RingInit
<1>4. RingTypeOK  BY DEF RingInit, RingTypeOK
<1>5. Cursors  BY <1>2, <1>3, RingAssumption DEF RingInit, Cursors
<1>6. Phases  BY <1>3 DEF RingInit, Phases
<1>7. Copied  BY DEF RingInit, Copied, CopiedLen
<1>8. UnreadIntact /\ ReadAsSubmitted  BY <1>3 DEF RingInit, UnreadIntact, ReadAsSubmitted
<1>9. QED  BY <1>4, <1>5, <1>6, <1>7, <1>8 DEF RingInv

\* Every step of client or host preserves the invariant.
LEMMA RingStepInv == RingInv /\ [RingNext]_ringVars => RingInv'
<1> SUFFICES ASSUME RingInv, [RingNext]_ringVars PROVE RingInv'
  OBVIOUS
<1>2. ASSUME NEW b \in Batch, BeginBatch(b) PROVE RingInv'  BY <1>2, BeginBatchInv
<1>3. CASE CopyFirst  BY <1>3, CopyFirstInv
<1>4. CASE CopyRest  BY <1>4, CopyRestInv
<1>5. CASE StoreTail  BY <1>5, StoreTailInv
<1>6. CASE WaitReached  BY <1>6, WaitReachedInv
<1>7. CASE WaitTimeout  BY <1>7, WaitTimeoutInv
<1>8. CASE HostTake  BY <1>8, HostTakeInv
<1>9. CASE HostStoreHead \/ HostIdle \/ HostStop  BY <1>9, HostControlInv
<1>10. CASE UNCHANGED ringVars
  BY <1>10 DEF ringVars, ringMem, clientVars, history, RingInv, RingTypeOK, Cursors,
     Phases, Copied, CopiedLen, UnreadIntact, ReadAsSubmitted
<1>11. QED
  BY <1>2, <1>3, <1>4, <1>5, <1>6, <1>7, <1>8, <1>9, <1>10
  DEF RingNext, ClientStep

\* The inductive invariant holds in every reachable state, for every buffer
\* size and every batches that fit in it.
THEOREM RingInvariant == RingSpec => []RingInv
<1>1. RingInit => RingInv  BY RingInitInv
<1>2. RingInv /\ [RingNext]_ringVars => RingInv'  BY RingStepInv
<1>3. QED  BY <1>1, <1>2, PTL DEF RingSpec

\* writeCmd needs no free-space check: the wait after each batch is enough to
\* keep every unread dword in its slot.
THEOREM RingNeverOverwrites == RingSpec => []UnreadIntact
<1>1. RingInv => UnreadIntact  BY DEF RingInv
<1>2. QED  BY <1>1, RingInvariant, PTL

\* A seqno that WaitHead reports as reached has been read by the host.
THEOREM RingReachedMeansRead == RingSpec => []ReachedMeansRead
<1>1. RingInv => ReachedMeansRead
  BY DEF RingInv, RingTypeOK, Cursors, Phases, ReachedMeansRead
<1>2. QED  BY <1>1, RingInvariant, PTL

\* The ring implements the abstract FIFO of commands: what writeCmd, the host
\* consumer and WaitHead do to shared memory is a send, a take, an
\* acknowledgement, or nothing.
THEOREM RingImplementsQueue == RingSpec => ImplementsQueue
<1>1. RingInit => Queue!Init  BY DEF RingInit, Queue!Init
<1>2. RingInv /\ [RingNext]_ringVars => [Queue!Next]_(Queue!vars)
  <2>1. SUFFICES ASSUME RingInv, [RingNext]_ringVars
                 PROVE  [Queue!Next]_(Queue!vars)
    OBVIOUS
  <2> USE DEF Queue!Next, Queue!vars
  <2>2. CASE StoreTail
    <3>1. \E c \in Command : stream' = stream \o c  BY <2>1, <2>2, StoreTailInv
    <3>2. QED  BY <3>1, <2>2 DEF StoreTail, Queue!Send
  <2>3. CASE HostTake
    <3>1. Len(taken) < Len(stream) /\ taken' = Append(taken, stream[Len(taken) + 1])
      BY <2>1, <2>3, HostTakeInv
    <3>2. QED  BY <3>1, <2>3 DEF HostTake, Queue!Take
  <2>4. CASE WaitReached
    <3>1. cur \in acked .. Len(taken)
      BY <2>1, <2>4, BatchLenTail DEF WaitReached, RingInv, RingTypeOK, Cursors, Phases
    <3>2. QED  BY <3>1, <2>4 DEF WaitReached, Queue!Acknowledge
  <2>5. CASE \/ \E b \in Batch : BeginBatch(b)
             \/ CopyFirst \/ CopyRest \/ WaitTimeout
             \/ HostStoreHead \/ HostIdle \/ HostStop \/ UNCHANGED ringVars
    <3>1. UNCHANGED <<stream, taken, acked>>
      BY <2>5 DEF BeginBatch, CopyFirst, CopyRest, WaitTimeout, HostStoreHead,
                  HostIdle, HostStop, ringVars, history
    <3>2. QED  BY <3>1
  <2>6. QED  BY <2>1, <2>2, <2>3, <2>4, <2>5 DEF RingNext, ClientStep
<1>3. QED
  BY <1>1, <1>2, RingInvariant, PTL DEF RingSpec, ImplementsQueue, Queue!Spec
=============================================================================
