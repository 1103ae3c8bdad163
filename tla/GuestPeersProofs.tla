-------------------------- MODULE GuestPeersProofs --------------------------
(***************************************************************************)
(* Proofs about GuestPeers and HostScript: for every set of run scripts,   *)
(* every number of polls and every token without zeros and with unequal    *)
(* neighbours, cut into chunks anywhere.                                   *)
(***************************************************************************)
EXTENDS GuestPeers, FiniteSetTheorems, SequenceTheorems, TLAPS

USE DEF Loop, Ending, Quitting, InMonitor

-----------------------------------------------------------------------------
(* Sequences of bytes.                                                     *)

\* A sequence cut after its first n elements, and put together again.
LEMMA Split ==
  ASSUME NEW s \in Seq(Nat), NEW n \in 0 .. Len(s)
  PROVE  LET a == SubSeq(s, 1, n)
             b == SubSeq(s, n + 1, Len(s))
         IN /\ a \in Seq(Nat) /\ b \in Seq(Nat) /\ a \o b = s
            /\ Len(a) = n /\ Len(b) = Len(s) - n
            /\ \A i \in 1 .. n : a[i] = s[i]
  <1> DEFINE a == SubSeq(s, 1, n)
             b == SubSeq(s, n + 1, Len(s))
  <1>1. Len(s) \in Nat /\ \A i \in 1 .. Len(s) : s[i] \in Nat  BY LenProperties, ElementOfSeq
  <1>2. a \in Seq(Nat) /\ Len(a) = n /\ \A i \in 1 .. n : a[i] = s[i]
    <2>1. \A i \in 1 .. n : s[i] \in Nat  BY <1>1
    <2>2. /\ a \in Seq(Nat)
          /\ Len(a) = IF 1 <= n THEN n - 1 + 1 ELSE 0
          /\ \A i \in 1 .. n - 1 + 1 : a[i] = s[1 + i - 1]
      BY <2>1, <1>1, SubSeqProperties
    <2>3. QED  BY <2>2, <1>1
  <1>3. b \in Seq(Nat) /\ Len(b) = Len(s) - n
    <2>1. \A i \in n + 1 .. Len(s) : s[i] \in Nat  BY <1>1
    <2>2. n + 1 \in Int /\ Len(s) \in Int  BY <1>1
    <2>3. b \in Seq(Nat) /\ Len(b) = IF n + 1 <= Len(s) THEN Len(s) - (n + 1) + 1 ELSE 0
      BY <2>1, <2>2, SubSeqProperties
    <2>4. QED  BY <2>3, <1>1
  <1>4. a \o b = s
    <2>1. 1 \in 1 .. Len(s) + 1 /\ n \in 1 - 1 .. Len(s) /\ Len(s) \in n .. Len(s)  BY <1>1
    <2>2. a \o b = SubSeq(s, 1, Len(s))  BY <2>1, ConcatAdjacentSubSeq
    <2>3. QED  BY <2>2, SubSeqFull
  <1>5. QED  BY <1>2, <1>3, <1>4

\* What Damaged leaves of a sequence: one byte less, a zero in front, or the
\* second byte in the first one's place.
LEMMA DamagedShape ==
  ASSUME NEW s \in Seq(Nat), s # << >>, NEW c \in Damaged(s)
  PROVE  /\ c \in Seq(Nat)
         /\ \/ Len(c) = Len(s) - 1
            \/ Len(c) = Len(s) + 1 /\ c[1] = 0
            \/ Len(c) = Len(s) /\ Len(s) > 1 /\ c[1] = s[2]
  <1>1. Len(s) \in Nat \ {0} /\ \A i \in 1 .. Len(s) : s[i] \in Nat
    BY EmptySeq, LenProperties, ElementOfSeq
  <1>2. CASE c = Tail(s)  BY <1>2, HeadTailProperties
  <1>3. CASE c = <<0>> \o s
    <2>1. <<0>> \in Seq(Nat) /\ Len(<<0>>) = 1 /\ <<0>>[1] = 0  OBVIOUS
    <2>2. c \in Seq(Nat) /\ Len(c) = 1 + Len(s)  BY <1>3, <2>1, ConcatProperties
    <2>3. c[1] = 0  BY <1>1, <1>3, <2>1, ConcatProperties
    <2>4. QED  BY <1>1, <2>2, <2>3
  <1>4. CASE Len(s) > 1 /\ c = <<s[2], s[1]>> \o SubSeq(s, 3, Len(s))
    <2> DEFINE h == <<s[2], s[1]>>
               t == SubSeq(s, 3, Len(s))
    <2>1. s[1] \in Nat /\ s[2] \in Nat  BY <1>1, <1>4
    <2>2. h \in Seq(Nat) /\ Len(h) = 2 /\ h[1] = s[2]  BY <2>1
    <2>3. t \in Seq(Nat) /\ Len(t) = IF 3 <= Len(s) THEN Len(s) - 3 + 1 ELSE 0
      <3>1. \A i \in 3 .. Len(s) : s[i] \in Nat  BY <1>1
      <3>2. QED  BY <1>1, <3>1, SubSeqProperties
    <2> HIDE DEF h, t
    <2>4. c = h \o t  BY <1>4 DEF h, t
    <2>5. c \in Seq(Nat) /\ Len(c) = Len(h) + Len(t)  BY <2>2, <2>3, <2>4, ConcatProperties
    <2>6. c[1] = h[1]
      <3>1. 1 \in 1 .. Len(h) + Len(t) /\ 1 <= Len(h)  BY <1>1, <2>2, <2>3
      <3>2. QED  BY <2>2, <2>3, <2>4, <3>1, ConcatProperties
    <2>7. Len(c) = Len(s)
      <3>1. Len(s) \in Nat /\ Len(s) > 1  BY <1>1, <1>4
      <3>2. Len(t) = Len(s) - 2
        <4> DEFINE l == Len(s)
                   k == Len(t)
        <4>1. k = IF 3 <= l THEN l - 3 + 1 ELSE 0  BY <2>3
        <4>2. l \in Nat /\ l > 1  BY <3>1
        <4> HIDE DEF l, k
        <4>3. k = l - 2  BY <4>1, <4>2
        <4>4. QED  BY <4>3 DEF l, k
      <3>3. Len(c) = 2 + Len(t)  BY <2>2, <2>5
      <3>4. QED  BY <3>1, <3>2, <3>3
    <2>8. QED  BY <1>4, <2>2, <2>5, <2>6, <2>7
  <1>5. QED  BY <1>2, <1>3, <1>4 DEF Damaged

-----------------------------------------------------------------------------
(* The console's token, on its way to the host and back.                   *)

\* What happens to the token is decided by the guest and the echo peer.
LEMMA TokenKept ==
  ASSUME TokenFate, UNCHANGED <<kind, consoleVars>>,
         g' = g \/ g' \in {"rx", "recv", "marked", "halted"} \/ (g = "open" /\ g' = "run"),
         "device" \in trouble => "device" \in trouble',
         kind = "console" /\ "PASS" \in serial' => "PASS" \in serial
  PROVE  TokenFate'
  BY DEF TokenFate, Stream, consoleVars

\* Two sequences in a row.
LEMMA Join ==
  ASSUME NEW s \in Seq(Nat), NEW t \in Seq(Nat)
  PROVE  /\ s \o t \in Seq(Nat) /\ Len(s \o t) = Len(s) + Len(t)
         /\ Len(s) \in Nat /\ Len(t) \in Nat
         /\ \A i \in 1 .. Len(s) : (s \o t)[i] = s[i]
         /\ \A i \in 1 .. Len(t) : (s \o t)[Len(s) + i] = t[i]
  <1>1. Len(s) \in Nat /\ Len(t) \in Nat  BY LenProperties
  <1>2. s \o t \in Seq(Nat) /\ Len(s \o t) = Len(s) + Len(t)  BY ConcatProperties
  <1>3. \A i \in 1 .. Len(s) + Len(t) : (s \o t)[i] = IF i <= Len(s) THEN s[i] ELSE t[i - Len(s)]
    BY ConcatProperties
  <1> DEFINE u == s \o t
  <1> HIDE DEF u
  <1>4. ASSUME NEW i \in 1 .. Len(s)  PROVE u[i] = s[i]
    <2>1. i \in 1 .. Len(s) + Len(t) /\ i <= Len(s)  BY <1>1
    <2>2. QED  BY <1>3, <2>1 DEF u
  <1>5. ASSUME NEW i \in 1 .. Len(t)  PROVE u[Len(s) + i] = t[i]
    <2>1. Len(s) + i \in 1 .. Len(s) + Len(t) /\ ~(Len(s) + i <= Len(s)) /\ Len(s) + i - Len(s) = i  BY <1>1
    <2>2. u[Len(s) + i] = t[Len(s) + i - Len(s)]  BY <1>3, <2>1 DEF u
    <2>3. QED  BY <2>1, <2>2
  <1>6. QED  BY <1>1, <1>2, <1>4, <1>5 DEF u

\* Concatenation of byte sequences is associative.
LEMMA Associative == \A s, t, u \in Seq(Nat) : (s \o t) \o u = s \o (t \o u)
  BY ConcatAssociative, SMTT(60)

\* p, q and r in a row, and n bytes that pass from r to q.
Passes(p, q, r, n) ==
  LET a == SubSeq(r, 1, n)
      b == SubSeq(r, n + 1, Len(r))
  IN /\ q \o a \in Seq(Nat) /\ b \in Seq(Nat)
     /\ Len(q \o a) + Len(b) = Len(q) + Len(r)
     /\ (p \o (q \o a)) \o b = (p \o q) \o r

\* An echo moves bytes along and loses none.
LEMMA MoveAlong ==
  ASSUME NEW p \in Seq(Nat), NEW q \in Seq(Nat), NEW r \in Seq(Nat), NEW n \in 1 .. Len(r)
  PROVE  Passes(p, q, r, n)
  <1> DEFINE a == SubSeq(r, 1, n)
             b == SubSeq(r, n + 1, Len(r))
  <1>1. Len(r) \in Nat /\ Len(q) \in Nat  BY LenProperties
  <1>2. n \in 0 .. Len(r)  BY <1>1
  <1>3. a \in Seq(Nat) /\ b \in Seq(Nat) /\ a \o b = r /\ Len(a) = n /\ Len(b) = Len(r) - n
    BY <1>2, Split
  <1> HIDE DEF a, b
  <1>4. q \o a \in Seq(Nat) /\ Len(q \o a) = Len(q) + Len(a)  BY <1>3, Join
  <1>5. p \o (q \o a) = (p \o q) \o a
    <2>1. a \in Seq(Nat)  BY <1>3
    <2>2. (p \o q) \o a = p \o (q \o a)  BY <2>1, Associative, ZenonT(60)
    <2>3. QED  BY <2>2
  <1>6. p \o q \in Seq(Nat)  BY Join
  <1>7. ((p \o q) \o a) \o b = (p \o q) \o (a \o b)  BY <1>3, <1>6, Associative, ZenonT(60)
  <1>8. (p \o (q \o a)) \o b = (p \o q) \o r  BY <1>3, <1>5, <1>7
  <1>9. Len(q \o a) + Len(b) = Len(q) + Len(r)  BY <1>1, <1>3, <1>4
  <1>10. QED  BY <1>3, <1>4, <1>8, <1>9 DEF Passes, a, b

\* Three sequences in a row.
LEMMA JoinThree ==
  ASSUME NEW p \in Seq(Nat), NEW q \in Seq(Nat), NEW r \in Seq(Nat)
  PROVE  LET s == (p \o q) \o r
         IN /\ s \in Seq(Nat) /\ Len(s) = Len(p) + Len(q) + Len(r)
            /\ \A i \in 1 .. Len(p) : s[i] = p[i]
            /\ \A i \in 1 .. Len(q) : s[Len(p) + i] = q[i]
  <1> DEFINE m == p \o q
             s == m \o r
  <1>1. /\ m \in Seq(Nat) /\ Len(m) = Len(p) + Len(q) /\ Len(p) \in Nat /\ Len(q) \in Nat
        /\ \A i \in 1 .. Len(p) : m[i] = p[i]
        /\ \A i \in 1 .. Len(q) : m[Len(p) + i] = q[i]
    BY Join
  <1> HIDE DEF m
  <1>2. /\ s \in Seq(Nat) /\ Len(s) = Len(m) + Len(r)
        /\ \A i \in 1 .. Len(m) : s[i] = m[i]
    BY <1>1, Join
  <1> HIDE DEF s
  <1>3. \A i \in 1 .. Len(p) : i \in 1 .. Len(m)  BY <1>1
  <1>4. \A i \in 1 .. Len(q) : Len(p) + i \in 1 .. Len(m)  BY <1>1
  <1>5. QED  BY <1>1, <1>2, <1>3, <1>4 DEF s, m

\* p, q and r in a row, and n bytes of q of which c gets to p.
Delivers(p, q, r, n, c) ==
  LET a == SubSeq(q, 1, n)
      b == SubSeq(q, n + 1, Len(q))
  IN /\ b \in Seq(Nat) /\ p \o c \in Seq(Nat)
     /\ Len(b) = Len(q) - n /\ Len(p \o c) = Len(p) + Len(c)
     /\ Len(((p \o c) \o b) \o r) = Len((p \o q) \o r) + Len(c) - n
     /\ \A i \in 1 .. Len(p) : (p \o c)[i] = p[i]
     /\ Len(c) > 0 => (p \o c)[Len(p) + 1] = c[1]
     /\ c = a => ((p \o c) \o b) \o r = (p \o q) \o r

\* A Read takes n bytes off rx and gives c to the guest.
LEMMA TakeFrom ==
  ASSUME NEW p \in Seq(Nat), NEW q \in Seq(Nat), NEW r \in Seq(Nat), NEW c \in Seq(Nat),
         NEW n \in 1 .. Len(q)
  PROVE  Delivers(p, q, r, n, c)
  <1> DEFINE a == SubSeq(q, 1, n)
             b == SubSeq(q, n + 1, Len(q))
             f == p \o c
             s == (p \o q) \o r
             t == (f \o b) \o r
  <1>1. Len(p) \in Nat /\ Len(q) \in Nat /\ Len(r) \in Nat /\ Len(c) \in Nat  BY LenProperties
  <1>2. n \in 0 .. Len(q)  BY <1>1
  <1>3. a \in Seq(Nat) /\ b \in Seq(Nat) /\ a \o b = q /\ Len(a) = n /\ Len(b) = Len(q) - n
    BY <1>2, Split
  <1> HIDE DEF a, b
  <1>4. /\ f \in Seq(Nat) /\ Len(f) = Len(p) + Len(c)
        /\ \A i \in 1 .. Len(p) : f[i] = p[i]
        /\ \A i \in 1 .. Len(c) : f[Len(p) + i] = c[i]
    BY Join
  <1>5. Len(c) > 0 => f[Len(p) + 1] = c[1]  BY <1>1, <1>4
  <1>6. Len(s) = Len(p) + Len(q) + Len(r)  BY JoinThree
  <1>7. ASSUME c = a  PROVE t = s
    <2>1. a \in Seq(Nat) /\ b \in Seq(Nat)  BY <1>3
    <2>2. (p \o a) \o b = p \o (a \o b)  BY <2>1, Associative, ZenonT(60)
    <2>3. QED  BY <1>3, <1>7, <2>2
  <1> HIDE DEF f
  <1>8. Len(t) = Len(f) + Len(b) + Len(r)
    <2>1. \A x, y \in Seq(Nat) : Len((x \o y) \o r) = Len(x) + Len(y) + Len(r)  BY JoinThree
    <2>2. QED  BY <1>3, <1>4, <2>1, Zenon
  <1> HIDE DEF s, t
  <1>9. Len(t) = Len(s) + Len(c) - n  BY <1>1, <1>3, <1>4, <1>6, <1>8
  <1>10. QED  BY <1>3, <1>4, <1>5, <1>7, <1>9 DEF Delivers, a, b, f, s, t

\* The bytes read come first in Stream, then those on their way back.
LEMMA StreamShape ==
  ASSUME TokenFate
  PROVE  /\ Len(Stream) = Len(got) + Len(rx) + Len(tx)
         /\ Len(got) \in Nat /\ Len(rx) \in Nat /\ Len(tx) \in Nat
         /\ \A i \in 1 .. Len(got) : Stream[i] = got[i]
         /\ \A i \in 1 .. Len(rx) : Stream[Len(got) + i] = rx[i]
  <1>1. tx \in Seq(Nat) /\ rx \in Seq(Nat) /\ got \in Seq(Nat)  BY DEF TokenFate
  <1>2. Len(got) \in Nat /\ Len(rx) \in Nat /\ Len(tx) \in Nat  BY <1>1, LenProperties
  <1>3. QED  BY <1>1, <1>2, JoinThree DEF Stream

\* ConsoleWrite with a damaged token leaves a stream that is short or starts wrong.
LEMMA WriteDamages ==
  ASSUME NEW c \in Damaged(Token)
  PROVE  /\ c \in Seq(Nat) /\ Len(c) <= Len(Token) + 1
         /\ Len(c) < Len(Token) \/ c[1] # Token[1]
  <1>1. Token \in Seq(Nat) /\ Len(Token) > 1 /\ Len(Token) \in Nat  BY TokenAssumption, LenProperties
  <1>2. Token # << >>  BY <1>1, EmptySeq
  <1>3. Token[1] # 0 /\ Token[1] # Token[2]
    <2>1. 1 \in 1 .. Len(Token) /\ 1 \in 1 .. Len(Token) - 1 /\ 1 + 1 = 2  BY <1>1
    <2>2. QED  BY <2>1, TokenAssumption
  <1>4. /\ c \in Seq(Nat)
        /\ \/ Len(c) = Len(Token) - 1
           \/ Len(c) = Len(Token) + 1 /\ c[1] = 0
           \/ Len(c) = Len(Token) /\ c[1] = Token[2]
    BY <1>1, <1>2, DamagedShape
  <1>5. QED  BY <1>1, <1>3, <1>4

\* EchoPeer keeps the fate of the token: the stream stays as it is.
LEMMA EchoToken ==
  ASSUME TokenFate, EchoPeer
  PROVE  TokenFate'
  <1>1. PICK n \in 1 .. Len(tx) : rx' = rx \o SubSeq(tx, 1, n) /\ tx' = SubSeq(tx, n + 1, Len(tx))
    BY DEF EchoPeer
  <1>2. /\ got' = got /\ bent' = bent /\ g' = g /\ kind' = kind /\ serial' = serial
        /\ trouble' = trouble /\ tx # << >>
    BY DEF EchoPeer, hostVars, logVars
  <1>3. tx \in Seq(Nat) /\ rx \in Seq(Nat) /\ got \in Seq(Nat)  BY DEF TokenFate
  <1>4. /\ rx' \in Seq(Nat) /\ tx' \in Seq(Nat)
        /\ Len(rx') + Len(tx') = Len(rx) + Len(tx)
        /\ (got \o rx') \o tx' = (got \o rx) \o tx
    <2> DEFINE a == SubSeq(tx, 1, n)
               b == SubSeq(tx, n + 1, Len(tx))
    <2>1. /\ rx \o a \in Seq(Nat) /\ b \in Seq(Nat)
          /\ Len(rx \o a) + Len(b) = Len(rx) + Len(tx)
          /\ (got \o (rx \o a)) \o b = (got \o rx) \o tx
      <3>1. n \in 1 .. Len(tx)  BY <1>1
      <3>2. Passes(got, rx, tx, n)  BY <1>3, <3>1, MoveAlong
      <3>3. QED  BY <3>2 DEF Passes
    <2>2. rx' = rx \o a /\ tx' = b  BY <1>1
    <2> HIDE DEF a, b
    <2>3. QED  BY <2>1, <2>2
  <1>5. Stream' = Stream  BY <1>2, <1>4 DEF Stream
  <1>6. g \notin {"open", "run"}  BY <1>2 DEF TokenFate
  <1>7. QED  BY <1>2, <1>3, <1>4, <1>5, <1>6 DEF TokenFate

\* ConsoleWrite starts the stream, with the token or with a damaged one.
LEMMA WriteToken ==
  ASSUME TokenFate, GuestLines, ConsoleWrite
  PROVE  TokenFate'
  <1>1. CASE Report("FAIL") /\ Blame("driver") /\ UNCHANGED <<tx, bent>>
    <2>1. UNCHANGED <<kind, consoleVars>> /\ g' = "halted" /\ "PASS" \notin serial'
      BY <1>1 DEF ConsoleWrite, Report, consoleVars, GuestRuns, GuestLines
    <2>2. trouble' = trouble \cup {"driver"}  BY <1>1 DEF Blame
    <2>3. QED  BY <2>1, <2>2, TokenKept
  <1>2. ASSUME g' = "read", Quiet, tx' \in Seq(Nat), Len(tx') <= Len(Token) + 1,
               \/ tx' = Token /\ bent' = {}
               \/ /\ Len(tx') < Len(Token) \/ tx'[1] # Token[1]
                  /\ bent' = {"tx"} /\ "device" \in trouble'
        PROVE  TokenFate'
    <2>1. got = << >> /\ rx = << >> /\ got' = got /\ rx' = rx /\ serial' = serial /\ serial = {}
      BY <1>2 DEF ConsoleWrite, GuestRuns, TokenFate, GuestLines, Quiet, logVars
    <2>2. << >> \in Seq(Nat) /\ Len(<< >>) = 0 /\ Len(tx') \in Nat  BY <1>2, EmptySeq, LenProperties
    <2>3. Stream' = tx'
      <3>1. << >> \o << >> = << >>  OBVIOUS
      <3>2. << >> \o tx' = tx'  BY <1>2, ConcatEmptySeq
      <3>3. QED  BY <2>1, <3>1, <3>2 DEF Stream
    <2>4. Len(rx') + Len(tx') <= Len(Token) + 1  BY <1>2, <2>1, <2>2
    <2>5. QED  BY <1>2, <2>1, <2>2, <2>3, <2>4 DEF TokenFate
  <1>3. bent = {}  BY DEF TokenFate, ConsoleWrite, GuestRuns
  <1>4. CASE g' = "read" /\ Quiet /\ tx' = Token /\ UNCHANGED <<bent, trouble>>
    <2>1. Token \in Seq(Nat) /\ Len(Token) <= Len(Token) + 1  BY TokenAssumption, LenProperties
    <2>2. QED  BY <1>2, <1>3, <1>4, <2>1
  <1>5. CASE g' = "read" /\ Quiet /\ Blame("device") /\ tx' \in Damaged(Token) /\ bent' = bent \cup {"tx"}
    <2>1. tx' \in Seq(Nat) /\ Len(tx') <= Len(Token) + 1 /\ (Len(tx') < Len(Token) \/ tx'[1] # Token[1])
      BY <1>5, WriteDamages
    <2>2. bent' = {"tx"} /\ "device" \in trouble'  BY <1>3, <1>5 DEF Blame
    <2>3. QED  BY <1>2, <1>5, <2>1, <2>2
  <1>6. QED  BY <1>1, <1>4, <1>5 DEF ConsoleWrite

\* A Read makes good no damage that was there, and its own damage shows in what
\* the guest has, or leaves too little for a whole token.
LEMMA ReadToken ==
  ASSUME TokenFate, DataTypes, GuestLines, ConsoleRead
  PROVE  TokenFate' /\ DataTypes'
  <1>1. CASE rx = << >> /\ Report("FAIL") /\ Blame("silence") /\ UNCHANGED <<rx, got, bent>>
    <2>1. /\ UNCHANGED <<kind, consoleVars, inbox, ppm>> /\ g' = "halted"
          /\ serial' = {"FAIL"} /\ trouble' = trouble \cup {"silence"}
      BY <1>1 DEF ConsoleRead, Report, Blame, consoleVars, GuestRuns, GuestLines
    <2>2. TokenFate'  BY <2>1, TokenKept
    <2>3. QED  BY <2>1, <2>2 DEF DataTypes, consoleVars
  <1>2. ASSUME NEW n \in 1 .. Len(rx), NEW c \in Seq(Nat),
               rx' = SubSeq(rx, n + 1, Len(rx)), got' = got \o c, Quiet, g' = g,
               \/ c = SubSeq(rx, 1, n) /\ UNCHANGED <<bent, trouble>>
               \/ /\ c \in Damaged(SubSeq(rx, 1, n))
                  /\ bent' = bent \cup {"rx"} /\ trouble' = trouble \cup {"device"}
        PROVE  TokenFate' /\ DataTypes'
    <2> DEFINE a == SubSeq(rx, 1, n)
               L == Len(Token)
    <2>1. /\ tx \in Seq(Nat) /\ rx \in Seq(Nat) /\ got \in Seq(Nat)
          /\ Len(rx) + Len(tx) <= L + 1
      BY DEF TokenFate
    <2>2. /\ tx' = tx /\ g = "read" /\ kind' = kind /\ serial' = serial /\ serial = {}
          /\ inbox' = inbox /\ ppm' = ppm /\ Len(got) < L
      BY <1>2 DEF ConsoleRead, GuestRuns, Short, GuestLines, Quiet, logVars
    <2>3. /\ Len(got) \in Nat /\ Len(rx) \in Nat /\ Len(tx) \in Nat /\ Len(c) \in Nat
          /\ L \in Nat /\ L > 1
          /\ \A i \in 1 .. L : Token[i] # 0
          /\ \A i \in 1 .. L - 1 : Token[i] # Token[i + 1]
      BY <2>1, LenProperties, TokenAssumption
    <2>4. /\ rx' \in Seq(Nat) /\ got' \in Seq(Nat)
          /\ Len(rx') = Len(rx) - n /\ Len(got') = Len(got) + Len(c)
          /\ Len(Stream') = Len(Stream) + Len(c) - n
          /\ \A i \in 1 .. Len(got) : got'[i] = got[i]
          /\ Len(c) > 0 => got'[Len(got) + 1] = c[1]
          /\ c = a => Stream' = Stream
      <3> DEFINE b == SubSeq(rx, n + 1, Len(rx))
      <3>1. /\ b \in Seq(Nat) /\ got \o c \in Seq(Nat)
            /\ Len(b) = Len(rx) - n /\ Len(got \o c) = Len(got) + Len(c)
            /\ Len(((got \o c) \o b) \o tx) = Len((got \o rx) \o tx) + Len(c) - n
            /\ \A i \in 1 .. Len(got) : (got \o c)[i] = got[i]
            /\ Len(c) > 0 => (got \o c)[Len(got) + 1] = c[1]
            /\ c = a => ((got \o c) \o b) \o tx = (got \o rx) \o tx
        <4>1. Delivers(got, rx, tx, n, c)  BY <2>1, TakeFrom
        <4>2. QED  BY <4>1 DEF Delivers
      <3>2. rx' = b /\ got' = got \o c /\ tx' = tx  BY <1>2, <2>2
      <3> HIDE DEF a, b
      <3>3. Stream' = ((got \o c) \o b) \o tx /\ Stream = (got \o rx) \o tx  BY <3>2 DEF Stream
      <3>4. QED  BY <3>1, <3>2, <3>3, Zenon
    <2>5. a \in Seq(Nat) /\ Len(a) = n /\ \A i \in 1 .. n : a[i] = rx[i]
      <3>1. n \in 0 .. Len(rx)  BY <2>3
      <3>2. QED  BY <2>1, <3>1, Split
    <2> HIDE DEF a
    <2>6. a # << >>  BY <2>5, EmptySeq
    <2>7. \/ c = a
          \/ Len(c) = n - 1
          \/ Len(c) = n + 1 /\ c[1] = 0
          \/ Len(c) = n /\ n > 1 /\ c[1] = a[2]
      BY <1>2, <2>5, <2>6, DamagedShape DEF a
    <2>15. Len(got') = Len(got) + Len(c) /\ Len(rx') = Len(rx) - n  BY <2>4
    <2>8. Len(got') <= 2 * L + 1
      <3>1. Len(c) <= n + 1  BY <2>3, <2>5, <2>7
      <3>2. QED  BY <2>1, <2>2, <2>3, <2>15, <3>1
    <2>9. DataTypes'  BY <1>2, <2>2, <2>8 DEF DataTypes
    <2>10. Len(rx') + Len(tx') <= L + 1  BY <2>1, <2>2, <2>3, <2>4
    <2>11. ASSUME NEW i \in 1 .. L, i <= Len(got), got[i] # Token[i]
           PROVE  \E j \in 1 .. L : j <= Len(got') /\ got'[j] # Token[j]
      <3>1. i \in 1 .. Len(got) /\ i <= Len(got')  BY <2>3, <2>4, <2>11
      <3>2. QED  BY <2>4, <2>11, <3>1
    <2>12. CASE c = a /\ bent' = bent /\ trouble' = trouble
      <3>1. Stream' = Stream  BY <2>4, <2>12
      <3>2. QED  BY <1>2, <2>1, <2>2, <2>4, <2>9, <2>10, <2>11, <2>12, <3>1 DEF TokenFate
    <2>13. CASE /\ c \in Damaged(a)
                /\ bent' = bent \cup {"rx"} /\ trouble' = trouble \cup {"device"}
      <3>1. \/ Len(c) = n - 1
            \/ Len(c) = n + 1 /\ c[1] = 0
            \/ Len(c) = n /\ n > 1 /\ c[1] = a[2]
        BY <2>5, <2>6, <2>13, DamagedShape
      <3>2. ASSUME "tx" \notin bent
            PROVE  \/ Len(Stream') < L
                   \/ \E j \in 1 .. L : j <= Len(got') /\ got'[j] # Token[j]
        <4>1. bent = {} \/ bent = {"rx"}  BY <3>2 DEF DataTypes
        <4>2. CASE bent = {"rx"} /\ \E i \in 1 .. L : i <= Len(got) /\ got[i] # Token[i]
          BY <2>11, <4>2
        <4>3. Len(Stream) = Len(got) + Len(rx) + Len(tx)  BY StreamShape
        <4>4. CASE Len(c) = n + 1 /\ c[1] = 0
          <5>1. Len(got) + 1 \in 1 .. L /\ Len(got) + 1 <= Len(got') /\ Len(c) > 0  BY <2>2, <2>3, <2>15, <4>4
          <5>2. got'[Len(got) + 1] = 0  BY <2>4, <4>4, <5>1
          <5>3. QED  BY <2>3, <5>1, <5>2
        <4>5. CASE Len(Stream) < L /\ (Len(c) = n - 1 \/ Len(c) = n)
          BY <2>3, <2>4, <4>3, <4>5
        <4>6. CASE Stream = Token /\ Len(c) = n - 1
          BY <2>3, <2>4, <4>6
        <4>7. CASE Stream = Token /\ Len(c) = n /\ n > 1 /\ c[1] = a[2]
          <5>1. /\ Len(got) + 1 \in 1 .. L - 1 /\ Len(got) + 1 \in 1 .. L
                /\ Len(got) + 1 <= Len(got') /\ Len(c) > 0 /\ 2 \in 1 .. n /\ 2 \in 1 .. Len(rx)
            <6>1. Len(got) + Len(rx) + Len(tx) = L  BY <4>3, <4>7
            <6>2. QED  BY <2>2, <2>3, <2>15, <4>7, <6>1
          <5>2. got'[Len(got) + 1] = rx[2]  BY <2>4, <2>5, <4>7, <5>1
          <5>3. Token[Len(got) + 2] = rx[2]  BY <4>7, <5>1, StreamShape
          <5>4. Token[Len(got) + 1] # Token[Len(got) + 1 + 1] /\ Len(got) + 1 + 1 = Len(got) + 2
            BY <2>3, <5>1
          <5>5. QED  BY <5>1, <5>2, <5>3, <5>4
        <4>8. QED  BY <2>2, <3>1, <4>1, <4>2, <4>4, <4>5, <4>6, <4>7 DEF TokenFate
      <3>3. bent' \notin {{}, {"tx"}} /\ (bent' = {"rx"} => "tx" \notin bent)
        <4>2. "rx" \in bent' /\ ("tx" \in bent => "tx" \in bent')  BY <2>13
        <4>3. QED  BY <4>2
      <3>4. QED  BY <1>2, <2>1, <2>2, <2>4, <2>9, <2>10, <2>13, <3>2, <3>3 DEF TokenFate
    <2>14. QED  BY <1>2, <2>12, <2>13 DEF a
  <1>3. ASSUME NEW n \in 1 .. Len(rx), rx # << >>, NEW c, c \in Damaged(SubSeq(rx, 1, n))
        PROVE  c \in Seq(Nat)
    <2>1. rx \in Seq(Nat) /\ Len(rx) \in Nat  BY LenProperties DEF TokenFate
    <2>2. n \in 0 .. Len(rx)  BY <2>1
    <2>3. SubSeq(rx, 1, n) \in Seq(Nat) /\ Len(SubSeq(rx, 1, n)) = n  BY <2>1, <2>2, Split
    <2>4. SubSeq(rx, 1, n) # << >>  BY <2>3, EmptySeq
    <2>5. QED  BY <1>3, <2>3, <2>4, DamagedShape
  <1>4. ASSUME NEW n \in 1 .. Len(rx)  PROVE SubSeq(rx, 1, n) \in Seq(Nat)
    <2>1. rx \in Seq(Nat) /\ Len(rx) \in Nat  BY LenProperties DEF TokenFate
    <2>2. n \in 0 .. Len(rx)  BY <2>1
    <2>3. QED  BY <2>1, <2>2, Split
  <1>5. CASE ~(rx = << >> /\ Report("FAIL") /\ Blame("silence") /\ UNCHANGED <<rx, got, bent>>)
    <2>1. PICK n \in 1 .. Len(rx) :
            /\ rx # << >> /\ rx' = SubSeq(rx, n + 1, Len(rx)) /\ Quiet /\ g' = g
            /\ \/ got' = got \o SubSeq(rx, 1, n) /\ UNCHANGED <<bent, trouble>>
               \/ /\ \E c \in Damaged(SubSeq(rx, 1, n)) : got' = got \o c
                  /\ bent' = bent \cup {"rx"} /\ Blame("device")
      BY <1>5 DEF ConsoleRead
    <2>2. CASE got' = got \o SubSeq(rx, 1, n) /\ UNCHANGED <<bent, trouble>>
      BY <1>2, <1>4, <2>1, <2>2
    <2>3. CASE /\ \E c \in Damaged(SubSeq(rx, 1, n)) : got' = got \o c
               /\ bent' = bent \cup {"rx"} /\ Blame("device")
      <3>1. PICK c \in Damaged(SubSeq(rx, 1, n)) : got' = got \o c  BY <2>3
      <3>2. c \in Seq(Nat)  BY <1>3, <2>1, <3>1
      <3>3. trouble' = trouble \cup {"device"}  BY <2>3 DEF Blame
      <3>4. QED  BY <1>2, <2>1, <2>3, <3>1, <3>2, <3>3
    <2>4. QED  BY <2>1, <2>2, <2>3
  <1>6. QED  BY <1>1, <1>5

\* The guest says PASS only if not exactly one direction was damaged, and FAIL
\* only if one was.
LEMMA CompareTells ==
  ASSUME TokenFate, DataTypes, g = "read", ~Short
  PROVE  /\ SubSeq(got, 1, Len(Token)) = Token => bent \notin {{"tx"}, {"rx"}}
         /\ SubSeq(got, 1, Len(Token)) # Token => "device" \in trouble
  <1> DEFINE L == Len(Token)
             first == SubSeq(got, 1, L)
  <1>1. /\ got \in Seq(Nat) /\ Token \in Seq(Nat) /\ L \in Nat /\ L > 1
        /\ Len(got) \in Nat /\ Len(rx) \in Nat /\ Len(tx) \in Nat /\ L <= Len(got)
    BY TokenAssumption, LenProperties DEF TokenFate, Short
  <1>2. first \in Seq(Nat) /\ Len(first) = L /\ \A i \in 1 .. L : first[i] = got[i]
    <2>1. L \in 0 .. Len(got)  BY <1>1
    <2>2. QED  BY <1>1, <2>1, Split
  <1> HIDE DEF first
  <1>3. ~(Len(Stream) < L) /\ \A i \in 1 .. L : Stream[i] = got[i]
    <2>1. Len(Stream) = Len(got) + Len(rx) + Len(tx) /\ \A i \in 1 .. Len(got) : Stream[i] = got[i]
      BY StreamShape
    <2>2. \A i \in 1 .. L : i \in 1 .. Len(got)  BY <1>1
    <2>3. ~(Len(Stream) < L)  BY <1>1, <2>1
    <2>4. QED  BY <2>1, <2>2, <2>3
  <1>4. ASSUME first = Token  PROVE bent \notin {{"tx"}, {"rx"}}
    <2>1. \A i \in 1 .. L : got[i] = Token[i]  BY <1>2, <1>4
    <2>2. Stream[1] = Token[1]  BY <1>1, <1>3, <2>1
    <2>3. QED  BY <1>3, <2>1, <2>2 DEF TokenFate
  <1>5. ASSUME bent = {}  PROVE first = Token
    <2>1. Stream = Token  BY <1>5 DEF TokenFate
    <2>2. \A i \in 1 .. L : first[i] = Token[i]  BY <1>2, <1>3, <2>1
    <2>3. QED  BY <1>1, <1>2, <2>2, SeqEqual
  <1>6. QED  BY <1>4, <1>5 DEF TokenFate, first

-----------------------------------------------------------------------------
(* The verdict.                                                            *)

\* The exit codes a script's last lines can choose.
LEMMA CodeRange == Code \in {0, 1, 2, 3, 4}
  BY DEF Code, PictureCode

\* When a script comes to its verdict, what the logs say has a cause.
LEMMA VerdictCause ==
  ASSUME HarnessInv, sh = "verdict", Code # 0
  PROVE  trouble \cap Causes(Code) # {}
  <1>1. kind \in {"plain", "balloon", "net", "console", "vsock", "gpu", "venus"}
    BY ScriptAssumption DEF HarnessInv, TypeOK, HostTypes
  <1>2. CASE kind = "venus"
    <2>1. \/ Code = 2 /\ "FAIL" \in serial
          \/ Code = 3 /\ "PASS" \notin serial /\ "FAIL" \notin serial
      BY <1>2 DEF Code
    <2>2. CASE Code = 2 /\ "FAIL" \in serial
      <3>1. "driver" \in trouble  BY <1>2, <2>2 DEF HarnessInv, EndHasCause
      <3>2. QED  BY <1>2, <2>2, <3>1 DEF Causes
    <2>3. CASE Code = 3 /\ "PASS" \notin serial /\ "FAIL" \notin serial
      <3>1. trouble \cap {"died", "late", "nopeer"} # {}
        BY <1>2, <2>3 DEF HarnessInv, EndHasCause, ProcessLife
      <3>2. QED  BY <1>2, <2>3, <3>1 DEF Causes
    <2>4. QED  BY <2>1, <2>2, <2>3
  <1>3. CASE kind = "gpu"
    <2>1. \/ Code = 2 /\ ppm \in {"none", "ordered"}
          \/ Code = 1 /\ ppm = "header"
          \/ Code = 3 /\ ppm \in {"blank", "sparse"}
      BY <1>3 DEF Code, PictureCode, HarnessInv, TypeOK, DataTypes
    <2>2. ppm \notin {"none", frame} => trouble \cap {"died", "undumped"} # {}
      BY DEF HarnessInv, Picture, ProcessLife
    <2>3. frame \in {"blank", "sparse", "colourful"}  BY DEF HarnessInv, Picture
    <2>4. CASE Code = 2 /\ ppm \in {"none", "ordered"}
      <3>1. trouble \cap {"driver", "died", "late", "undumped"} # {}
        BY <1>3, <2>2, <2>3, <2>4 DEF HarnessInv, Picture
      <3>2. QED  BY <1>3, <2>4, <3>1 DEF Causes
    <2>5. CASE Code = 1 /\ ppm = "header"  BY <1>3, <2>2, <2>3, <2>5 DEF Causes
    <2>6. CASE Code = 3 /\ ppm \in {"blank", "sparse"}
      <3>1. ppm = frame => "device" \in trouble  BY <2>6 DEF HarnessInv, Picture
      <3>2. trouble \cap {"died", "undumped", "device"} # {}  BY <2>2, <2>6, <3>1
      <3>3. QED  BY <1>3, <2>6, <3>2 DEF Causes
    <2>7. QED  BY <2>1, <2>4, <2>5, <2>6
  <1>4. CASE kind \notin {"venus", "gpu"}
    <2>1. \/ Code = 3 /\ "FAIL" \in serial
          \/ Code = 2 /\ "PASS" \notin serial /\ "FAIL" \notin serial
          \/ Code = 4 /\ kind = "net" /\ "PASS" \in serial /\ ~observed
      BY <1>4 DEF Code
    <2>2. CASE Code = 3 /\ "FAIL" \in serial
      <3>1. trouble \cap {"driver", "device", "silence"} # {}  BY <1>4, <2>2 DEF HarnessInv, EndHasCause
      <3>2. QED  BY <1>4, <2>2, <3>1 DEF Causes
    <2>3. CASE Code = 2 /\ "PASS" \notin serial /\ "FAIL" \notin serial
      <3>1. trouble \cap {"died", "late"} # {}
        BY <1>4, <2>3 DEF HarnessInv, EndHasCause, GoodLine
      <3>2. QED  BY <1>4, <2>3, <3>1 DEF Causes
    <2>4. CASE Code = 4 /\ kind = "net" /\ "PASS" \in serial /\ ~observed
      <3>1. trouble \cap {"device", "lost", "unread"} # {}  BY <2>4 DEF HarnessInv, FrameFate, ProcessLife
      <3>2. QED  BY <2>4, <3>1 DEF Causes
    <2>5. QED  BY <2>1, <2>2, <2>3, <2>4
  <1>5. QED  BY <1>2, <1>3, <1>4

-----------------------------------------------------------------------------
(* The steps.                                                              *)

\* Start keeps the invariant: the early exit of run-vsock.sh leaves no process.
LEMMA StartKeeps ==
  ASSUME HarnessInv, Start, UNCHANGED <<g, guestVars>>
  PROVE  HarnessInv'
  <1> USE ScriptAssumption DEF Start, Finish, HasPeer, logVars, guestVars
  <1>1. HostTypes'  BY DEF HarnessInv, TypeOK, HostTypes
  <1>2. DataTypes'  BY DEF HarnessInv, TypeOK, DataTypes, consoleVars
  <1>3. observed' \in BOOLEAN  BY Zenon DEF HarnessInv, TypeOK
  <1>4. OneVerdict'  BY DEF HarnessInv, OneVerdict
  <1>5. NoStrays'  BY DEF HarnessInv, NoStrays, ProcessLife
  <1>6. ScriptPlace'  BY DEF HarnessInv, ScriptPlace, Running
  <1>7. ProcessLife'  BY DEF HarnessInv, ProcessLife
  <1>8. GuestLines'  BY DEF HarnessInv, GuestLines
  <1>9. EndHasCause'  BY DEF HarnessInv, EndHasCause
  <1>10. Picture'  BY DEF HarnessInv, Picture
  <1>11. FrameFate'  BY DEF HarnessInv, FrameFate, ProcessLife
  <1>12. TokenFate'  BY TokenKept DEF HarnessInv
  <1>13. PacketFate'  BY DEF HarnessInv, PacketFate
  <1>14. ExitFate'  BY DEF HarnessInv, ExitFate, ProcessLife
  <1>15. QED
    BY <1>1, <1>2, <1>3, <1>4, <1>5, <1>6, <1>7, <1>8, <1>9, <1>10, <1>11, <1>12, <1>13, <1>14
    DEF HarnessInv, TypeOK

\* AwaitSocket keeps it: the script gives up only when it has sent its peer a signal.
LEMMA AwaitKeeps ==
  ASSUME HarnessInv, AwaitSocket, UNCHANGED <<g, guestVars>>
  PROVE  HarnessInv'
  <1> USE ScriptAssumption DEF AwaitSocket, Finish, HasPeer, logVars, guestVars
  <1>1. HostTypes'
    <2>1. term' \subseteq {"qemu", "peer"}  BY DEF HarnessInv, TypeOK, HostTypes
    <2>2. QED  BY <2>1 DEF HarnessInv, TypeOK, HostTypes, ScriptPlace, Running
  <1>2. DataTypes'  BY DEF HarnessInv, TypeOK, DataTypes, consoleVars
  <1>3. observed' \in BOOLEAN  BY Zenon DEF HarnessInv, TypeOK
  <1>4. OneVerdict'  BY DEF HarnessInv, OneVerdict
  <1>5. NoStrays'  BY DEF HarnessInv, NoStrays, ProcessLife
  <1>6. ScriptPlace'  BY DEF HarnessInv, ScriptPlace, Running, TypeOK, HostTypes
  <1>7. ProcessLife'  BY DEF HarnessInv, ProcessLife, ScriptPlace
  <1>8. GuestLines'  BY DEF HarnessInv, GuestLines
  <1>9. EndHasCause'  BY DEF HarnessInv, EndHasCause
  <1>10. Picture'  BY DEF HarnessInv, Picture
  <1>11. FrameFate'  BY DEF HarnessInv, FrameFate
  <1>12. TokenFate'  BY TokenKept DEF HarnessInv
  <1>13. PacketFate'  BY DEF HarnessInv, PacketFate
  <1>14. ExitFate'  BY DEF HarnessInv, ExitFate, ProcessLife, ScriptPlace
  <1>15. QED
    BY <1>1, <1>2, <1>3, <1>4, <1>5, <1>6, <1>7, <1>8, <1>9, <1>10, <1>11, <1>12, <1>13, <1>14
    DEF HarnessInv, TypeOK

\* Boot keeps it.
LEMMA BootKeeps ==
  ASSUME HarnessInv, Boot, UNCHANGED <<g, guestVars>>
  PROVE  HarnessInv'
  <1> USE ScriptAssumption DEF Boot, HasPeer, logVars, guestVars
  <1>1. HostTypes'  BY DEF HarnessInv, TypeOK, HostTypes
  <1>2. DataTypes'  BY DEF HarnessInv, TypeOK, DataTypes, consoleVars
  <1>3. observed' \in BOOLEAN  BY Zenon DEF HarnessInv, TypeOK
  <1>4. OneVerdict'  BY DEF HarnessInv, OneVerdict
  <1>5. NoStrays'  BY DEF HarnessInv, NoStrays
  <1>6. ScriptPlace'  BY DEF HarnessInv, ScriptPlace
  <1>7. ProcessLife'  BY DEF HarnessInv, ProcessLife
  <1>8. GuestLines'  BY DEF HarnessInv, GuestLines
  <1>9. EndHasCause'  BY DEF HarnessInv, EndHasCause
  <1>10. Picture'  BY DEF HarnessInv, Picture
  <1>11. FrameFate'  BY DEF HarnessInv, FrameFate
  <1>12. TokenFate'  BY TokenKept DEF HarnessInv
  <1>13. PacketFate'  BY DEF HarnessInv, PacketFate
  <1>14. ExitFate'  BY DEF HarnessInv, ExitFate
  <1>15. QED
    BY <1>1, <1>2, <1>3, <1>4, <1>5, <1>6, <1>7, <1>8, <1>9, <1>10, <1>11, <1>12, <1>13, <1>14
    DEF HarnessInv, TypeOK

\* The three questions of the poll loop keep it.
LEMMA PollKeeps ==
  ASSUME HarnessInv, PollPass \/ PollFail \/ PollAlive, UNCHANGED <<g, guestVars>>
  PROVE  HarnessInv'
  <1> USE ScriptAssumption DEF PollPass, PollFail, PollAlive, Goto, LoopEnd, HasPeer, procVars, logVars, guestVars
  <1>1. HostTypes'  BY DEF HarnessInv, TypeOK, HostTypes
  <1>2. DataTypes'  BY DEF HarnessInv, TypeOK, DataTypes, consoleVars
  <1>3. observed' \in BOOLEAN  BY Zenon DEF HarnessInv, TypeOK
  <1>4. OneVerdict'  BY DEF HarnessInv, OneVerdict
  <1>5. NoStrays'  BY DEF HarnessInv, NoStrays
  <1>6. ScriptPlace'  BY DEF HarnessInv, ScriptPlace
  <1>7. ProcessLife'  BY DEF HarnessInv, ProcessLife
  <1>8. GuestLines'  BY DEF HarnessInv, GuestLines
  <1>9. EndHasCause'  BY DEF HarnessInv, EndHasCause, ScriptPlace, ProcessLife, GoodLine
  <1>10. Picture'  BY DEF HarnessInv, Picture
  <1>11. FrameFate'  BY DEF HarnessInv, FrameFate
  <1>12. TokenFate'  BY TokenKept DEF HarnessInv
  <1>13. PacketFate'  BY DEF HarnessInv, PacketFate
  <1>14. ExitFate'  BY DEF HarnessInv, ExitFate
  <1>15. QED
    BY <1>1, <1>2, <1>3, <1>4, <1>5, <1>6, <1>7, <1>8, <1>9, <1>10, <1>11, <1>12, <1>13, <1>14
    DEF HarnessInv, TypeOK

\* The watch loop of run-venus.sh and the waits for QEMU and the peer keep it.
LEMMA WatchKeeps ==
  ASSUME HarnessInv, Watch \/ WaitQemu \/ WaitPeer, UNCHANGED <<g, guestVars>>
  PROVE  HarnessInv'
  <1> USE ScriptAssumption DEF Watch, WaitQemu, WaitPeer, Goto, HasPeer, procVars, logVars, guestVars
  <1>1. HostTypes'
    <2>1. term' \subseteq {"qemu", "peer"}  BY DEF HarnessInv, TypeOK, HostTypes
    <2>2. QED  BY <2>1 DEF HarnessInv, TypeOK, HostTypes, ScriptPlace
  <1>2. DataTypes'  BY DEF HarnessInv, TypeOK, DataTypes, consoleVars
  <1>3. observed' \in BOOLEAN  BY Zenon DEF HarnessInv, TypeOK
  <1>4. OneVerdict'  BY DEF HarnessInv, OneVerdict
  <1>5. NoStrays'  BY DEF HarnessInv, NoStrays
  <1>6. ScriptPlace'  BY DEF HarnessInv, ScriptPlace
  <1>7. ProcessLife'  BY DEF HarnessInv, ProcessLife, ScriptPlace
  <1>8. GuestLines'  BY DEF HarnessInv, GuestLines
  <1>9. EndHasCause'  BY DEF HarnessInv, EndHasCause, ScriptPlace, ProcessLife, GoodLine
  <1>10. Picture'  BY DEF HarnessInv, Picture, ScriptPlace
  <1>11. FrameFate'  BY DEF HarnessInv, FrameFate, ScriptPlace
  <1>12. TokenFate'  BY TokenKept DEF HarnessInv
  <1>13. PacketFate'  BY DEF HarnessInv, PacketFate
  <1>14. ExitFate'  BY DEF HarnessInv, ExitFate
  <1>15. QED
    BY <1>1, <1>2, <1>3, <1>4, <1>5, <1>6, <1>7, <1>8, <1>9, <1>10, <1>11, <1>12, <1>13, <1>14
    DEF HarnessInv, TypeOK

\* Screendump and the end of the monitor keep it: a picture is ordered of a
\* guest that said DONE.
LEMMA ScreendumpKeeps ==
  ASSUME HarnessInv, Screendump \/ MonitorGone, UNCHANGED <<g, guestVars>>
  PROVE  HarnessInv'
  <1> USE ScriptAssumption DEF Screendump, MonitorGone, Goto, HasPeer, procVars, logVars, guestVars
  <1>1. HostTypes'  BY DEF HarnessInv, TypeOK, HostTypes
  <1>2. DataTypes'  BY DEF HarnessInv, TypeOK, DataTypes, Picture, consoleVars
  <1>3. observed' \in BOOLEAN  BY Zenon DEF HarnessInv, TypeOK
  <1>4. OneVerdict'  BY DEF HarnessInv, OneVerdict
  <1>5. NoStrays'  BY DEF HarnessInv, NoStrays
  <1>6. ScriptPlace'  BY DEF HarnessInv, ScriptPlace
  <1>7. ProcessLife'  BY DEF HarnessInv, ProcessLife
  <1>8. GuestLines'  BY DEF HarnessInv, GuestLines
  <1>9. EndHasCause'  BY DEF HarnessInv, EndHasCause, GoodLine
  <1>10. Picture'
    BY DEF HarnessInv, Picture, EndHasCause, ScriptPlace, ProcessLife, GoodLine, TypeOK, HostTypes
  <1>11. FrameFate'  BY DEF HarnessInv, FrameFate
  <1>12. TokenFate'  BY TokenKept DEF HarnessInv
  <1>13. PacketFate'  BY DEF HarnessInv, PacketFate
  <1>14. ExitFate'  BY DEF HarnessInv, ExitFate
  <1>15. QED
    BY <1>1, <1>2, <1>3, <1>4, <1>5, <1>6, <1>7, <1>8, <1>9, <1>10, <1>11, <1>12, <1>13, <1>14
    DEF HarnessInv, TypeOK

\* An answer of QEMU's monitor keeps it.
LEMMA ReplyKeeps ==
  ASSUME HarnessInv, MonitorReplies, UNCHANGED <<g, guestVars>>
  PROVE  HarnessInv'
  <1> USE ScriptAssumption DEF MonitorReplies, HasPeer, procVars, logVars, guestVars
  <1>1. HostTypes'  BY DEF HarnessInv, TypeOK, HostTypes
  <1>2. DataTypes'  BY DEF HarnessInv, TypeOK, DataTypes, consoleVars
  <1>3. observed' \in BOOLEAN  BY Zenon DEF HarnessInv, TypeOK
  <1>4. OneVerdict'  BY DEF HarnessInv, OneVerdict
  <1>5. NoStrays'  BY DEF HarnessInv, NoStrays
  <1>6. ScriptPlace'  BY DEF HarnessInv, ScriptPlace
  <1>7. ProcessLife'  BY DEF HarnessInv, ProcessLife, ScriptPlace
  <1>8. GuestLines'  BY DEF HarnessInv, GuestLines
  <1>9. EndHasCause'  BY DEF HarnessInv, EndHasCause, ProcessLife, ScriptPlace, GoodLine
  <1>10. Picture'  BY DEF HarnessInv, Picture, ScriptPlace
  <1>11. FrameFate'  BY DEF HarnessInv, FrameFate
  <1>12. TokenFate'  BY TokenKept DEF HarnessInv
  <1>13. PacketFate'  BY DEF HarnessInv, PacketFate
  <1>14. ExitFate'  BY DEF HarnessInv, ExitFate
  <1>15. QED
    BY <1>1, <1>2, <1>3, <1>4, <1>5, <1>6, <1>7, <1>8, <1>9, <1>10, <1>11, <1>12, <1>13, <1>14
    DEF HarnessInv, TypeOK

\* A dump that grows keeps it: it is on its way to the picture on the screen.
LEMMA DumpKeeps ==
  ASSUME HarnessInv, QemuDumps, UNCHANGED <<g, guestVars>>
  PROVE  HarnessInv'
  <1> USE ScriptAssumption DEF QemuDumps, Stages, HasPeer, scriptVars, procVars, logVars, guestVars
  <1>0. \/ ppm = "ordered" /\ ppm' = "header"
        \/ ppm = "header" /\ ppm' = "blank"
        \/ ppm = "blank" /\ ppm' = "colourful"
        \/ ppm = "colourful" /\ ppm' = "sparse"
    <2>1. /\ Stages["ordered"] = "header" /\ Stages["header"] = "blank"
          /\ Stages["blank"] = "colourful" /\ Stages["colourful"] = "sparse"
      OBVIOUS
    <2>2. ppm \in {"ordered", "header", "blank", "colourful"}
      BY DEF HarnessInv, TypeOK, DataTypes, Picture
    <2> HIDE DEF Stages
    <2>3. QED  BY <2>1, <2>2
  <1> HIDE DEF Stages
  <1>1. HostTypes'  BY DEF HarnessInv, TypeOK, HostTypes
  <1>2. DataTypes'  BY <1>0 DEF HarnessInv, TypeOK, DataTypes, consoleVars
  <1>3. observed' \in BOOLEAN  BY Zenon DEF HarnessInv, TypeOK
  <1>4. OneVerdict'  BY DEF HarnessInv, OneVerdict
  <1>5. NoStrays'  BY DEF HarnessInv, NoStrays
  <1>6. ScriptPlace'  BY DEF HarnessInv, ScriptPlace
  <1>7. ProcessLife'  BY DEF HarnessInv, ProcessLife, ScriptPlace
  <1>8. GuestLines'  BY DEF HarnessInv, GuestLines
  <1>9. EndHasCause'  BY DEF HarnessInv, EndHasCause, ProcessLife, ScriptPlace, GoodLine
  <1>10. Picture'  BY <1>0 DEF HarnessInv, Picture, ScriptPlace
  <1>11. FrameFate'  BY DEF HarnessInv, FrameFate
  <1>12. TokenFate'  BY TokenKept DEF HarnessInv
  <1>13. PacketFate'  BY DEF HarnessInv, PacketFate
  <1>14. ExitFate'  BY DEF HarnessInv, ExitFate
  <1>15. QED
    BY <1>1, <1>2, <1>3, <1>4, <1>5, <1>6, <1>7, <1>8, <1>9, <1>10, <1>11, <1>12, <1>13, <1>14
    DEF HarnessInv, TypeOK

\* A signal that takes effect keeps it.
LEMMA SignalKeeps ==
  ASSUME HarnessInv, Terminates, UNCHANGED <<g, guestVars>>
  PROVE  HarnessInv'
  <1> USE ScriptAssumption DEF Terminates, HasPeer, scriptVars, logVars, guestVars
  <1>1. HostTypes'  BY DEF HarnessInv, TypeOK, HostTypes
  <1>2. DataTypes'  BY DEF HarnessInv, TypeOK, DataTypes, consoleVars
  <1>3. observed' \in BOOLEAN  BY Zenon DEF HarnessInv, TypeOK
  <1>4. OneVerdict'  BY DEF HarnessInv, OneVerdict
  <1>5. NoStrays'  BY DEF HarnessInv, NoStrays
  <1>6. ScriptPlace'  BY DEF HarnessInv, ScriptPlace
  <1>7. ProcessLife'  BY DEF HarnessInv, ProcessLife, ScriptPlace
  <1>8. GuestLines'  BY DEF HarnessInv, GuestLines
  <1>9. EndHasCause'  BY DEF HarnessInv, EndHasCause, ProcessLife, ScriptPlace, GoodLine
  <1>10. Picture'  BY DEF HarnessInv, Picture, ScriptPlace
  <1>11. FrameFate'  BY DEF HarnessInv, FrameFate
  <1>12. TokenFate'  BY TokenKept DEF HarnessInv
  <1>13. PacketFate'  BY DEF HarnessInv, PacketFate
  <1>14. ExitFate'  BY DEF HarnessInv, ExitFate
  <1>15. QED
    BY <1>1, <1>2, <1>3, <1>4, <1>5, <1>6, <1>7, <1>8, <1>9, <1>10, <1>11, <1>12, <1>13, <1>14
    DEF HarnessInv, TypeOK

\* The kills at the end keep it.
LEMMA KillKeeps ==
  ASSUME HarnessInv, KillQemu \/ KillPeer, UNCHANGED <<g, guestVars>>
  PROVE  HarnessInv'
  <1> USE ScriptAssumption DEF KillQemu, KillPeer, Signal, HasPeer, logVars, guestVars
  <1>1. HostTypes'
    <2>1. term' \subseteq {"qemu", "peer"}  BY DEF HarnessInv, TypeOK, HostTypes
    <2>2. QED  BY <2>1 DEF HarnessInv, TypeOK, HostTypes
  <1>2. DataTypes'  BY DEF HarnessInv, TypeOK, DataTypes, consoleVars
  <1>3. observed' \in BOOLEAN  BY Zenon DEF HarnessInv, TypeOK
  <1>4. OneVerdict'  BY DEF HarnessInv, OneVerdict
  <1>5. NoStrays'  BY DEF HarnessInv, NoStrays
  <1>6. ScriptPlace'  BY DEF HarnessInv, ScriptPlace
  <1>7. ProcessLife'  BY DEF HarnessInv, ProcessLife, ScriptPlace
  <1>8. GuestLines'  BY DEF HarnessInv, GuestLines
  <1>9. EndHasCause'  BY DEF HarnessInv, EndHasCause, ScriptPlace, GoodLine
  <1>10. Picture'  BY DEF HarnessInv, Picture, ScriptPlace
  <1>11. FrameFate'  BY DEF HarnessInv, FrameFate
  <1>12. TokenFate'  BY TokenKept DEF HarnessInv
  <1>13. PacketFate'  BY DEF HarnessInv, PacketFate
  <1>14. ExitFate'  BY DEF HarnessInv, ExitFate
  <1>15. QED
    BY <1>1, <1>2, <1>3, <1>4, <1>5, <1>6, <1>7, <1>8, <1>9, <1>10, <1>11, <1>12, <1>13, <1>14
    DEF HarnessInv, TypeOK

\* Verdict keeps it: the exit code has its cause.
LEMMA VerdictKeeps ==
  ASSUME HarnessInv, Verdict, UNCHANGED <<g, guestVars>>
  PROVE  HarnessInv'
  <1> USE ScriptAssumption DEF Verdict, Finish, HasPeer, procVars, logVars, guestVars
  <1>1. HostTypes'  BY CodeRange DEF HarnessInv, TypeOK, HostTypes
  <1>2. DataTypes'  BY DEF HarnessInv, TypeOK, DataTypes, consoleVars
  <1>3. observed' \in BOOLEAN  BY Zenon DEF HarnessInv, TypeOK
  <1>4. OneVerdict'  BY DEF HarnessInv, OneVerdict
  <1>5. NoStrays'  BY DEF HarnessInv, NoStrays, ProcessLife
  <1>6. ScriptPlace'  BY CodeRange DEF HarnessInv, ScriptPlace, Running
  <1>7. ProcessLife'  BY DEF HarnessInv, ProcessLife
  <1>8. GuestLines'  BY DEF HarnessInv, GuestLines
  <1>9. EndHasCause'  BY DEF HarnessInv, EndHasCause
  <1>10. Picture'  BY DEF HarnessInv, Picture
  <1>11. FrameFate'  BY DEF HarnessInv, FrameFate
  <1>12. TokenFate'  BY TokenKept DEF HarnessInv
  <1>13. PacketFate'  BY DEF HarnessInv, PacketFate
  <1>14. ExitFate'
    <2>1. exit' = Code /\ qemu' = "dead" /\ peer' \in {"off", "gone"} /\ Code' = Code /\ Causes(exit)' = Causes(Code)
      BY DEF HarnessInv, ProcessLife, Code, PictureCode, Causes
    <2>2. Code # 0 => trouble' \cap Causes(Code) # {}  BY VerdictCause
    <2>3. QED  BY <2>1, <2>2 DEF ExitFate
  <1>15. QED
    BY <1>1, <1>2, <1>3, <1>4, <1>5, <1>6, <1>7, <1>8, <1>9, <1>10, <1>11, <1>12, <1>13, <1>14
    DEF HarnessInv, TypeOK

\* A peer that opens its socket keeps it.
LEMMA BindKeeps ==
  ASSUME HarnessInv, PeerBinds \/ PeerListens, UNCHANGED <<g, guestVars>>
  PROVE  HarnessInv'
  <1> USE DEF PeerBinds, PeerListens, HasPeer, scriptVars, logVars, guestVars
  <1>1. HostTypes'  BY DEF HarnessInv, TypeOK, HostTypes
  <1>2. DataTypes'  BY DEF HarnessInv, TypeOK, DataTypes, consoleVars
  <1>3. observed' \in BOOLEAN  BY Zenon DEF HarnessInv, TypeOK
  <1>4. OneVerdict'  BY DEF HarnessInv, OneVerdict
  <1>5. NoStrays'  BY DEF HarnessInv, NoStrays
  <1>6. ScriptPlace'  BY DEF HarnessInv, ScriptPlace
  <1>7. ProcessLife'  BY DEF HarnessInv, ProcessLife
  <1>8. GuestLines'  BY DEF HarnessInv, GuestLines
  <1>9. EndHasCause'  BY DEF HarnessInv, EndHasCause, GoodLine
  <1>10. Picture'  BY DEF HarnessInv, Picture
  <1>11. FrameFate'  BY DEF HarnessInv, FrameFate
  <1>12. TokenFate'  BY TokenKept DEF HarnessInv
  <1>13. PacketFate'  BY DEF HarnessInv, PacketFate
  <1>14. ExitFate'  BY DEF HarnessInv, ExitFate
  <1>15. QED
    BY <1>1, <1>2, <1>3, <1>4, <1>5, <1>6, <1>7, <1>8, <1>9, <1>10, <1>11, <1>12, <1>13, <1>14
    DEF HarnessInv, TypeOK

\* The net peer that looks at a frame keeps it.
LEMMA NetRecvKeeps ==
  ASSUME HarnessInv, NetPeerRecv
  PROVE  HarnessInv'
  <1> USE DEF NetPeerRecv, HasPeer, scriptVars, procVars, guestVars
  <1>1. HostTypes'  BY DEF HarnessInv, TypeOK, HostTypes
  <1>2. DataTypes'  BY DEF HarnessInv, TypeOK, DataTypes, consoleVars
  <1>3. observed' \in BOOLEAN
    <2>1. CASE inbox \in {"intact", "outside"}  BY <2>1
    <2>2. CASE inbox \notin {"intact", "outside"}  BY <2>2
    <2>3. QED  BY <2>1, <2>2
  <1>4. OneVerdict'  BY DEF HarnessInv, OneVerdict
  <1>5. NoStrays'  BY DEF HarnessInv, NoStrays
  <1>6. ScriptPlace'  BY DEF HarnessInv, ScriptPlace
  <1>7. ProcessLife'  BY DEF HarnessInv, ProcessLife
  <1>8. GuestLines'  BY DEF HarnessInv, GuestLines
  <1>9. EndHasCause'  BY DEF HarnessInv, EndHasCause, GoodLine
  <1>10. Picture'  BY DEF HarnessInv, Picture
  <1>11. FrameFate'
    <2>1. CASE inbox \in {"intact", "outside"}
      <3>1. observed' /\ inbox' = "none"  BY <2>1
      <3>2. QED  BY <2>1, <3>1 DEF HarnessInv, FrameFate
    <2>2. CASE inbox \notin {"intact", "outside"}
      <3>1. ~observed' /\ ~observed /\ inbox' = "none"  BY <2>2
      <3>2. QED  BY <2>2, <3>1 DEF HarnessInv, FrameFate
    <2>3. QED  BY <2>1, <2>2
  <1>12. TokenFate'  BY TokenKept DEF HarnessInv
  <1>13. PacketFate'  BY DEF HarnessInv, PacketFate
  <1>14. ExitFate'  BY DEF HarnessInv, ExitFate
  <1>15. QED
    BY <1>1, <1>2, <1>3, <1>4, <1>5, <1>6, <1>7, <1>8, <1>9, <1>10, <1>11, <1>12, <1>13, <1>14
    DEF HarnessInv, TypeOK

\* A peer that ends keeps it.
LEMMA PeerEndKeeps ==
  ASSUME HarnessInv, NetPeerReply \/ NetPeerExpires \/ EchoPeerEnds
  PROVE  HarnessInv'
  <1> USE DEF NetPeerReply, NetPeerExpires, EchoPeerEnds, Blame, HasPeer, scriptVars, logVars, guestVars
  <1>1. HostTypes'  BY DEF HarnessInv, TypeOK, HostTypes
  <1>2. DataTypes'  BY DEF HarnessInv, TypeOK, DataTypes, consoleVars
  <1>3. observed' \in BOOLEAN  BY Zenon DEF HarnessInv, TypeOK
  <1>4. OneVerdict'  BY DEF HarnessInv, OneVerdict
  <1>5. NoStrays'  BY DEF HarnessInv, NoStrays
  <1>6. ScriptPlace'  BY DEF HarnessInv, ScriptPlace
  <1>7. ProcessLife'  BY DEF HarnessInv, ProcessLife
  <1>8. GuestLines'  BY DEF HarnessInv, GuestLines
  <1>9. EndHasCause'  BY DEF HarnessInv, EndHasCause, GoodLine
  <1>10. Picture'  BY DEF HarnessInv, Picture
  <1>11. FrameFate'  BY DEF HarnessInv, FrameFate
  <1>12. TokenFate'  BY TokenKept DEF HarnessInv
  <1>13. PacketFate'  BY DEF HarnessInv, PacketFate
  <1>14. ExitFate'  BY DEF HarnessInv, ExitFate
  <1>15. QED
    BY <1>1, <1>2, <1>3, <1>4, <1>5, <1>6, <1>7, <1>8, <1>9, <1>10, <1>11, <1>12, <1>13, <1>14
    DEF HarnessInv, TypeOK

\* The echo peer keeps it.
LEMMA EchoKeeps ==
  ASSUME HarnessInv, EchoPeer
  PROVE  HarnessInv'
  <1> USE DEF EchoPeer, HasPeer, hostVars, scriptVars, procVars, logVars
  <1>1. HostTypes'  BY DEF HarnessInv, TypeOK, HostTypes
  <1>2. DataTypes'  BY DEF HarnessInv, TypeOK, DataTypes
  <1>3. observed' \in BOOLEAN  BY Zenon DEF HarnessInv, TypeOK
  <1>4. OneVerdict'  BY DEF HarnessInv, OneVerdict
  <1>5. NoStrays'  BY DEF HarnessInv, NoStrays
  <1>6. ScriptPlace'  BY DEF HarnessInv, ScriptPlace
  <1>7. ProcessLife'  BY DEF HarnessInv, ProcessLife
  <1>8. GuestLines'  BY DEF HarnessInv, GuestLines
  <1>9. EndHasCause'  BY DEF HarnessInv, EndHasCause, GoodLine
  <1>10. Picture'  BY DEF HarnessInv, Picture
  <1>11. FrameFate'  BY DEF HarnessInv, FrameFate
  <1>12. TokenFate'  BY EchoToken DEF HarnessInv
  <1>13. PacketFate'  BY DEF HarnessInv, PacketFate
  <1>14. ExitFate'  BY DEF HarnessInv, ExitFate
  <1>15. QED
    BY <1>1, <1>2, <1>3, <1>4, <1>5, <1>6, <1>7, <1>8, <1>9, <1>10, <1>11, <1>12, <1>13, <1>14
    DEF HarnessInv, TypeOK

\* A QEMU that dies or powers off keeps it.
LEMMA DeathKeeps ==
  ASSUME HarnessInv, (QemuDies /\ UNCHANGED <<g, guestVars>>) \/ PowerOff
  PROVE  HarnessInv'
  <1> USE DEF QemuDies, PowerOff, GuestRuns, HasPeer, scriptVars, logVars, guestVars
  <1>1. HostTypes'  BY DEF HarnessInv, TypeOK, HostTypes
  <1>2. DataTypes'  BY DEF HarnessInv, TypeOK, DataTypes, consoleVars
  <1>3. observed' \in BOOLEAN  BY Zenon DEF HarnessInv, TypeOK
  <1>4. OneVerdict'  BY DEF HarnessInv, OneVerdict
  <1>5. NoStrays'  BY DEF HarnessInv, NoStrays
  <1>6. ScriptPlace'  BY DEF HarnessInv, ScriptPlace
  <1>7. ProcessLife'  BY DEF HarnessInv, ProcessLife
  <1>8. GuestLines'  BY DEF HarnessInv, GuestLines
  <1>9. EndHasCause'  BY DEF HarnessInv, EndHasCause, ScriptPlace
  <1>10. Picture'  BY DEF HarnessInv, Picture
  <1>11. FrameFate'  BY DEF HarnessInv, FrameFate
  <1>12. TokenFate'  BY TokenKept DEF HarnessInv
  <1>13. PacketFate'  BY DEF HarnessInv, PacketFate
  <1>14. ExitFate'  BY DEF HarnessInv, ExitFate
  <1>15. QED
    BY <1>1, <1>2, <1>3, <1>4, <1>5, <1>6, <1>7, <1>8, <1>9, <1>10, <1>11, <1>12, <1>13, <1>14
    DEF HarnessInv, TypeOK

\* GuestOpen keeps it.
LEMMA OpenKeeps ==
  ASSUME HarnessInv, GuestOpen
  PROVE  HarnessInv'
  <1> USE DEF GuestOpen, Report, Blame, Quiet, GuestRuns, HasPeer, scriptVars, procVars, logVars, guestVars
  <1>1. HostTypes'  BY DEF HarnessInv, TypeOK, HostTypes
  <1>2. DataTypes'  BY DEF HarnessInv, TypeOK, DataTypes, consoleVars
  <1>3. observed' \in BOOLEAN  BY Zenon DEF HarnessInv, TypeOK
  <1>4. OneVerdict'  BY DEF HarnessInv, OneVerdict, GuestLines
  <1>5. NoStrays'  BY DEF HarnessInv, NoStrays
  <1>6. ScriptPlace'  BY DEF HarnessInv, ScriptPlace
  <1>7. ProcessLife'  BY DEF HarnessInv, ProcessLife
  <1>8. GuestLines'  BY DEF HarnessInv, GuestLines
  <1>9. EndHasCause'  BY DEF HarnessInv, EndHasCause, GoodLine
  <1>10. Picture'  BY DEF HarnessInv, Picture
  <1>11. FrameFate'  BY DEF HarnessInv, FrameFate
  <1>12. TokenFate'  BY TokenKept DEF HarnessInv
  <1>13. PacketFate'  BY DEF HarnessInv, PacketFate
  <1>14. ExitFate'  BY DEF HarnessInv, ExitFate
  <1>15. QED
    BY <1>1, <1>2, <1>3, <1>4, <1>5, <1>6, <1>7, <1>8, <1>9, <1>10, <1>11, <1>12, <1>13, <1>14
    DEF HarnessInv, TypeOK

\* PlainVerdict keeps it.
LEMMA PlainKeeps ==
  ASSUME HarnessInv, PlainVerdict
  PROVE  HarnessInv'
  <1> USE DEF PlainVerdict, Report, Blame, Quiet, GuestRuns, HasPeer, scriptVars, procVars, logVars, guestVars
  <1>1. HostTypes'  BY DEF HarnessInv, TypeOK, HostTypes
  <1>2. DataTypes'  BY DEF HarnessInv, TypeOK, DataTypes, consoleVars
  <1>3. observed' \in BOOLEAN  BY Zenon DEF HarnessInv, TypeOK
  <1>4. OneVerdict'  BY DEF HarnessInv, OneVerdict, GuestLines
  <1>5. NoStrays'  BY DEF HarnessInv, NoStrays
  <1>6. ScriptPlace'  BY DEF HarnessInv, ScriptPlace
  <1>7. ProcessLife'  BY DEF HarnessInv, ProcessLife
  <1>8. GuestLines'  BY DEF HarnessInv, GuestLines
  <1>9. EndHasCause'  BY DEF HarnessInv, EndHasCause, GoodLine
  <1>10. Picture'  BY DEF HarnessInv, Picture
  <1>11. FrameFate'  BY DEF HarnessInv, FrameFate
  <1>12. TokenFate'  BY TokenKept DEF HarnessInv
  <1>13. PacketFate'  BY DEF HarnessInv, PacketFate
  <1>14. ExitFate'  BY DEF HarnessInv, ExitFate
  <1>15. QED
    BY <1>1, <1>2, <1>3, <1>4, <1>5, <1>6, <1>7, <1>8, <1>9, <1>10, <1>11, <1>12, <1>13, <1>14
    DEF HarnessInv, TypeOK

\* GpuRender keeps it.
LEMMA GpuKeeps ==
  ASSUME HarnessInv, GpuRender
  PROVE  HarnessInv'
  <1> USE DEF GpuRender, Report, Blame, Quiet, GuestRuns, HasPeer, scriptVars, procVars, logVars, guestVars
  <1>1. HostTypes'  BY DEF HarnessInv, TypeOK, HostTypes
  <1>2. DataTypes'  BY DEF HarnessInv, TypeOK, DataTypes, consoleVars
  <1>3. observed' \in BOOLEAN  BY Zenon DEF HarnessInv, TypeOK
  <1>4. OneVerdict'  BY DEF HarnessInv, OneVerdict, GuestLines
  <1>5. NoStrays'  BY DEF HarnessInv, NoStrays
  <1>6. ScriptPlace'  BY DEF HarnessInv, ScriptPlace
  <1>7. ProcessLife'  BY DEF HarnessInv, ProcessLife
  <1>8. GuestLines'  BY DEF HarnessInv, GuestLines
  <1>9. EndHasCause'  BY DEF HarnessInv, EndHasCause, GoodLine
  <1>10. Picture'  BY DEF HarnessInv, Picture, GuestLines
  <1>11. FrameFate'  BY DEF HarnessInv, FrameFate
  <1>12. TokenFate'  BY TokenKept DEF HarnessInv
  <1>13. PacketFate'  BY DEF HarnessInv, PacketFate
  <1>14. ExitFate'  BY DEF HarnessInv, ExitFate
  <1>15. QED
    BY <1>1, <1>2, <1>3, <1>4, <1>5, <1>6, <1>7, <1>8, <1>9, <1>10, <1>11, <1>12, <1>13, <1>14
    DEF HarnessInv, TypeOK

\* The two ends of the Venus guest keep it.
LEMMA VenusKeeps ==
  ASSUME HarnessInv, VenusReport \/ VenusEnd
  PROVE  HarnessInv'
  <1> USE DEF VenusReport, VenusEnd, Report, Blame, Quiet, GuestRuns, HasPeer, scriptVars, procVars, logVars, guestVars
  <1>1. HostTypes'  BY DEF HarnessInv, TypeOK, HostTypes
  <1>2. DataTypes'  BY DEF HarnessInv, TypeOK, DataTypes, consoleVars
  <1>3. observed' \in BOOLEAN  BY Zenon DEF HarnessInv, TypeOK
  <1>4. OneVerdict'  BY DEF HarnessInv, OneVerdict, GuestLines
  <1>5. NoStrays'  BY DEF HarnessInv, NoStrays
  <1>6. ScriptPlace'  BY DEF HarnessInv, ScriptPlace
  <1>7. ProcessLife'  BY DEF HarnessInv, ProcessLife
  <1>8. GuestLines'  BY DEF HarnessInv, GuestLines
  <1>9. EndHasCause'  BY DEF HarnessInv, EndHasCause
  <1>10. Picture'  BY DEF HarnessInv, Picture
  <1>11. FrameFate'  BY DEF HarnessInv, FrameFate
  <1>12. TokenFate'  BY TokenKept DEF HarnessInv
  <1>13. PacketFate'  BY DEF HarnessInv, PacketFate
  <1>14. ExitFate'  BY DEF HarnessInv, ExitFate
  <1>15. QED
    BY <1>1, <1>2, <1>3, <1>4, <1>5, <1>6, <1>7, <1>8, <1>9, <1>10, <1>11, <1>12, <1>13, <1>14
    DEF HarnessInv, TypeOK

\* NetTransmit keeps it.
LEMMA TransmitKeeps ==
  ASSUME HarnessInv, NetTransmit
  PROVE  HarnessInv'
  <1> USE DEF NetTransmit, consoleVars, Report, Blame, Quiet, GuestRuns, HasPeer, scriptVars, procVars, logVars, guestVars
  <1>1. HostTypes'  BY DEF HarnessInv, TypeOK, HostTypes
  <1>2. DataTypes'  BY DEF HarnessInv, TypeOK, DataTypes
  <1>3. observed' \in BOOLEAN  BY Zenon DEF HarnessInv, TypeOK
  <1>4. OneVerdict'  BY DEF HarnessInv, OneVerdict, GuestLines
  <1>5. NoStrays'  BY DEF HarnessInv, NoStrays
  <1>6. ScriptPlace'  BY DEF HarnessInv, ScriptPlace
  <1>7. ProcessLife'  BY DEF HarnessInv, ProcessLife
  <1>8. GuestLines'  BY DEF HarnessInv, GuestLines
  <1>9. EndHasCause'  BY DEF HarnessInv, EndHasCause, GoodLine
  <1>10. Picture'  BY DEF HarnessInv, Picture
  <1>11. FrameFate'  BY DEF HarnessInv, FrameFate, ProcessLife
  <1>12. TokenFate'  BY TokenKept DEF HarnessInv
  <1>13. PacketFate'  BY DEF HarnessInv, PacketFate
  <1>14. ExitFate'  BY DEF HarnessInv, ExitFate
  <1>15. QED
    BY <1>1, <1>2, <1>3, <1>4, <1>5, <1>6, <1>7, <1>8, <1>9, <1>10, <1>11, <1>12, <1>13, <1>14
    DEF HarnessInv, TypeOK

\* The guest's receives keep it.
LEMMA ReceiveKeeps ==
  ASSUME HarnessInv, NetReceive \/ VsockReceive
  PROVE  HarnessInv'
  <1> USE DEF NetReceive, VsockReceive, Report, Blame, Quiet, GuestRuns, HasPeer, scriptVars, procVars, logVars, guestVars
  <1>1. HostTypes'  BY DEF HarnessInv, TypeOK, HostTypes
  <1>2. DataTypes'  BY DEF HarnessInv, TypeOK, DataTypes, consoleVars
  <1>3. observed' \in BOOLEAN  BY Zenon DEF HarnessInv, TypeOK
  <1>4. OneVerdict'  BY DEF HarnessInv, OneVerdict, GuestLines
  <1>5. NoStrays'  BY DEF HarnessInv, NoStrays
  <1>6. ScriptPlace'  BY DEF HarnessInv, ScriptPlace
  <1>7. ProcessLife'  BY DEF HarnessInv, ProcessLife
  <1>8. GuestLines'  BY DEF HarnessInv, GuestLines
  <1>9. EndHasCause'  BY DEF HarnessInv, EndHasCause, ScriptPlace, ProcessLife, GuestLines, PacketFate, GoodLine
  <1>10. Picture'  BY DEF HarnessInv, Picture
  <1>11. FrameFate'  BY DEF HarnessInv, FrameFate
  <1>12. TokenFate'  BY TokenKept DEF HarnessInv
  <1>13. PacketFate'  BY DEF HarnessInv, PacketFate
  <1>14. ExitFate'  BY DEF HarnessInv, ExitFate
  <1>15. QED
    BY <1>1, <1>2, <1>3, <1>4, <1>5, <1>6, <1>7, <1>8, <1>9, <1>10, <1>11, <1>12, <1>13, <1>14
    DEF HarnessInv, TypeOK

\* VsockSend keeps it.
LEMMA SendKeeps ==
  ASSUME HarnessInv, VsockSend
  PROVE  HarnessInv'
  <1> USE DEF VsockSend, Report, Blame, Quiet, GuestRuns, HasPeer, scriptVars, procVars, logVars, guestVars
  <1>1. HostTypes'  BY DEF HarnessInv, TypeOK, HostTypes
  <1>2. DataTypes'  BY DEF HarnessInv, TypeOK, DataTypes, consoleVars
  <1>3. observed' \in BOOLEAN  BY Zenon DEF HarnessInv, TypeOK
  <1>4. OneVerdict'  BY DEF HarnessInv, OneVerdict, GuestLines
  <1>5. NoStrays'  BY DEF HarnessInv, NoStrays
  <1>6. ScriptPlace'  BY DEF HarnessInv, ScriptPlace
  <1>7. ProcessLife'  BY DEF HarnessInv, ProcessLife
  <1>8. GuestLines'  BY DEF HarnessInv, GuestLines
  <1>9. EndHasCause'  BY DEF HarnessInv, EndHasCause, GoodLine
  <1>10. Picture'  BY DEF HarnessInv, Picture
  <1>11. FrameFate'  BY DEF HarnessInv, FrameFate
  <1>12. TokenFate'  BY TokenKept DEF HarnessInv
  <1>13. PacketFate'  BY DEF HarnessInv, PacketFate
  <1>14. ExitFate'  BY DEF HarnessInv, ExitFate
  <1>15. QED
    BY <1>1, <1>2, <1>3, <1>4, <1>5, <1>6, <1>7, <1>8, <1>9, <1>10, <1>11, <1>12, <1>13, <1>14
    DEF HarnessInv, TypeOK

\* ConsoleWrite keeps it.
LEMMA WriteKeeps ==
  ASSUME HarnessInv, ConsoleWrite
  PROVE  HarnessInv'
  <1> USE DEF ConsoleWrite, Report, Blame, Quiet, GuestRuns, HasPeer, scriptVars, procVars, logVars, guestVars
  <1>1. HostTypes'  BY DEF HarnessInv, TypeOK, HostTypes
  <1>2. DataTypes'  BY DEF HarnessInv, TypeOK, DataTypes
  <1>3. observed' \in BOOLEAN  BY Zenon DEF HarnessInv, TypeOK
  <1>4. OneVerdict'  BY DEF HarnessInv, OneVerdict, GuestLines
  <1>5. NoStrays'  BY DEF HarnessInv, NoStrays
  <1>6. ScriptPlace'  BY DEF HarnessInv, ScriptPlace
  <1>7. ProcessLife'  BY DEF HarnessInv, ProcessLife
  <1>8. GuestLines'  BY DEF HarnessInv, GuestLines
  <1>9. EndHasCause'  BY DEF HarnessInv, EndHasCause, GoodLine
  <1>10. Picture'  BY DEF HarnessInv, Picture
  <1>11. FrameFate'  BY DEF HarnessInv, FrameFate
  <1>12. TokenFate'  BY WriteToken DEF HarnessInv
  <1>13. PacketFate'  BY DEF HarnessInv, PacketFate
  <1>14. ExitFate'  BY DEF HarnessInv, ExitFate
  <1>15. QED
    BY <1>1, <1>2, <1>3, <1>4, <1>5, <1>6, <1>7, <1>8, <1>9, <1>10, <1>11, <1>12, <1>13, <1>14
    DEF HarnessInv, TypeOK

\* ConsoleRead keeps it.
LEMMA ReadKeeps ==
  ASSUME HarnessInv, ConsoleRead
  PROVE  HarnessInv'
  <1> USE DEF ConsoleRead, Report, Blame, Quiet, GuestRuns, HasPeer, scriptVars, procVars, logVars, guestVars
  <1>1. HostTypes'  BY DEF HarnessInv, TypeOK, HostTypes
  <1>2. DataTypes'  BY ReadToken DEF HarnessInv, TypeOK
  <1>3. observed' \in BOOLEAN  BY Zenon DEF HarnessInv, TypeOK
  <1>4. OneVerdict'  BY DEF HarnessInv, OneVerdict, GuestLines
  <1>5. NoStrays'  BY DEF HarnessInv, NoStrays
  <1>6. ScriptPlace'  BY DEF HarnessInv, ScriptPlace
  <1>7. ProcessLife'  BY DEF HarnessInv, ProcessLife
  <1>8. GuestLines'  BY DEF HarnessInv, GuestLines
  <1>9. EndHasCause'  BY DEF HarnessInv, EndHasCause, GoodLine
  <1>10. Picture'  BY DEF HarnessInv, Picture
  <1>11. FrameFate'  BY DEF HarnessInv, FrameFate
  <1>12. TokenFate'  BY ReadToken DEF HarnessInv, TypeOK
  <1>13. PacketFate'  BY DEF HarnessInv, PacketFate
  <1>14. ExitFate'  BY DEF HarnessInv, ExitFate
  <1>15. QED
    BY <1>1, <1>2, <1>3, <1>4, <1>5, <1>6, <1>7, <1>8, <1>9, <1>10, <1>11, <1>12, <1>13, <1>14
    DEF HarnessInv, TypeOK

\* ConsoleCompare keeps it: PASS and FAIL are what happened to the token.
LEMMA CompareKeeps ==
  ASSUME HarnessInv, ConsoleCompare
  PROVE  HarnessInv'
  <1> USE DEF ConsoleCompare, Report, Blame, Quiet, GuestRuns, HasPeer, scriptVars, procVars, logVars, guestVars
  <1>1. HostTypes'  BY DEF HarnessInv, TypeOK, HostTypes
  <1>2. DataTypes'  BY DEF HarnessInv, TypeOK, DataTypes, consoleVars
  <1>3. observed' \in BOOLEAN  BY Zenon DEF HarnessInv, TypeOK
  <1>4. OneVerdict'  BY DEF HarnessInv, OneVerdict, GuestLines
  <1>5. NoStrays'  BY DEF HarnessInv, NoStrays
  <1>6. ScriptPlace'  BY DEF HarnessInv, ScriptPlace
  <1>7. ProcessLife'  BY DEF HarnessInv, ProcessLife
  <1>8. GuestLines'  BY DEF HarnessInv, GuestLines
  <1>9. EndHasCause'
    <2>1. "FAIL" \in serial' => "device" \in trouble
      BY CompareTells DEF HarnessInv, TypeOK, GuestLines
    <2>2. QED  BY <2>1 DEF HarnessInv, EndHasCause, ScriptPlace, ProcessLife, GuestLines, GoodLine
  <1>10. Picture'  BY DEF HarnessInv, Picture
  <1>11. FrameFate'  BY DEF HarnessInv, FrameFate
  <1>12. TokenFate'
    <2>1. "PASS" \in serial' => bent \notin {{"tx"}, {"rx"}}
      BY CompareTells DEF HarnessInv, TypeOK, GuestLines
    <2>2. QED  BY <2>1 DEF HarnessInv, TokenFate, Stream, consoleVars
  <1>13. PacketFate'  BY DEF HarnessInv, PacketFate
  <1>14. ExitFate'  BY DEF HarnessInv, ExitFate
  <1>15. QED
    BY <1>1, <1>2, <1>3, <1>4, <1>5, <1>6, <1>7, <1>8, <1>9, <1>10, <1>11, <1>12, <1>13, <1>14
    DEF HarnessInv, TypeOK

\* A step that changes nothing keeps it.
LEMMA StutterKeeps ==
  ASSUME HarnessInv, UNCHANGED vars
  PROVE  HarnessInv'
  <1> USE DEF vars, hostVars, scriptVars, procVars, logVars, guestVars, HasPeer
  <1>1. HostTypes'  BY DEF HarnessInv, TypeOK, HostTypes
  <1>2. DataTypes'  BY DEF HarnessInv, TypeOK, DataTypes, consoleVars
  <1>3. observed' \in BOOLEAN  BY Zenon DEF HarnessInv, TypeOK
  <1>4. OneVerdict'  BY DEF HarnessInv, OneVerdict
  <1>5. NoStrays'  BY DEF HarnessInv, NoStrays
  <1>6. ScriptPlace'  BY DEF HarnessInv, ScriptPlace
  <1>7. ProcessLife'  BY DEF HarnessInv, ProcessLife
  <1>8. GuestLines'  BY DEF HarnessInv, GuestLines
  <1>9. EndHasCause'  BY DEF HarnessInv, EndHasCause, GoodLine
  <1>10. Picture'  BY DEF HarnessInv, Picture
  <1>11. FrameFate'  BY DEF HarnessInv, FrameFate
  <1>12. TokenFate'  BY TokenKept DEF HarnessInv
  <1>13. PacketFate'  BY DEF HarnessInv, PacketFate
  <1>14. ExitFate'  BY DEF HarnessInv, ExitFate, Code, PictureCode, Causes
  <1>15. QED
    BY <1>1, <1>2, <1>3, <1>4, <1>5, <1>6, <1>7, <1>8, <1>9, <1>10, <1>11, <1>12, <1>13, <1>14
    DEF HarnessInv, TypeOK

\* The initial states satisfy the invariant.
LEMMA InitInv == Init => HarnessInv
  <1> SUFFICES ASSUME Init PROVE HarnessInv  OBVIOUS
  <1> USE DEF Init, ScriptInit
  <1>1. HostTypes  BY ScriptAssumption DEF HostTypes, Running
  <1>2. DataTypes
    <2>1. Len(<< >>) = 0 /\ Len(Token) \in Nat  BY TokenAssumption, LenProperties, EmptySeq
    <2>2. QED  BY <2>1 DEF DataTypes
  <1>3. observed \in BOOLEAN  OBVIOUS
  <1>4. OneVerdict /\ NoStrays  BY DEF OneVerdict, NoStrays
  <1>5. ScriptPlace  BY DEF ScriptPlace, HasPeer
  <1>6. ProcessLife  BY DEF ProcessLife
  <1>7. GuestLines  BY DEF GuestLines
  <1>8. EndHasCause  BY DEF EndHasCause
  <1>9. Picture  BY DEF Picture
  <1>10. FrameFate  BY DEF FrameFate
  <1>11. TokenFate
    <2>1. << >> \in Seq(Nat) /\ Len(<< >>) = 0 /\ Len(Token) \in Nat
      BY TokenAssumption, LenProperties, EmptySeq
    <2>2. 0 + 0 <= Len(Token) + 1  BY <2>1
    <2>3. QED  BY <2>1, <2>2 DEF TokenFate
  <1>12. PacketFate /\ ExitFate  BY DEF PacketFate, ExitFate
  <1>13. QED
    BY <1>1, <1>2, <1>3, <1>4, <1>5, <1>6, <1>7, <1>8, <1>9, <1>10, <1>11, <1>12
    DEF HarnessInv, TypeOK

\* Every step of script, guest, peers and QEMU keeps the invariant.
LEMMA NextKeeps == HarnessInv /\ [Next]_vars => HarnessInv'
  <1> SUFFICES ASSUME HarnessInv, [Next]_vars PROVE HarnessInv'  OBVIOUS
  <1>1. CASE ScriptStep
    <2>1. (Start \/ AwaitSocket \/ Boot \/ Screendump \/ MonitorGone \/ Verdict) /\ UNCHANGED <<g, guestVars>> => HarnessInv'
      BY StartKeeps, AwaitKeeps, BootKeeps, ScreendumpKeeps, VerdictKeeps
    <2>2. (PollPass \/ PollFail \/ PollAlive) /\ UNCHANGED <<g, guestVars>> => HarnessInv'  BY PollKeeps
    <2>3. (Watch \/ WaitQemu \/ WaitPeer) /\ UNCHANGED <<g, guestVars>> => HarnessInv'  BY WatchKeeps
    <2>4. (KillQemu \/ KillPeer) /\ UNCHANGED <<g, guestVars>> => HarnessInv'  BY KillKeeps
    <2>5. QED  BY <1>1, <2>1, <2>2, <2>3, <2>4, Zenon DEF ScriptStep, Script
  <1>2. CASE Guest
    <2>1. GuestOpen \/ PlainVerdict \/ GpuRender => HarnessInv'  BY OpenKeeps, PlainKeeps, GpuKeeps
    <2>2. VenusReport \/ VenusEnd => HarnessInv'  BY VenusKeeps
    <2>3. NetTransmit => HarnessInv'  BY TransmitKeeps
    <2>4. NetReceive \/ VsockReceive => HarnessInv'  BY ReceiveKeeps
    <2>5. VsockSend => HarnessInv'  BY SendKeeps
    <2>6. ConsoleWrite \/ ConsoleRead \/ ConsoleCompare => HarnessInv'
      BY WriteKeeps, ReadKeeps, CompareKeeps
    <2>7. QED  BY <1>2, <2>1, <2>2, <2>3, <2>4, <2>5, <2>6 DEF Guest
  <1>3. CASE Peers
    <2>1. (PeerBinds \/ PeerListens) /\ UNCHANGED <<g, guestVars>> => HarnessInv'  BY BindKeeps
    <2>2. NetPeerRecv => HarnessInv'  BY NetRecvKeeps
    <2>3. NetPeerReply \/ NetPeerExpires \/ EchoPeerEnds => HarnessInv'  BY PeerEndKeeps
    <2>4. EchoPeer => HarnessInv'  BY EchoKeeps
    <2>5. QED  BY <1>3, <2>1, <2>2, <2>3, <2>4, Zenon DEF Peers
  <1>4. CASE PowerOff  BY <1>4, DeathKeeps
  <1>5. CASE QemuDies /\ UNCHANGED <<g, guestVars>>  BY <1>5, DeathKeeps
  <1>9. CASE QemuDumps /\ UNCHANGED <<g, guestVars>>  BY <1>9, DumpKeeps
  <1>10. CASE Monitor  BY <1>10, ReplyKeeps DEF Monitor
  <1>11. CASE Signals  BY <1>11, SignalKeeps DEF Signals
  <1>6. CASE Finished  BY <1>6, StutterKeeps DEF Finished
  <1>7. CASE UNCHANGED vars  BY <1>7, StutterKeeps
  <1>8. QED  BY <1>1, <1>2, <1>3, <1>4, <1>5, <1>6, <1>7, <1>9, <1>10, <1>11 DEF Next

-----------------------------------------------------------------------------
(* The theorems.                                                           *)

\* The inductive invariant of the harness: the run scripts leave no process
\* behind, a guest prints one verdict at most, and script, processes, frame,
\* token, packet and picture are where their history put them.
THEOREM HarnessInvariant == Spec => []HarnessInv
  <1>1. Init => HarnessInv  BY InitInv
  <1>2. HarnessInv /\ [Next]_vars => HarnessInv'  BY NextKeeps
  <1>3. QED  BY <1>1, <1>2, PTL DEF Spec

\* What exit code 0 shows: the frame that run-net.sh found in the peer's log left
\* the device with its ethertype and payload, the token consolevalidate compared
\* was not damaged in one direction only, and the scanout run.sh took a picture
\* of, whole or cut short, had at least four colours.
THEOREM HarnessPassIsEarned == Spec => []PassIsEarned
  <1>1. ASSUME HarnessInv, exit = 0
        PROVE  /\ kind = "net" => emitted \in {"intact", "outside"}
               /\ kind = "console" => Cardinality(bent) # 1
               /\ kind = "gpu" => frame # "blank"
    <2>1. sh = "done"  BY <1>1 DEF HarnessInv, ScriptPlace, Running
    <2>2. Code = 0  BY <1>1, <2>1 DEF HarnessInv, ExitFate
    <2>3. ASSUME kind = "net"  PROVE emitted \in {"intact", "outside"}
      <3>1. observed  BY <2>2, <2>3 DEF Code
      <3>2. QED  BY <1>1, <3>1 DEF HarnessInv, FrameFate
    <2>4. ASSUME kind = "gpu"  PROVE frame # "blank"
      <3>1. ppm = "colourful"  BY <2>2, <2>4 DEF Code, PictureCode
      <3>2. QED  BY <1>1, <3>1 DEF HarnessInv, Picture
    <2>5. ASSUME kind = "console"  PROVE Cardinality(bent) # 1
      <3>1. "PASS" \in serial  BY <2>2, <2>5 DEF Code
      <3>2. bent \notin {{"tx"}, {"rx"}}  BY <1>1, <2>5, <3>1 DEF HarnessInv, TokenFate
      <3>3. bent = {} \/ bent = {"tx", "rx"}
        <4>1. bent \subseteq {"tx", "rx"}  BY <1>1 DEF HarnessInv, TypeOK, DataTypes
        <4>2. QED  BY <3>2, <4>1
      <3>4. Cardinality({}) = 0  BY FS_EmptySet
      <3>5. Cardinality({"tx", "rx"}) = 2
        <4>1. IsFiniteSet({"tx"}) /\ Cardinality({"tx"}) = 1  BY FS_Singleton
        <4>2. {"tx"} \cup {"rx"} = {"tx", "rx"} /\ "rx" \notin {"tx"}  OBVIOUS
        <4>3. Cardinality({"tx"} \cup {"rx"}) = Cardinality({"tx"}) + 1  BY <4>1, <4>2, FS_AddElement
        <4>4. QED  BY <4>1, <4>2, <4>3
      <3>6. QED  BY <3>3, <3>4, <3>5
    <2>6. QED  BY <2>3, <2>4, <2>5
  <1>2. HarnessInv => PassIsEarned  BY <1>1 DEF PassIsEarned
  <1>3. QED  BY <1>2, HarnessInvariant, PTL

\* A run script that exits with 1, 2, 3, 4 or 64 does so because something that the
\* code stands for went wrong, and a verdict that the guest prints after the last
\* poll still counts.
THEOREM HarnessVerdictHasCause == Spec => []VerdictHasCause
  <1>1. ASSUME HarnessInv, sh = "done", kind \notin {"gpu", "venus"}, serial # {}
        PROVE  exit # 2
    <2>1. serial \subseteq {"PASS", "FAIL"}  BY <1>1 DEF HarnessInv, GuestLines
    <2>2. "PASS" \in serial \/ "FAIL" \in serial  BY <1>1, <2>1
    <2>3. Code # 2  BY <1>1, <2>2 DEF Code
    <2>4. qemu # "off"  BY <1>1 DEF HarnessInv, GuestLines
    <2>5. QED  BY <1>1, <2>3, <2>4 DEF HarnessInv, ExitFate
  <1>2. ASSUME HarnessInv, sh = "done", exit # 0
        PROVE  trouble \cap Causes(exit) # {}
    <2>1. CASE exit = 64 /\ kind = "vsock" /\ "absent" \in trouble
      <3>1. Causes(64) = {"absent"}  BY <2>1 DEF Causes
      <3>2. QED  BY <2>1, <3>1
    <2>2. CASE exit = 2 /\ kind = "console" /\ "nopeer" \in trouble
      <3>1. Causes(2) = {"died", "late", "nopeer"}  BY <2>2 DEF Causes
      <3>2. QED  BY <2>2, <3>1
    <2>3. QED  BY <1>2, <2>1, <2>2 DEF HarnessInv, ExitFate
  <1>3. HarnessInv => VerdictHasCause  BY <1>1, <1>2 DEF VerdictHasCause, LateLineCounts
  <1>4. QED  BY <1>3, HarnessInvariant, PTL

\* Once a script has chosen its exit code, nobody writes to the logs or the
\* picture it has judged: QEMU is not running, and neither is the net peer.
THEOREM HarnessLogFrozen == Spec => LogFrozen
  <1>1. ASSUME HarnessInv, [Next]_vars  PROVE LogStays
    <2> SUFFICES ASSUME exit # Running PROVE UNCHANGED <<logVars, ppm>>  BY DEF LogStays
    <2>1. sh = "done"  BY <1>1 DEF HarnessInv, ScriptPlace
    <2>2. qemu # "up" /\ (kind = "net" => peer # "up")
      BY <1>1, <2>1 DEF HarnessInv, NoStrays, ExitFate
    <2>3. ~ScriptStep
      BY <2>1 DEF ScriptStep, Script, Start, AwaitSocket, Boot, PollPass, PollFail, PollAlive, Watch,
                  Screendump, MonitorGone, KillQemu, WaitQemu, KillPeer, WaitPeer, Verdict
    <2>4. ~Guest
      BY <2>2 DEF Guest, GuestRuns, GuestOpen, PlainVerdict, GpuRender, VenusReport, VenusEnd, NetTransmit,
                  NetReceive, ConsoleWrite, ConsoleRead, ConsoleCompare, VsockSend, VsockReceive
    <2>5. Peers => UNCHANGED <<logVars, ppm>>
      BY <2>2 DEF Peers, PeerBinds, PeerListens, NetPeerRecv, NetPeerReply, NetPeerExpires, EchoPeer, EchoPeerEnds
    <2>6. ~PowerOff /\ ~QemuDies /\ ~QemuDumps /\ ~Monitor
      BY <2>2 DEF PowerOff, QemuDies, QemuDumps, Monitor, MonitorReplies, GuestRuns
    <2>7. Signals => UNCHANGED <<logVars, ppm>>  BY DEF Signals, Terminates
    <2>8. UNCHANGED vars => UNCHANGED <<logVars, ppm>>  BY DEF vars, hostVars
    <2>9. QED  BY <1>1, <2>3, <2>4, <2>5, <2>6, <2>7, <2>8 DEF Next, Finished
  <1>2. QED  BY <1>1, HarnessInvariant, PTL DEF Spec, LogFrozen

=============================================================================
