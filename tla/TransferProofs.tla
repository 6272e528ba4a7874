--------------------------- MODULE TransferProofs ---------------------------
(***************************************************************************)
(* Proofs about Crc16, IoLoops, Client and Transfer, for any sizes of      *)
(* buffers and of data, any bytes and any way the kernel cuts a transfer.  *)
(*                                                                         *)
(* The checksums and the sums of buffer sizes are recursive functions.     *)
(* That they are defined at all, and what they compute, takes induction:   *)
(* it is had from the well-foundedness of < over Nat (Induction), and used *)
(* for what a loop holds after each of its rounds (Rounds, SameRounds).    *)
(*                                                                         *)
(* ChecksumCorrect is an invariant of a loop.  After each byte the crc of  *)
(* the code is what the long division has left at its 16 highest exponents *)
(* (Holds): one cancelled term is one bit shifted into the register        *)
(* (CancelIsShift), and an entry of the table does eight bits at once      *)
(* (ByteIsEightBits).                                                      *)
(*                                                                         *)
(* CallInv is the inductive invariant of the calls: pcount and the buffers *)
(* are the history of the system calls, and a socket is non blocking only  *)
(* where write() may be cut short.                                         *)
(***************************************************************************)
EXTENDS Transfer, WellFoundedInduction, TLAPS

-----------------------------------------------------------------------------
(* Induction, and functions defined by recursion *)

\* Every non-empty set of natural numbers has a least element.
LEMMA LeastNatural ==
    ASSUME NEW T, T \subseteq Nat, T # {}
    PROVE  \E x \in T : \A y \in T : x <= y
<1> DEFINE R == OpToRel(<, Nat)
<1>1. IsWellFoundedOn(R, Nat)
  BY Zenon, NatLessThanWellFounded
<1>2. \A x, y \in Nat : y < x => <<y, x>> \in R
  BY DEF OpToRel
<1> HIDE DEF R
<1>3. PICK x \in T : \A y \in T : ~(<<y, x>> \in R)
  BY Zenon, <1>1, WFMin
<1>4. \A y \in T : ~(y < x)
  BY Zenon, <1>2, <1>3
<1>5. \A y \in T : x <= y
  BY <1>4
<1> QED
  BY <1>5

\* Induction over the natural numbers, for a property that is a set.
LEMMA Induction ==
    ASSUME NEW S, 0 \in S, \A n \in Nat : n \in S => n + 1 \in S
    PROVE  \A n \in Nat : n \in S
<1> SUFFICES ASSUME NEW m \in Nat, m \notin S PROVE FALSE
  OBVIOUS
<1> DEFINE T == {n \in Nat : n \notin S}
<1>1. PICK x \in T : \A y \in T : x <= y
  BY Zenon, LeastNatural
<1>2. x # 0 /\ x - 1 \in Nat /\ x - 1 \notin T
  BY <1>1
<1> QED
  BY <1>1, <1>2

\* the values after each of n rounds, of which G describes one
RoundsOf(n, V, v, G) ==
    {g \in [0 .. n -> V] : g[0] = v /\ \A i \in 1 .. n : g[i] = G[<<g[i - 1], i>>]}

\* A loop has a value after each of its rounds.
LEMMA Rounds ==
    ASSUME NEW n \in Nat, NEW V, NEW v \in V, NEW G \in [V \X (1 .. n) -> V]
    PROVE  RoundsOf(n, V, v, G) # {}
<1> DEFINE Upto(m, g) == g[0] = v /\ \A i \in 1 .. m : g[i] = G[<<g[i - 1], i>>]
           S == {m \in Nat : m <= n => \E g \in [0 .. m -> V] : Upto(m, g)}
<1>1. 0 \in S
  <2> DEFINE g == [i \in 0 .. 0 |-> v]
  <2>1. g \in [0 .. 0 -> V] /\ Upto(0, g)
    OBVIOUS
  <2> QED
    BY Zenon, <2>1
<1>2. ASSUME NEW m \in Nat, m \in S PROVE m + 1 \in S
  <2> SUFFICES ASSUME m + 1 <= n PROVE \E h \in [0 .. m + 1 -> V] : Upto(m + 1, h)
    OBVIOUS
  <2>1. PICK g \in [0 .. m -> V] : Upto(m, g)
    BY <1>2
  <2> DEFINE h == [i \in 0 .. m + 1 |-> IF i = m + 1 THEN G[<<g[m], m + 1>>] ELSE g[i]]
  <2>2. G[<<g[m], m + 1>>] \in V
    OBVIOUS
  <2>3. h \in [0 .. m + 1 -> V]
    BY <2>2
  <2>4. h[0] = v
    BY <2>1
  <2>5. ASSUME NEW i \in 1 .. m + 1 PROVE h[i] = G[<<h[i - 1], i>>]
    <3>1. CASE i = m + 1
      <4>1. h[i] = G[<<g[m], m + 1>>] /\ h[i - 1] = g[m]
        BY <3>1
      <4> QED
        BY Zenon, <3>1, <4>1
    <3>2. CASE i \in 1 .. m
      BY <2>1, <3>2
    <3> QED
      BY <3>1, <3>2
  <2> QED
    BY Zenon, <2>3, <2>4, <2>5
<1> HIDE DEF S
<1>3. n \in S
  BY <1>1, <1>2, Induction
<1> QED
  BY <1>3 DEF S, RoundsOf

\* two loops of n rounds that begin alike and do alike from equal values
Alike(f, g, n) ==
    f[0] = g[0] /\ \A i \in 1 .. n : f[i - 1] = g[i - 1] => f[i] = g[i]

\* They have equal values after each round.
LEMMA SameRounds ==
    ASSUME NEW n \in Nat, NEW f, NEW g, Alike(f, g, n)
    PROVE  \A i \in 0 .. n : f[i] = g[i]
<1> DEFINE S == {m \in Nat : m <= n => f[m] = g[m]}
<1>1. 0 \in S
  BY DEF Alike
<1>2. ASSUME NEW m \in Nat, m \in S PROVE m + 1 \in S
  <2> SUFFICES ASSUME m + 1 <= n PROVE f[m + 1] = g[m + 1]
    OBVIOUS
  <2>1. m + 1 \in 1 .. n /\ f[(m + 1) - 1] = g[(m + 1) - 1]
    BY <1>2
  <2> QED
    BY <2>1 DEF Alike
<1> HIDE DEF S
<1>3. \A m \in Nat : m \in S
  BY <1>1, <1>2, Induction
<1> QED
  BY <1>3 DEF S

\* A shift step of init_crc16_tab keeps a pair of words.
LEMMA TableStepType ==
    ASSUME NEW s \in [crc : uint16_t, c : Byte]
    PROVE  TableStep(s) \in [crc : uint16_t, c : Byte]
<1>1. ShiftRight(s.crc, 1) \in uint16_t /\ ShiftRight(s.c, 1) \in Byte
  BY DEF ShiftRight, uint16_t, Byte
<1>2. SymDiff(ShiftRight(s.crc, 1), CRC_POLY_16) \in uint16_t
  BY <1>1 DEF SymDiff, CRC_POLY_16, uint16_t
<1> QED
  BY <1>1, <1>2 DEF TableStep

\* The inner loop of init_crc16_tab does eight steps.
LEMMA TableRoundsDef ==
    ASSUME NEW i \in Byte
    PROVE  /\ TableRounds(i) \in [0 .. 8 -> [crc : uint16_t, c : Byte]]
           /\ TableRounds(i)[0] = [crc |-> {}, c |-> i]
           /\ \A j \in 1 .. 8 : TableRounds(i)[j] = TableStep(TableRounds(i)[j - 1])
<1> DEFINE V == [crc : uint16_t, c : Byte]
           v == [crc |-> {}, c |-> i]
           G == [x \in V \X (1 .. 8) |-> TableStep(x[1])]
           Body(g) == [j \in 0 .. 8 |-> IF j = 0 THEN v ELSE TableStep(g[j - 1])]
           Sol(g) == g = Body(g)
<1>1. v \in V
  BY DEF uint16_t
<1>2. G \in [V \X (1 .. 8) -> V]
  BY TableStepType
<1>3. \A x \in V, j \in 1 .. 8 : G[<<x, j>>] = TableStep(x)
  OBVIOUS
<1> HIDE DEF V, v, G
<1>4. PICK g \in [0 .. 8 -> V] : 
         g[0] = v /\ \A j \in 1 .. 8 : g[j] = G[<<g[j - 1], j>>]
  <2>1. RoundsOf(8, V, v, G) # {}
    BY Zenon, <1>1, <1>2, Rounds
  <2> QED
    BY Zenon, <2>1 DEF RoundsOf
<1>5. ASSUME NEW j \in 1 .. 8 PROVE g[j] = TableStep(g[j - 1])
  <2>1. g[j - 1] \in V
    OBVIOUS
  <2> QED
    BY Zenon, <1>3, <1>4, <2>1
<1>6. Sol(g)
  BY <1>4, <1>5
<1>7. TableRounds(i) = CHOOSE f : Sol(f)
  BY Zenon DEF TableRounds, v
<1>8. Sol(TableRounds(i))
  BY Zenon, <1>6, <1>7
<1> DEFINE f == TableRounds(i)
<1> HIDE DEF f
<1>9. f = Body(f)
  BY <1>8 DEF f
<1>10. f[0] = v /\ \A j \in 1 .. 8 : f[j] = TableStep(f[j - 1])
  BY <1>9
<1>11. \A j \in 0 .. 8 : f[j] = g[j]
  <2>1. Alike(f, g, 8)
    BY <1>4, <1>5, <1>10 DEF Alike
  <2> QED
    BY <2>1, SameRounds
<1>12. f \in [0 .. 8 -> V]
  BY <1>9, <1>11
<1> QED
  BY <1>10, <1>12 DEF f, v, V

-----------------------------------------------------------------------------
\* Bit k of w >> n is bit k + n of w.
LEMMA ShiftBit ==
    ASSUME NEW w, w \subseteq Nat, NEW n \in Nat, NEW k
    PROVE  k \in ShiftRight(w, n) <=> k \in Nat /\ k + n \in w
  BY DEF ShiftRight

\* A word shifted right is a word.
LEMMA ShiftType ==
    ASSUME NEW w \in uint16_t, NEW n \in Nat
    PROVE  ShiftRight(w, n) \in uint16_t
<1>1. w \subseteq 0 .. 15
  BY DEF uint16_t
<1>2. ASSUME NEW k \in ShiftRight(w, n) PROVE k \in 0 .. 15
  <2>1. PICK b \in w : b >= n /\ k = b - n
    BY DEF ShiftRight
  <2> QED
    BY <1>1, <2>1
<1> QED
  BY <1>2 DEF uint16_t

\* Bit k of a xor.
LEMMA XorBit ==
    ASSUME NEW A, NEW B, NEW x
    PROVE  x \in SymDiff(A, B) <=> ~(x \in A <=> x \in B)
  BY Zenon DEF SymDiff

\* update_crc_16 of one byte returns a word.
LEMMA UpdateType ==
    ASSUME NEW crc \in uint16_t, NEW c \in Byte
    PROVE  update_crc_16_byte(crc, c) \in uint16_t
<1> DEFINE i == SymDiff(crc, c) \cap (0 .. 7)
<1>1. i \in Byte
  BY DEF Byte
<1>2. crc_tab16[i] \in uint16_t
  <2> HIDE DEF i
  <2>1. TableRounds(i) \in [0 .. 8 -> [crc : uint16_t, c : Byte]]
    BY Zenon, <1>1, TableRoundsDef
  <2> QED
    BY <1>1, <2>1 DEF crc_tab16
<1>3. ShiftRight(crc, 8) \in uint16_t
  BY ShiftType
<1> HIDE DEF i
<1>4. SymDiff(ShiftRight(crc, 8), crc_tab16[i]) \in uint16_t
  BY <1>2, <1>3 DEF SymDiff, uint16_t
<1> QED
  BY <1>4 DEF update_crc_16_byte, i

\* The loop of update_crc_16 over a string computes one round after the other.
LEMMA CrcRoundsDef ==
    ASSUME NEW crc \in uint16_t, NEW s \in Seq(Byte)
    PROVE  /\ CrcRounds(crc, s) \in [0 .. Len(s) -> uint16_t]
           /\ CrcRounds(crc, s)[0] = crc
           /\ \A a \in 1 .. Len(s) :
                CrcRounds(crc, s)[a] = update_crc_16_byte(CrcRounds(crc, s)[a - 1], s[a])
<1> DEFINE n == Len(s)
           G == [x \in uint16_t \X (1 .. n) |-> update_crc_16_byte(x[1], s[x[2]])]
           Body(g) == [a \in 0 .. n |-> IF a = 0 THEN crc ELSE update_crc_16_byte(g[a - 1], s[a])]
           Sol(g) == g = Body(g)
<1>1. n \in Nat /\ \A a \in 1 .. n : s[a] \in Byte
  OBVIOUS
<1>2. G \in [uint16_t \X (1 .. n) -> uint16_t]
  BY <1>1, UpdateType
<1>3. \A x \in uint16_t, a \in 1 .. n : G[<<x, a>>] = update_crc_16_byte(x, s[a])
  OBVIOUS
<1> HIDE DEF n, G
<1>4. PICK g \in [0 .. n -> uint16_t] :
         g[0] = crc /\ \A a \in 1 .. n : g[a] = G[<<g[a - 1], a>>]
  <2>1. RoundsOf(n, uint16_t, crc, G) # {}
    BY Zenon, <1>1, <1>2, Rounds
  <2> QED
    BY <2>1 DEF RoundsOf
<1>5. ASSUME NEW a \in 1 .. n PROVE g[a] = update_crc_16_byte(g[a - 1], s[a])
  <2>1. g[a - 1] \in uint16_t
    BY <1>1
  <2> QED
    BY Zenon, <1>3, <1>4, <2>1
<1>6. Sol(g)
  BY <1>1, <1>4, <1>5
<1>7. CrcRounds(crc, s) = CHOOSE f : Sol(f)
  BY Zenon DEF CrcRounds, n
<1>8. Sol(CrcRounds(crc, s))
  BY Zenon, <1>6, <1>7
<1> DEFINE f == CrcRounds(crc, s)
<1> HIDE DEF f
<1>9. f = Body(f)
  BY Zenon, <1>8 DEF f
<1>10. f[0] = crc /\ \A a \in 1 .. n : f[a] = update_crc_16_byte(f[a - 1], s[a])
  BY <1>1, <1>9
<1>11. \A a \in 0 .. n : f[a] = g[a]
  <2>1. Alike(f, g, n)
    BY <1>4, <1>5, <1>10 DEF Alike
  <2> QED
    BY <1>1, <2>1, SameRounds
<1>12. f \in [0 .. n -> uint16_t]
  BY <1>9, <1>11
<1> QED
  BY <1>10, <1>12 DEF f, n

\* update_crc_16 of a string is that of its end, from that of its beginning:
\* cutting the data into buffers does not change the checksum.
THEOREM Chunks ==
    ASSUME NEW crc \in uint16_t, NEW s \in Seq(Byte), NEW t \in Seq(Byte)
    PROVE  update_crc_16(crc, s \o t) = update_crc_16(update_crc_16(crc, s), t)
<1> DEFINE m == Len(s)
           u == s \o t
           f == CrcRounds(crc, u)
           g == CrcRounds(crc, s)
           h == CrcRounds(g[m], t)
           fm == [a \in 0 .. Len(t) |-> f[m + a]]
<1>1. u \in Seq(Byte) /\ Len(u) = m + Len(t) /\ m \in Nat /\ Len(t) \in Nat
  OBVIOUS
<1>2. (\A a \in 1 .. m : u[a] = s[a]) /\ (\A a \in 1 .. Len(t) : u[m + a] = t[a])
  OBVIOUS
<1>3. g \in [0 .. m -> uint16_t] /\ g[m] \in uint16_t
  BY <1>1, CrcRoundsDef
<1>4. /\ f[0] = crc /\ \A a \in 1 .. m + Len(t) : f[a] = update_crc_16_byte(f[a - 1], u[a])
      /\ g[0] = crc /\ \A a \in 1 .. m : g[a] = update_crc_16_byte(g[a - 1], s[a])
      /\ h[0] = g[m] /\ \A a \in 1 .. Len(t) : h[a] = update_crc_16_byte(h[a - 1], t[a])
  <2> HIDE DEF u
  <2>1. f[0] = crc /\ \A a \in 1 .. Len(u) : f[a] = update_crc_16_byte(f[a - 1], u[a])
    BY Zenon, <1>1, CrcRoundsDef
  <2>2. g[0] = crc /\ \A a \in 1 .. m : g[a] = update_crc_16_byte(g[a - 1], s[a])
    BY CrcRoundsDef
  <2> HIDE DEF g
  <2>3. h[0] = g[m] /\ \A a \in 1 .. Len(t) : h[a] = update_crc_16_byte(h[a - 1], t[a])
    BY <1>3, CrcRoundsDef
  <2> QED
    BY <1>1, <2>1, <2>2, <2>3
<1> HIDE DEF f, g, h, u
<1>5. f[m] = g[m]
  <2>1. Alike(f, g, m)
    BY <1>1, <1>2, <1>4 DEF Alike
  <2>2. \A a \in 0 .. m : f[a] = g[a]
    BY <1>1, <2>1, SameRounds
  <2> QED
    BY <1>1, <2>2
<1>6. fm[Len(t)] = h[Len(t)]
  <2>1. fm[0] = h[0]
    BY <1>1, <1>4, <1>5
  <2>2. ASSUME NEW a \in 1 .. Len(t), fm[a - 1] = h[a - 1] PROVE fm[a] = h[a]
    <3>1. fm[a] = f[m + a] /\ fm[a - 1] = f[(m + a) - 1]
      BY <1>1
    <3>2. f[m + a] = update_crc_16_byte(f[(m + a) - 1], u[m + a])
      BY <1>1, <1>4
    <3> QED
      BY <1>2, <1>4, <2>2, <3>1, <3>2
  <2> HIDE DEF fm
  <2>3. Alike(fm, h, Len(t))
    BY <2>1, <2>2 DEF Alike
  <2>4. \A a \in 0 .. Len(t) : fm[a] = h[a]
    BY <1>1, <2>3, SameRounds
  <2> QED
    BY <1>1, <2>4
<1> QED
  BY <1>1, <1>6 DEF update_crc_16, f, g, h, u

-----------------------------------------------------------------------------
(* The checksum is the remainder of a division *)

\* one step of the division: the term of exponent d is cancelled
Cancel(r, d) == IF d \in r THEN SymDiff(r, {e + d - 16 : e \in Generator}) ELSE r

\* Cancelling a term changes four exponents.
LEMMA CancelBit ==
    ASSUME NEW r, r \subseteq Nat, NEW d \in Nat, d >= 16
    PROVE  /\ Cancel(r, d) \subseteq Nat
           /\ \A e \in Nat : e \in Cancel(r, d) <=>
                ~(e \in r <=> d \in r /\ e \in {d, d - 1, d - 14, d - 16})
<1> DEFINE g == {e + d - 16 : e \in Generator}
<1>1. g = {d, d - 1, d - 14, d - 16}
  BY DEF Generator
<1> HIDE DEF g
<1>2. \A e : e \in SymDiff(r, g) <=> ~(e \in r <=> e \in g)
  BY XorBit
<1>3. Cancel(r, d) = IF d \in r THEN SymDiff(r, g) ELSE r
  BY DEF Cancel, g
<1>4. g \subseteq Nat
  BY <1>1
<1>5. CASE d \in r
  <2>1. Cancel(r, d) = SymDiff(r, g)
    BY <1>3, <1>5
  <2> QED
    BY Zenon, <1>1, <1>2, <1>4, <1>5, <2>1
<1>6. CASE d \notin r
  <2>1. Cancel(r, d) = r
    BY <1>3, <1>6
  <2> QED
    BY Zenon, <1>6, <2>1
<1> QED
  BY <1>5, <1>6

\* The long division cancels one term after the other.
LEMMA DivisionDef ==
    ASSUME NEW p, p \subseteq Nat, NEW n \in Nat
    PROVE  /\ Division(p, n)[0] = p
           /\ \A i \in 1 .. n : Division(p, n)[i] = Cancel(Division(p, n)[i - 1], n + 16 - i)
<1> DEFINE V == SUBSET Nat
           G == [x \in V \X (1 .. n) |-> Cancel(x[1], n + 16 - x[2])]
           Body(g) == [i \in 0 .. n |-> IF i = 0 THEN p ELSE Cancel(g[i - 1], n + 16 - i)]
           Sol(g) == g = Body(g)
<1>1. p \in V
  OBVIOUS
<1>2. ASSUME NEW x \in V, NEW i \in 1 .. n PROVE Cancel(x, n + 16 - i) \in V
  <2> DEFINE d == n + 16 - i
  <2>1. d \in Nat /\ d >= 16 /\ x \subseteq Nat
    OBVIOUS
  <2> HIDE DEF d
  <2>2. Cancel(x, d) \subseteq Nat
    BY Zenon, <2>1, CancelBit
  <2> QED
    BY <2>2 DEF d
<1>3. G \in [V \X (1 .. n) -> V]
  BY Zenon, <1>2
<1>4. \A x \in V, i \in 1 .. n : G[<<x, i>>] = Cancel(x, n + 16 - i)
  BY Zenon
<1> HIDE DEF V, G
<1>5. PICK g \in [0 .. n -> V] :
         g[0] = p /\ \A i \in 1 .. n : g[i] = G[<<g[i - 1], i>>]
  <2>1. RoundsOf(n, V, p, G) # {}
    BY Zenon, <1>1, <1>3, Rounds
  <2> QED
    BY <2>1 DEF RoundsOf
<1>6. ASSUME NEW i \in 1 .. n PROVE g[i] = Cancel(g[i - 1], n + 16 - i)
  <2>1. g[i - 1] \in V
    OBVIOUS
  <2> QED
    BY Zenon, <1>4, <1>5, <2>1
<1>7. Sol(g)
  BY <1>5, <1>6
<1>8. Division(p, n) = CHOOSE f : Sol(f)
  BY Zenon DEF Division, Cancel
<1>9. Sol(Division(p, n))
  BY Zenon, <1>7, <1>8
<1> DEFINE f == Division(p, n)
<1> HIDE DEF f
<1>10. f = Body(f)
  BY <1>9 DEF f
<1>11. f[0] = p /\ \A i \in 1 .. n : f[i] = Cancel(f[i - 1], n + 16 - i)
  BY <1>10
<1> QED
  BY <1>11 DEF f

\* After m terms of a message of n bits, r is what is left of the division when
\* the register holds w: w at the 16 highest exponents left, added to the bits of
\* the message m that are still to come.
Holds(r, w, msg, n, m) ==
    /\ r \subseteq Nat
    /\ \A e \in Nat :
         e \in r <=> ~(n + 15 - m - e \in w <=> e - 16 \in msg /\ e < n - m + 16)

\* the register after one bit
ShiftIn(w, bit) ==
    IF 0 \in w <=> bit THEN ShiftRight(w, 1) ELSE SymDiff(ShiftRight(w, 1), CRC_POLY_16)

\* The bits of a register after a step.
LEMMA ShiftInBit ==
    ASSUME NEW w \in uint16_t, NEW bit \in BOOLEAN, NEW k \in Int
    PROVE  k \in ShiftIn(w, bit) <=>
             ~(k >= 0 /\ k + 1 \in w <=> ~(0 \in w <=> bit) /\ k \in {0, 13, 15})
<1>1. k \in ShiftRight(w, 1) <=> k >= 0 /\ k + 1 \in w
  <2>1. w \subseteq Nat /\ 1 \in Nat /\ (k \in Nat <=> k >= 0)
    BY DEF uint16_t
  <2> QED
    BY Zenon, <2>1, ShiftBit
<1>2. k \in SymDiff(ShiftRight(w, 1), CRC_POLY_16)
        <=> ~(k \in ShiftRight(w, 1) <=> k \in {0, 13, 15})
  BY XorBit DEF CRC_POLY_16
<1> QED
  BY Zenon, <1>1, <1>2 DEF ShiftIn

\* Cancelling the next term is shifting the next bit into the register.
LEMMA CancelIsShift ==
    ASSUME NEW n \in Nat, NEW m \in Nat, m < n, NEW w \in uint16_t, NEW msg, msg \subseteq Nat,
           NEW r, Holds(r, w, msg, n, m)
    PROVE  Holds(Cancel(r, n + 15 - m), ShiftIn(w, n - 1 - m \in msg), msg, n, m + 1)
<1> DEFINE d == n + 15 - m
           bit == n - 1 - m \in msg
           b == ~(0 \in w <=> bit)
           q == Cancel(r, d)
           v == ShiftIn(w, bit)
<1>1. d \in Nat /\ d >= 16
  OBVIOUS
<1>2. d \in r <=> b
  <2>1. n + 15 - m - d = 0 /\ d - 16 = n - 1 - m /\ d < n - m + 16
    OBVIOUS
  <2> QED
    BY <1>1, <2>1 DEF Holds
<1>3. q \subseteq Nat /\ \A e \in Nat : e \in q <=>
        ~(e \in r <=> d \in r /\ e \in {d, d - 1, d - 14, d - 16})
  <2>1. r \subseteq Nat
    BY DEF Holds
  <2> HIDE DEF d
  <2> QED
    BY Zenon, <1>1, <2>1, CancelBit
<1>4. bit \in BOOLEAN
  OBVIOUS
<1> HIDE DEF q, v, bit
<1>5. \A k \in Int : k \in v <=>
        ~(k >= 0 /\ k + 1 \in w <=> b /\ k \in {0, 13, 15})
  BY <1>4, ShiftInBit DEF v
<1>6. ASSUME NEW e \in Nat
      PROVE  e \in q <=> ~(n + 15 - (m + 1) - e \in v
                              <=> e - 16 \in msg /\ e < n - (m + 1) + 16)
  <2> DEFINE k == n + 15 - (m + 1) - e
  <2>1. k \in Int /\ k + 1 = n + 15 - m - e
    OBVIOUS
  <2>2. e \in r <=> ~(k + 1 \in w <=> e - 16 \in msg /\ e < n - m + 16)
    BY <2>1 DEF Holds
  <2>3. CASE e = d
    <3>1. k = -1 /\ ~(e < n - (m + 1) + 16)
      BY <2>3
    <3>2. k \notin v
      BY <1>5, <3>1
    <3>3. e \notin q
      BY <1>1, <1>3, <2>3
    <3> QED
      BY <3>1, <3>2, <3>3
  <2>4. CASE e > d
    <3>1. k < -1 /\ ~(e < n - m + 16) /\ ~(e < n - (m + 1) + 16)
      BY <2>4
    <3>2. k \notin v
      BY <1>5, <2>1, <3>1
    <3>3. k + 1 \notin w
      BY <2>1, <3>1 DEF uint16_t
    <3>4. e \notin {d, d - 1, d - 14, d - 16}
      BY <1>1, <2>4
    <3> QED
      BY Zenon, <1>3, <2>2, <3>1, <3>2, <3>3, <3>4
  <2>5. CASE e < d
    <3>1. k >= 0 /\ (e < n - m + 16 <=> e < n - (m + 1) + 16)
      BY <2>5
    <3>2. e \in {d, d - 1, d - 14, d - 16} <=> k \in {0, 13, 15}
      BY <2>5
    <3> QED
      BY Zenon, <1>2, <1>3, <1>5, <2>1, <2>2, <3>1, <3>2
  <2> QED
    BY <1>1, <2>3, <2>4, <2>5
<1> QED
  BY <1>3, <1>6 DEF Holds, q, v, bit

\* The bits of a message, byte by byte.
LEMMA MessageBits ==
    ASSUME NEW s \in Seq(Byte)
    PROVE  /\ \A e \in Message(s) : e \in Nat /\ e < 8 * Len(s)
           /\ \A a \in 1 .. Len(s), j \in 0 .. 7 :
                8 * (Len(s) - a) + 7 - j \in Message(s) <=> j \in s[a]
<1>1. \A a \in 1 .. Len(s) : s[a] \subseteq 0 .. 7
  BY DEF Byte
<1>2. \A e : e \in Message(s) <=>
        \E a \in 1 .. Len(s) : \E k \in s[a] : e = 8 * (Len(s) - a) + 7 - k
  BY DEF Message
<1>3. ASSUME NEW e \in Message(s) PROVE e \in Nat /\ e < 8 * Len(s)
  BY <1>1, <1>2
<1>4. ASSUME NEW a \in 1 .. Len(s), NEW j \in 0 .. 7, 8 * (Len(s) - a) + 7 - j \in Message(s)
      PROVE  j \in s[a]
  <2>1. PICK i \in 1 .. Len(s) : \E k \in s[i] : 8 * (Len(s) - a) + 7 - j = 8 * (Len(s) - i) + 7 - k
    BY <1>2, <1>4
  <2>2. PICK k \in s[i] : 8 * (Len(s) - a) + 7 - j = 8 * (Len(s) - i) + 7 - k
    BY <2>1
  <2>3. k \in 0 .. 7
    BY <1>1
  <2>4. a = i /\ j = k
    BY <2>2, <2>3
  <2> QED
    BY <2>4
<1>5. ASSUME NEW a \in 1 .. Len(s), NEW j \in s[a]
      PROVE  8 * (Len(s) - a) + 7 - j \in Message(s)
  BY <1>2
<1> QED
  BY Zenon, <1>3, <1>4, <1>5

\* The byte that init_crc16_tab shifts out.
LEMMA TableByte ==
    ASSUME NEW i \in Byte, NEW j \in 0 .. 7
    PROVE  0 \in TableRounds(i)[j].c <=> j \in i
<1> DEFINE T == TableRounds(i)
           S == {m \in Nat : m <= 8 => \A k \in Nat : k \in T[m].c <=> k + m \in i}
<1>1. /\ T \in [0 .. 8 -> [crc : uint16_t, c : Byte]]
      /\ T[0] = [crc |-> {}, c |-> i]
      /\ \A m \in 1 .. 8 : T[m] = TableStep(T[m - 1])
  BY Zenon, TableRoundsDef
<1> HIDE DEF T
<1>2. 0 \in S
  BY <1>1
<1>3. ASSUME NEW m \in Nat, m \in S PROVE m + 1 \in S
  <2> SUFFICES ASSUME m + 1 <= 8, NEW k \in Nat
               PROVE  k \in T[m + 1].c <=> k + (m + 1) \in i
    OBVIOUS
  <2>1. m + 1 \in 1 .. 8 /\ (m + 1) - 1 = m /\ m \in 0 .. 8
    OBVIOUS
  <2>2. T[m + 1].c = ShiftRight(T[m].c, 1)
    BY <1>1, <2>1 DEF TableStep
  <2>3. T[m].c \subseteq Nat
    <3>1. T[m].c \in Byte
      BY <1>1, <2>1
    <3> QED
      BY <3>1 DEF Byte
  <2>4. k \in ShiftRight(T[m].c, 1) <=> k + 1 \in T[m].c
    BY <2>3, ShiftBit
  <2>5. k + 1 \in T[m].c <=> (k + 1) + m \in i
    BY <1>3, <2>1
  <2> QED
    BY <2>2, <2>4, <2>5
<1> HIDE DEF S
<1>4. j \in S
  BY <1>2, <1>3, Induction
<1> QED
  BY <1>4 DEF S, T

\* the register after j bits of the byte c: what the table holds of them so far,
\* added to what is left of crc
Partial(crc, c, j) ==
    SymDiff(ShiftRight(crc, j), TableRounds(SymDiff(crc, c) \cap (0 .. 7))[j].crc)

\* The table does in one step what eight shifts do.
LEMMA ByteIsEightBits ==
    ASSUME NEW crc \in uint16_t, NEW c \in Byte
    PROVE  /\ Partial(crc, c, 0) = crc
           /\ Partial(crc, c, 8) = update_crc_16_byte(crc, c)
           /\ \A j \in 0 .. 7 :
                /\ Partial(crc, c, j) \in uint16_t
                /\ Partial(crc, c, j + 1) = ShiftIn(Partial(crc, c, j), j \in c)
<1> DEFINE i == SymDiff(crc, c) \cap (0 .. 7)
           T == TableRounds(i)
<1>1. i \in Byte /\ \A j \in 0 .. 7 : j \in i <=> ~(j \in crc <=> j \in c)
  BY XorBit DEF Byte
<1> HIDE DEF i
<1>2. /\ T \in [0 .. 8 -> [crc : uint16_t, c : Byte]]
      /\ T[0] = [crc |-> {}, c |-> i]
      /\ \A m \in 1 .. 8 : T[m] = TableStep(T[m - 1])
  BY Zenon, <1>1, TableRoundsDef
<1>3. \A j \in 0 .. 7 : 0 \in T[j].c <=> j \in i
  BY <1>1, TableByte
<1> HIDE DEF T
<1>4. \A j : Partial(crc, c, j) = SymDiff(ShiftRight(crc, j), T[j].crc)
  BY DEF Partial, T, i
<1>5. ASSUME NEW j \in 0 .. 8
      PROVE  /\ ShiftRight(crc, j) \in uint16_t /\ T[j].crc \in uint16_t
             /\ \A k \in Nat : k \in ShiftRight(crc, j) <=> k + j \in crc
  <2>1. crc \subseteq Nat /\ j \in Nat
    BY DEF uint16_t
  <2>2. T[j].crc \in uint16_t
    BY <1>2
  <2> QED
    BY Zenon, <2>1, <2>2, ShiftBit, ShiftType
<1>6. ASSUME NEW j \in 0 .. 8
      PROVE  /\ Partial(crc, c, j) \in uint16_t
             /\ \A k \in Nat : k \in Partial(crc, c, j) <=> ~(k + j \in crc <=> k \in T[j].crc)
  <2> DEFINE x == ShiftRight(crc, j)
             y == T[j].crc
  <2>1. SymDiff(x, y) \in uint16_t
    BY <1>5 DEF SymDiff, uint16_t
  <2>2. \A k \in Nat : k \in SymDiff(x, y) <=> ~(k \in x <=> k \in y)
    BY XorBit
  <2> QED
    BY <1>4, <1>5, <2>1, <2>2
<1>7. Partial(crc, c, 0) = crc
  <2>1. T[0].crc = {}
    BY <1>2
  <2>2. \A k \in Nat : k \in Partial(crc, c, 0) <=> k + 0 \in crc
    BY <1>6, <2>1
  <2>3. crc \subseteq Nat /\ Partial(crc, c, 0) \subseteq Nat
    BY SMTT(20), <1>6 DEF uint16_t
  <2>4. \A k \in Nat : k \in Partial(crc, c, 0) <=> k \in crc
    BY <2>2
  <2> QED
    BY Zenon, <2>3, <2>4
<1>8. Partial(crc, c, 8) = update_crc_16_byte(crc, c)
  BY <1>1, <1>4 DEF update_crc_16_byte, crc_tab16, T, i
<1>9. ASSUME NEW j \in 0 .. 7
      PROVE  Partial(crc, c, j + 1) = ShiftIn(Partial(crc, c, j), j \in c)
  <2> DEFINE w == Partial(crc, c, j)
             t == T[j].crc
             z == T[j].c
             b == ~(0 \in w <=> j \in c)
  <2>1. w \in uint16_t /\ t \subseteq Nat
    <3>1. w \in uint16_t /\ t \in uint16_t
      BY <1>5, <1>6
    <3> QED
      BY <3>1 DEF uint16_t
  <2>2. \A k \in Nat : k \in w <=> ~(k + j \in crc <=> k \in t)
    BY <1>6
  <2>3. 0 \in SymDiff(t, z) <=> b
    <3>1. 0 \in w <=> ~(j \in crc <=> 0 \in t)
      BY <2>2
    <3>2. 0 \in SymDiff(t, z) <=> ~(0 \in t <=> 0 \in z)
      BY XorBit
    <3>3. 0 \in z <=> ~(j \in crc <=> j \in c)
      BY <1>1, <1>3
    <3> HIDE DEF w, t, z
    <3> QED
      BY Zenon, <3>1, <3>2, <3>3
  <2> DEFINE next == IF b THEN SymDiff(ShiftRight(t, 1), CRC_POLY_16) ELSE ShiftRight(t, 1)
  <2>4. T[j + 1].crc = next
    <3>1. T[j + 1] = TableStep(T[j])
      BY <1>2
    <3> HIDE DEF b
    <3> QED
      BY <2>3, <3>1 DEF TableStep
  <2>5. \A k \in Nat : k \in next <=> ~(k + 1 \in t <=> b /\ k \in CRC_POLY_16)
    <3>1. \A k \in Nat : k \in ShiftRight(t, 1) <=> k + 1 \in t
      BY <2>1, ShiftBit
    <3>2. \A k : k \in SymDiff(ShiftRight(t, 1), CRC_POLY_16)
                   <=> ~(k \in ShiftRight(t, 1) <=> k \in CRC_POLY_16)
      BY XorBit
    <3> HIDE DEF b, t
    <3> QED
      BY Zenon, <3>1, <3>2
  <2>6. ASSUME NEW k \in Nat
        PROVE  k \in Partial(crc, c, j + 1) <=> k \in ShiftIn(w, j \in c)
    <3>1. k \in Partial(crc, c, j + 1) <=> ~(k + (j + 1) \in crc <=> k \in next)
      BY SMTT(20), <1>6, <2>4
    <3>2. k \in ShiftIn(w, j \in c) <=> ~(k + 1 \in w <=> b /\ k \in CRC_POLY_16)
      <4>1. (j \in c) \in BOOLEAN /\ k \in Int /\ k >= 0
        OBVIOUS
      <4>2. k \in CRC_POLY_16 <=> k \in {0, 13, 15}
        BY DEF CRC_POLY_16
      <4> HIDE DEF w
      <4> QED
        BY Zenon, <2>1, <4>1, <4>2, ShiftInBit
    <3>3. k + 1 \in w <=> ~(k + (j + 1) \in crc <=> k + 1 \in t)
      BY <2>2
    <3> HIDE DEF b, w, t, next
    <3> QED
      BY Zenon, <2>5, <3>1, <3>2, <3>3
  <2>7. ShiftIn(w, j \in c) \subseteq Nat /\ Partial(crc, c, j + 1) \subseteq Nat
    <3>1. Partial(crc, c, j + 1) \in uint16_t
      BY <1>6
    <3>2. ShiftRight(w, 1) \in uint16_t
      BY <2>1, ShiftType
    <3> QED
      BY <3>1, <3>2 DEF ShiftIn, SymDiff, uint16_t, CRC_POLY_16
  <2> HIDE DEF w
  <2>8. Partial(crc, c, j + 1) = ShiftIn(w, j \in c)
    BY Zenon, <2>6, <2>7
  <2> QED
    BY <2>8 DEF w
<1> QED
  BY <1>6, <1>7, <1>8, <1>9

\* After each byte, what the code holds is the register of the division.
LEMMA DivisionByBytes ==
    ASSUME NEW start \in uint16_t, NEW s \in Seq(Byte), NEW p,
           Holds(p, start, Message(s), 8 * Len(s), 0)
    PROVE  Holds(Remainder(p, 8 * Len(s)), update_crc_16(start, s), Message(s), 8 * Len(s),
                 8 * Len(s))
<1> DEFINE n == 8 * Len(s)
           msg == Message(s)
           D == Division(p, n)
           C == CrcRounds(start, s)
           S == {a \in Nat : a <= Len(s) => Holds(D[8 * a], C[a], msg, n, 8 * a)}
<1>1. n \in Nat /\ Len(s) \in Nat /\ msg \subseteq Nat /\ p \subseteq Nat
  BY MessageBits DEF Holds
<1>2. /\ C \in [0 .. Len(s) -> uint16_t]
      /\ C[0] = start
      /\ \A a \in 1 .. Len(s) : C[a] = update_crc_16_byte(C[a - 1], s[a])
  BY Zenon, CrcRoundsDef
<1>3. D[0] = p /\ \A i \in 1 .. n : D[i] = Cancel(D[i - 1], n + 16 - i)
  <2> HIDE DEF n
  <2> QED
    BY Zenon, <1>1, DivisionDef
<1> HIDE DEF C, D, msg
<1>4. 0 \in S
  BY <1>2, <1>3 DEF msg
<1>5. ASSUME NEW a \in Nat, a \in S PROVE a + 1 \in S
  <2> SUFFICES ASSUME a + 1 <= Len(s)
               PROVE  Holds(D[8 * (a + 1)], C[a + 1], msg, n, 8 * (a + 1))
    OBVIOUS
  <2> DEFINE X == C[a]
             c == s[a + 1]
             P(j) == Partial(X, c, j)
             J == {j \in Nat : j <= 8 => Holds(D[8 * a + j], P(j), msg, n, 8 * a + j)}
  <2>1. X \in uint16_t /\ c \in Byte /\ C[a + 1] = update_crc_16_byte(X, c)
    BY <1>1, <1>2
  <2> HIDE DEF X, c
  <2>2. /\ P(0) = X /\ P(8) = update_crc_16_byte(X, c)
        /\ \A j \in 0 .. 7 : P(j) \in uint16_t /\ P(j + 1) = ShiftIn(P(j), j \in c)
    BY <2>1, ByteIsEightBits
  <2> HIDE DEF P
  <2>3. 0 \in J
    BY <1>5, <2>2 DEF X
  <2>4. ASSUME NEW j \in Nat, j \in J PROVE j + 1 \in J
    <3> SUFFICES ASSUME j + 1 <= 8
                 PROVE  Holds(D[8 * a + (j + 1)], P(j + 1), msg, n, 8 * a + (j + 1))
      OBVIOUS
    <3> DEFINE m == 8 * a + j
    <3>1. m \in Nat /\ m < n /\ m + 1 \in 1 .. n /\ j \in 0 .. 7 /\ 8 * a + (j + 1) = m + 1
      BY <1>1
    <3>2. n - 1 - m \in msg <=> j \in c
      <4>1. a + 1 \in 1 .. Len(s) /\ n - 1 - m = 8 * (Len(s) - (a + 1)) + 7 - j
        BY <1>1, <3>1
      <4> QED
        BY Zenon, <3>1, <4>1, MessageBits DEF msg, c
    <3>3. D[m + 1] = Cancel(D[m], n + 15 - m)
      <4>1. (m + 1) - 1 = m /\ n + 16 - (m + 1) = n + 15 - m
        BY <3>1
      <4> QED
        BY <1>3, <3>1, <4>1
    <3>4. Holds(D[m], P(j), msg, n, m)
      BY <2>4, <3>1
    <3> HIDE DEF m, n
    <3>5. Holds(Cancel(D[m], n + 15 - m), ShiftIn(P(j), n - 1 - m \in msg), msg, n, m + 1)
      BY Zenon, <1>1, <2>2, <3>1, <3>4, CancelIsShift
    <3>6. P(j + 1) = ShiftIn(P(j), n - 1 - m \in msg)
      BY <2>2, <3>1, <3>2
    <3> QED
      BY <3>1, <3>3, <3>5, <3>6
  <2> HIDE DEF J
  <2>5. 8 \in J
    BY <2>3, <2>4, Induction
  <2>6. Holds(D[8 * a + 8], P(8), msg, n, 8 * a + 8)
    BY <2>5 DEF J
  <2>7. 8 * a + 8 = 8 * (a + 1)
    OBVIOUS
  <2> QED
    BY <2>1, <2>2, <2>6, <2>7
<1> HIDE DEF S
<1>6. Len(s) \in S
  BY <1>1, <1>4, <1>5, Induction
<1>7. Holds(D[n], C[Len(s)], msg, n, n)
  BY <1>1, <1>6 DEF S
<1> QED
  BY <1>7 DEF Remainder, update_crc_16, C, D, msg

\* The code computes the CRC of its definition, for every string of bytes and
\* every start value: the table, the shifts and the xor of update_crc_16() are a
\* division of polynomials.
THEOREM ChecksumCorrect ==
    ASSUME NEW start \in uint16_t, NEW s \in Seq(Byte)
    PROVE  update_crc_16(start, s) = Checksum(start, s)
<1> DEFINE n == 8 * Len(s)
           msg == Message(s)
           x == {e + 16 : e \in msg}
           y == {n + 15 - k : k \in start}
           p == SymDiff(x, y)
           r == Remainder(p, n)
           w == update_crc_16(start, s)
<1>1. n \in Nat /\ msg \subseteq Nat /\ (\A e \in msg : e < n) /\ start \subseteq 0 .. 15
  BY MessageBits DEF uint16_t
<1>2. Holds(p, start, msg, n, 0)
  <2>1. x \subseteq Nat /\ y \subseteq Nat
    BY <1>1
  <2>2. p \subseteq Nat /\ \A e : e \in p <=> ~(e \in x <=> e \in y)
    <3> HIDE DEF x, y
    <3> QED
      BY Zenon, <2>1 DEF SymDiff
  <2>3. ASSUME NEW e \in Nat PROVE e \in x <=> e - 16 \in msg /\ e < n - 0 + 16
    BY <1>1
  <2>4. ASSUME NEW e \in Nat PROVE e \in y <=> n + 15 - 0 - e \in start
    BY <1>1
  <2> HIDE DEF x, y, p
  <2> QED
    BY <2>2, <2>3, <2>4 DEF Holds
<1> HIDE DEF p, msg
<1>3. Holds(r, w, msg, n, n)
  BY <1>2, DivisionByBytes DEF msg
<1>4. w \in uint16_t
  <2>1. CrcRounds(start, s) \in [0 .. Len(s) -> uint16_t]
    BY Zenon, CrcRoundsDef
  <2> QED
    BY <2>1 DEF update_crc_16
<1> HIDE DEF r, w
<1>5. \A e \in Nat : e \in r <=> 15 - e \in w
  <2>1. \A e \in Nat : e - 16 \in msg => ~(e < n - n + 16)
    BY <1>1
  <2>2. \A e \in Nat : n + 15 - n - e = 15 - e
    BY <1>1
  <2> QED
    BY <1>3, <2>1, <2>2 DEF Holds
<1>6. {15 - e : e \in r} = w
  <2>1. r \subseteq Nat
    BY <1>3 DEF Holds
  <2>2. \A k \in w : k \in 0 .. 15
    BY <1>4 DEF uint16_t
  <2>3. ASSUME NEW k \in w PROVE k \in {15 - e : e \in r}
    <3>1. 15 - k \in Nat /\ k = 15 - (15 - k)
      BY <2>2
    <3>2. 15 - k \in r
      BY <1>5, <3>1
    <3> QED
      BY <3>1, <3>2
  <2>4. ASSUME NEW e \in r PROVE 15 - e \in w
    BY <1>5, <2>1
  <2> QED
    BY <2>3, <2>4
<1> QED
  BY Zenon, <1>6 DEF Checksum, r, w, p, msg

-----------------------------------------------------------------------------
(* Sums of buffer sizes *)

\* Sums adds one size after the other.
LEMMA SumsDef ==
    ASSUME NEW s \in Seq(Nat)
    PROVE  /\ Sums(s) \in [0 .. Len(s) -> Nat]
           /\ Sums(s)[0] = 0
           /\ \A i \in 1 .. Len(s) : Sums(s)[i] = Sums(s)[i - 1] + s[i]
<1> DEFINE n == Len(s)
           G == [x \in Nat \X (1 .. n) |-> x[1] + s[x[2]]]
           Body(g) == [i \in 0 .. n |-> IF i = 0 THEN 0 ELSE g[i - 1] + s[i]]
           Sol(g) == g = Body(g)
<1>1. n \in Nat /\ \A i \in 1 .. n : s[i] \in Nat
  OBVIOUS
<1>2. G \in [Nat \X (1 .. n) -> Nat]
  BY <1>1
<1>3. \A x \in Nat, i \in 1 .. n : G[<<x, i>>] = x + s[i]
  OBVIOUS
<1> HIDE DEF n, G
<1>4. PICK g \in [0 .. n -> Nat] :
         g[0] = 0 /\ \A i \in 1 .. n : g[i] = G[<<g[i - 1], i>>]
  <2>1. RoundsOf(n, Nat, 0, G) # {}
    BY Zenon, <1>1, <1>2, Rounds
  <2> QED
    BY <2>1 DEF RoundsOf
<1>5. ASSUME NEW i \in 1 .. n PROVE g[i] = g[i - 1] + s[i]
  <2>1. g[i - 1] \in Nat
    BY <1>1
  <2> QED
    BY Zenon, <1>3, <1>4, <2>1
<1>6. Sol(g)
  BY <1>1, <1>4, <1>5
<1>7. Sums(s) = CHOOSE f : Sol(f)
  BY Zenon DEF Sums, n
<1>8. Sol(Sums(s))
  BY Zenon, <1>6, <1>7
<1> DEFINE f == Sums(s)
<1> HIDE DEF f
<1>9. f = Body(f)
  BY Zenon, <1>8 DEF f
<1>10. f[0] = 0 /\ \A i \in 1 .. n : f[i] = f[i - 1] + s[i]
  BY <1>1, <1>9
<1>11. \A i \in 0 .. n : f[i] = g[i]
  <2>1. Alike(f, g, n)
    BY <1>4, <1>5, <1>10 DEF Alike
  <2> QED
    BY <1>1, <2>1, SameRounds
<1>12. f \in [0 .. n -> Nat]
  BY <1>9, <1>11
<1> QED
  BY <1>10, <1>12 DEF f, n

\* The total of no sizes.
LEMMA TotalEmpty ==
    Total(<<>>) = 0
<1>1. <<>> \in Seq(Nat) /\ Len(<<>>) = 0
  OBVIOUS
<1> QED
  BY Zenon, <1>1, SumsDef DEF Total

\* The total of one size more.
LEMMA TotalAppend ==
    ASSUME NEW s \in Seq(Nat), NEW x \in Nat
    PROVE  Total(s) \in Nat /\ Total(s \o <<x>>) = Total(s) + x
<1> DEFINE t == s \o <<x>>
           f == Sums(s)
           g == Sums(t)
           n == Len(s)
<1>1. /\ t \in Seq(Nat) /\ Len(t) = n + 1 /\ n \in Nat /\ t[n + 1] = x
      /\ \A i \in 1 .. n : t[i] = s[i]
  OBVIOUS
<1>2. f \in [0 .. n -> Nat] /\ f[0] = 0 /\ \A i \in 1 .. n : f[i] = f[i - 1] + s[i]
  BY Zenon, SumsDef
<1> HIDE DEF t
<1>3. g[0] = 0 /\ \A i \in 1 .. Len(t) : g[i] = g[i - 1] + t[i]
  BY Zenon, <1>1, SumsDef
<1> HIDE DEF f, g
<1>4. Alike(f, g, n)
  BY <1>1, <1>2, <1>3 DEF Alike
<1>5. f[n] = g[n]
  BY <1>1, <1>4, SameRounds
<1>6. g[n + 1] = g[n] + x /\ f[n] \in Nat
  <2>1. n + 1 \in 1 .. Len(t) /\ (n + 1) - 1 = n /\ n \in 0 .. n
    BY <1>1
  <2>2. g[n + 1] = g[(n + 1) - 1] + t[n + 1]
    BY <1>3, <2>1
  <2> HIDE DEF n
  <2> QED
    BY <1>1, <1>2, <2>1, <2>2
<1> QED
  BY <1>1, <1>5, <1>6 DEF Total, f, g, t

\* The total of one size.
LEMMA TotalOne ==
    ASSUME NEW x \in Nat
    PROVE  Total(<<x>>) = x
<1>1. <<>> \in Seq(Nat) /\ <<>> \o <<x>> = <<x>>
  OBVIOUS
<1>2. Total(<<>> \o <<x>>) = Total(<<>>) + x
  BY Zenon, <1>1, TotalAppend
<1> QED
  BY <1>1, <1>2, TotalEmpty

\* b bytes are whole elements of z bytes, and less than one element more.
LEMMA WholeElements ==
    ASSUME NEW b \in Nat, NEW z \in Nat \ {0}
    PROVE  b \div z \in Nat /\ b - (b \div z) * z \in 0 .. z - 1
  OBVIOUS

\* The bytes of k elements are no more than k elements.
LEMMA ElementsFit ==
    ASSUME NEW k \in Nat, NEW z \in Nat \ {0}, NEW b \in 0 .. k * z
    PROVE  b \div z \in 0 .. k
  OBVIOUS

-----------------------------------------------------------------------------
(* The calls of a server and of a client *)

\* What holds during a call: its counters are the history of its system calls,
\* and a client's socket blocks when it has to.
CallInv ==
    /\ ClientTypeOK
    /\ op = "write" => pcount = moved
    /\ op = "read" => Total(result) = moved /\ 0 \notin Range(result)
    /\ op \in {"setBlocking", "clientWrite"} => pcount = moved /\ pcount + data_size = size
    /\ op = "setNonBlocking" =>
         /\ retval <= moved
         /\ retval = -1 /\ errno = "EAGAIN" => moved = 0
    /\ O_NONBLOCK => nonBlockingSocket /\ ~tcp
    /\ op = "clientWrite" /\ Switches(size) => ~O_NONBLOCK

\* What a system call of up to n bytes returns.
LEMMA SyscallReturns ==
    ASSUME NEW n \in Nat, NEW low \in {0, 1}, NEW r \in Syscall(n, low)
    PROVE  /\ r.errno \in {"OK", "EAGAIN", "ERR"}
           /\ r.c \in Int /\ (r.c = -1 \/ r.c \in low .. n)
           /\ r.c = -1 <=> r.errno # "OK"
           /\ Bytes(r.c) \in 0 .. n
           /\ r.c > 0 => Bytes(r.c) = r.c
  BY DEF Syscall, Bytes

\* read()'s buffers are those it has filled.
LEMMA BufferAdded ==
    ASSUME NEW s \in Seq(0 .. BufferSize), 0 \notin Range(s), NEW x \in 1 .. BufferSize
    PROVE  /\ s \o <<x>> \in Seq(0 .. BufferSize)
           /\ 0 \notin Range(s \o <<x>>)
           /\ Total(s \o <<x>>) = Total(s) + x
<1>1. s \in Seq(Nat) /\ x \in Nat
  BY IoLoopsAssumption
<1>2. Total(s \o <<x>>) = Total(s) + x
  BY Zenon, <1>1, TotalAppend
<1>3. s \o <<x>> \in Seq(0 .. BufferSize)
  BY IoLoopsAssumption
<1>4. ASSUME NEW i \in DOMAIN (s \o <<x>>) PROVE (s \o <<x>>)[i] # 0
  BY <1>1 DEF Range
<1> QED
  BY <1>2, <1>3, <1>4 DEF Range

\* One ::write of write().
LEMMA WriteStep ==
    ASSUME CallInv, WriteSyscall, size' = 0, UNCHANGED socketVars
    PROVE  CallInv'
<1>1. PICK r \in Syscall(data_size, IF data_size = 0 THEN 0 ELSE 1) :
         LET again == r.c > 0 /\ r.c < data_size
             p == pcount + Bytes(r.c)
         IN  /\ pcount' = p
             /\ data_size' = IF again THEN data_size - r.c ELSE data_size
             /\ op' = IF again THEN "write" ELSE "none"
             /\ retval' = IF again THEN retval ELSE WriteResult(r.c, r.errno, p)
             /\ errno' = r.errno
             /\ moved' = moved + Bytes(r.c)
  BY DEF WriteSyscall
<1>2. data_size \in Nat /\ (IF data_size = 0 THEN 0 ELSE 1) \in {0, 1}
  BY IoLoopsAssumption DEF CallInv, ClientTypeOK, IoTypeOK
<1>3. /\ r.errno \in {"OK", "EAGAIN", "ERR"} /\ r.c \in Int
      /\ Bytes(r.c) \in 0 .. data_size
  BY <1>2, SyscallReturns
<1>4. ClientTypeOK'
  BY SMTT(20), <1>1, <1>3, IoLoopsAssumption
     DEF CallInv, ClientTypeOK, IoTypeOK, WriteSyscall, WriteResult, socketVars
<1>5. pcount' = moved' /\ op' \in {"write", "none"}
  BY <1>1, <1>3 DEF CallInv, WriteSyscall
<1> QED
  BY <1>4, <1>5 DEF CallInv, socketVars

\* One ::read of read().
LEMMA ReadStep ==
    ASSUME CallInv, ReadSyscall, size' = 0, UNCHANGED socketVars
    PROVE  CallInv'
<1>1. PICK r \in Syscall(BufferSize, 0) :
         /\ result' = result \o BufferKept(r)
         /\ op' = IF r.c > 0 THEN "read" ELSE "none"
         /\ retval' = IF r.c > 0 THEN retval ELSE Len(result')
         /\ errno' = r.errno
         /\ moved' = moved + Bytes(r.c)
  BY DEF ReadSyscall
<1>2. /\ r.errno \in {"OK", "EAGAIN", "ERR"} /\ r.c \in Int
      /\ (r.c = -1 \/ r.c \in 0 .. BufferSize)
      /\ Bytes(r.c) \in 0 .. BufferSize /\ (r.c > 0 => Bytes(r.c) = r.c)
  BY IoLoopsAssumption, SyscallReturns
<1>3. BufferKept(r) \in Seq(0 .. BufferSize)
  <2>1. \A x \in 0 .. BufferSize : <<x>> \in Seq(0 .. BufferSize)
    OBVIOUS
  <2>2. <<>> \in Seq(0 .. BufferSize) /\ BufferSize \in 0 .. BufferSize
    BY IoLoopsAssumption
  <2>3. r.c > 0 => r.c \in 0 .. BufferSize
    BY <1>2
  <2> QED
    BY Zenon, <2>1, <2>2, <2>3 DEF BufferKept
<1>4. ClientTypeOK'
  BY <1>1, <1>2, <1>3, IoLoopsAssumption
     DEF CallInv, ClientTypeOK, IoTypeOK, ReadSyscall, socketVars
<1>5. CASE r.c > 0
  <2>1. BufferKept(r) = <<r.c>> /\ r.c \in 1 .. BufferSize /\ Bytes(r.c) = r.c
    BY <1>2, <1>5 DEF BufferKept
  <2>2. /\ result \in Seq(0 .. BufferSize) /\ 0 \notin Range(result)
        /\ Total(result) = moved
    BY DEF CallInv, ClientTypeOK, IoTypeOK, ReadSyscall
  <2>3. Total(result') = moved' /\ 0 \notin Range(result')
    BY <1>1, <2>1, <2>2, BufferAdded
  <2>4. op' = "read"
    BY <1>1, <1>5
  <2> QED
    BY <1>4, <2>3, <2>4 DEF CallInv, socketVars
<1>6. CASE ~(r.c > 0)
  BY <1>1, <1>4, <1>6 DEF CallInv, socketVars
<1> QED
  BY <1>5, <1>6

\* The ::read of read_one_buffer() and of read_one_buffer_t().
LEMMA ReadOneStep ==
    ASSUME CallInv, ReadOneBuffer \/ ReadOneBufferT, size' = 0, UNCHANGED socketVars
    PROVE  CallInv'
<1>1. BufferSize \in Nat /\ BufferSize * SizeofN \in Nat
  BY IoLoopsAssumption
<1>2. PICK r, x :
         /\ r.errno \in {"OK", "EAGAIN", "ERR"} /\ r.c \in Int /\ Bytes(r.c) \in Nat
         /\ x \in 0 .. BufferSize /\ result' = <<x>>
         /\ retval' = r.c /\ errno' = r.errno /\ moved' = Bytes(r.c)
         /\ op' = "none" /\ UNCHANGED <<pcount, data_size>>
  <2>1. CASE ReadOneBuffer
    <3>1. PICK r \in Syscall(BufferSize, 0) :
             /\ result' = <<Bytes(r.c)>> /\ retval' = r.c
             /\ errno' = r.errno /\ moved' = Bytes(r.c)
      BY <2>1 DEF ReadOneBuffer
    <3>2. /\ r.errno \in {"OK", "EAGAIN", "ERR"} /\ r.c \in Int
          /\ Bytes(r.c) \in 0 .. BufferSize
      BY <1>1, SyscallReturns
    <3>3. Bytes(r.c) \in Nat
      BY <3>2
    <3> QED
      BY <2>1, <3>1, <3>2, <3>3 DEF ReadOneBuffer
  <2>2. CASE ReadOneBufferT
    <3>1. PICK r \in Syscall(BufferSize * SizeofN, 0) :
             /\ result' = <<Bytes(r.c) \div SizeofN>> /\ retval' = r.c
             /\ errno' = r.errno /\ moved' = Bytes(r.c)
      BY <2>2 DEF ReadOneBufferT
    <3>2. /\ r.errno \in {"OK", "EAGAIN", "ERR"} /\ r.c \in Int
          /\ Bytes(r.c) \in 0 .. BufferSize * SizeofN
      BY <1>1, SyscallReturns
    <3>3. Bytes(r.c) \div SizeofN \in 0 .. BufferSize /\ Bytes(r.c) \in Nat
      BY <3>2, ElementsFit, IoLoopsAssumption
    <3> QED
      BY <2>2, <3>1, <3>2, <3>3 DEF ReadOneBufferT
  <2> QED
    BY <2>1, <2>2
<1>3. <<x>> \in Seq(0 .. BufferSize) /\ 0 \in 0 .. MaxSize
  BY <1>2, IoLoopsAssumption
<1>4. ClientTypeOK'
  BY <1>2, <1>3 DEF CallInv, ClientTypeOK, IoTypeOK, socketVars
<1> QED
  BY <1>2, <1>4 DEF CallInv, socketVars

\* Narrowing a count to int never makes it larger.
LEMMA ToIntBelow ==
    ASSUME NEW n \in Nat
    PROVE  ToInt(n) \in Int /\ ToInt(n) <= n
<1>1. IntHalf \in Nat \ {0}
  BY ClientAssumption
<1> DEFINE m == 2 * IntHalf
           x == n + IntHalf
<1>2. m \in Nat \ {0} /\ x \in Nat
  BY <1>1
<1>3. x % m \in 0 .. m - 1 /\ x % m <= x
  <2> HIDE DEF m, x
  <2>1. x % m \in 0 .. m - 1 /\ x = m * (x \div m) + (x % m) /\ x \div m \in Nat
    BY <1>2
  <2>2. m * (x \div m) \in Nat
    BY <1>2, <2>1
  <2> QED
    BY <1>2, <2>1, <2>2
<1> QED
  BY <1>1, <1>3 DEF ToInt

\* What write() returns after its last ::write is no more than was sent.
LEMMA ResultBounded ==
    ASSUME CallInv, op = "clientWrite", NEW r \in WriteReturns(data_size)
    PROVE  /\ ClientWriteResult(r) \in Int
           /\ ClientWriteResult(r) <= moved + Bytes(r.c)
           /\ ClientWriteResult(r) = -1 /\ r.errno = "EAGAIN" => moved + Bytes(r.c) = 0
<1>1. /\ data_size \in Nat /\ (IF data_size = 0 THEN 0 ELSE 1) \in {0, 1}
      /\ pcount = moved /\ pcount \in Nat
  BY IoLoopsAssumption DEF CallInv, ClientTypeOK, IoTypeOK
<1>2. /\ r \in Syscall(data_size, IF data_size = 0 THEN 0 ELSE 1)
      /\ r.errno = "EAGAIN" => O_NONBLOCK
  BY DEF WriteReturns
<1>3. /\ Bytes(r.c) \in 0 .. data_size /\ (r.c = -1 <=> r.errno # "OK")
      /\ r.c = -1 => Bytes(r.c) = 0
  BY <1>1, <1>2, SyscallReturns DEF Bytes
<1>4. r.errno = "EAGAIN" => ~Narrows(r)
  <2>1. r.errno = "EAGAIN" => r.c = -1
    BY <1>3
  <2> QED
    BY Zenon, <1>2, <2>1 DEF CallInv, Switches, Narrows
<1>5. ToInt(pcount) \in Int /\ ToInt(pcount) <= pcount
  BY <1>1, ToIntBelow
<1>6. ClientWriteResult(r) \in {-1, ToInt(pcount), pcount}
  BY DEF ClientWriteResult
<1>7. r.errno = "EAGAIN" => ClientWriteResult(r) = IF pcount > 0 THEN pcount ELSE -1
  BY <1>3, <1>4 DEF ClientWriteResult
<1> HIDE DEF ClientWriteResult
<1> QED
  BY <1>1, <1>3, <1>5, <1>6, <1>7

\* One ::write of a client's write().
LEMMA ClientWriteStep ==
    ASSUME CallInv, ClientWriteSyscall
    PROVE  CallInv'
<1>1. PICK r \in WriteReturns(data_size) :
         LET again == r.c > 0 /\ r.c < data_size
         IN  /\ pcount' = IF again THEN pcount + r.c ELSE pcount
             /\ data_size' = IF again THEN data_size - r.c ELSE data_size
             /\ moved' = moved + Bytes(r.c)
             /\ errno' = r.errno
             /\ op' = IF again THEN op ELSE Finish
             /\ retval' = IF again THEN retval ELSE ClientWriteResult(r)
  BY DEF ClientWriteSyscall
<1>2. data_size \in Nat /\ (IF data_size = 0 THEN 0 ELSE 1) \in {0, 1}
  BY IoLoopsAssumption DEF CallInv, ClientTypeOK, IoTypeOK
<1>3. r \in Syscall(data_size, IF data_size = 0 THEN 0 ELSE 1)
  BY DEF WriteReturns
<1>4. /\ r.errno \in {"OK", "EAGAIN", "ERR"} /\ r.c \in Int
      /\ Bytes(r.c) \in 0 .. data_size
      /\ r.c > 0 => Bytes(r.c) = r.c
      /\ r.c = -1 <=> r.errno # "OK"
  BY <1>2, <1>3, SyscallReturns
<1>5. /\ op = "clientWrite" /\ pcount = moved /\ pcount + data_size = size
      /\ pcount \in Nat /\ moved \in Nat /\ size \in 0 .. MaxSize
      /\ UNCHANGED <<clientVars, result>>
  BY DEF CallInv, ClientTypeOK, IoTypeOK, ClientWriteSyscall
<1>6. CASE r.c > 0 /\ r.c < data_size
  <2>1. /\ op' = "clientWrite" /\ pcount' = moved' /\ pcount' + data_size' = size'
        /\ pcount' \in Nat /\ data_size' \in 0 .. MaxSize
    BY <1>1, <1>2, <1>4, <1>5, <1>6, IoLoopsAssumption DEF clientVars
  <2>2. ClientTypeOK'
    BY <1>1, <1>4, <1>5, <1>6, <2>1
       DEF CallInv, ClientTypeOK, IoTypeOK, clientVars, socketVars
  <2> QED
    BY Zenon, <1>5, <2>1, <2>2 DEF CallInv, clientVars, socketVars, Switches
<1>7. CASE ~(r.c > 0 /\ r.c < data_size)
  <2>1. /\ op' \in {"none", "setNonBlocking"} /\ retval' = ClientWriteResult(r)
        /\ UNCHANGED <<pcount, data_size>>
    BY <1>1, <1>7 DEF Finish
  <2>2. /\ retval' \in Int /\ moved' \in Nat /\ retval' <= moved'
        /\ retval' = -1 /\ errno' = "EAGAIN" => moved' = 0
    <3> HIDE DEF ClientWriteResult
    <3> QED
      BY <1>1, <1>4, <1>5, <2>1, ResultBounded
  <2>3. ClientTypeOK'
    BY <1>1, <1>4, <1>5, <2>1, <2>2
       DEF CallInv, ClientTypeOK, IoTypeOK, clientVars, socketVars
  <2> QED
    BY <1>5, <2>1, <2>2, <2>3 DEF CallInv, clientVars, socketVars, Switches
<1> QED
  BY <1>6, <1>7

\* A call begins.
LEMMA CallStep ==
    ASSUME CallInv, NEW n \in 0 .. MaxSize, NEW f, Call(f, n), UNCHANGED socketVars,
           \/ f \in {"write", "read", "read_one_buffer", "read_one_buffer_t", "clientRead"}
              /\ size' = 0
           \/ f = (IF Switches(n) THEN "setBlocking" ELSE "clientWrite") /\ size' = n
    PROVE  CallInv'
<1>1. <<>> \in Seq(0 .. BufferSize) /\ 0 \in 0 .. MaxSize /\ n + 0 = n /\ n \in Nat
  BY IoLoopsAssumption
<1>2. ClientTypeOK'
  BY <1>1 DEF CallInv, ClientTypeOK, IoTypeOK, Call, socketVars
<1>3. Total(<<>>) = 0 /\ Range(<<>>) = {}
  BY TotalEmpty DEF Range
<1>4. op' = "clientWrite" => size' = n /\ ~Switches(n)
  BY DEF Call
<1>5. op' = "clientWrite" /\ Switches(size)' => ~O_NONBLOCK'
  BY <1>4 DEF Switches, socketVars
<1>6. op' \in {"setBlocking", "clientWrite"} => pcount' = moved' /\ pcount' + data_size' = size'
  BY <1>1 DEF Call
<1> QED
  BY <1>2, <1>3, <1>5, <1>6 DEF CallInv, Call, socketVars

\* Steps that only open, close or switch the socket, or give up.
LEMMA SocketStep ==
    ASSUME CallInv,
           \/ UnixConnect \/ TcpConnect \/ Close \/ PeerCloses
           \/ SetBlockingFails \/ SetBlocking \/ WriteInvalid \/ SetNonBlockingFails
           \/ SetNonBlocking
    PROVE  CallInv'
<1> USE DEF CallInv, ClientTypeOK, IoTypeOK, socketVars, clientVars, callVars
<1>1. CASE UnixConnect \/ TcpConnect
  <2>1. /\ op = "none" /\ UNCHANGED <<op, callVars, tcp, size>> /\ eof' = FALSE
        /\ data_socket' \in {"closed", "unconnected", "connected"}
        /\ O_NONBLOCK' = nonBlockingSocket \/ O_NONBLOCK' = FALSE
    BY Zenon, <1>1 DEF UnixConnect, TcpConnect, Opens
  <2>2. ClientTypeOK'
    BY Zenon, <2>1, ClientAssumption
  <2>3. O_NONBLOCK' => nonBlockingSocket /\ ~tcp'
    BY Zenon, <1>1, <2>1 DEF UnixConnect, TcpConnect, Opens
  <2> QED
    BY <2>1, <2>2, <2>3
<1>2. CASE Close \/ PeerCloses
  <2>1. CASE Close
    BY <2>1 DEF Close
  <2>2. CASE PeerCloses
    <3>1. ClientTypeOK'
      BY <2>2 DEF PeerCloses
    <3> QED
      BY <2>2, <3>1 DEF PeerCloses, Switches
  <2> QED
    BY <1>2, <2>1, <2>2
<1>3. CASE SetBlockingFails
  BY <1>3 DEF SetBlockingFails
<1>4. CASE SetBlocking
  BY <1>4 DEF SetBlocking, set_fd_non_blocking, Switches
<1>5. CASE WriteInvalid
  BY <1>5 DEF WriteInvalid, Finish
<1>6. CASE SetNonBlocking
  BY <1>6 DEF SetNonBlocking, set_fd_non_blocking
<1>7. CASE SetNonBlockingFails
  BY <1>7 DEF SetNonBlockingFails
<1> QED
  BY Zenon, <1>1, <1>2, <1>3, <1>4, <1>5, <1>6, <1>7

\* The ::read of a client's read().
LEMMA ClientReadStep ==
    ASSUME CallInv, ClientReadSyscall
    PROVE  CallInv'
<1>1. PICK r \in Syscall(BufferSize, 0) :
         /\ result' = <<Bytes(r.c)>> /\ retval' = r.c
         /\ errno' = r.errno /\ moved' = Bytes(r.c)
  BY DEF ClientReadSyscall, ReadReturns
<1>2. /\ r.errno \in {"OK", "EAGAIN", "ERR"} /\ r.c \in Int
      /\ Bytes(r.c) \in 0 .. BufferSize
  BY IoLoopsAssumption, SyscallReturns
<1>3. Bytes(r.c) \in Nat /\ <<Bytes(r.c)>> \in Seq(0 .. BufferSize)
  BY <1>2, IoLoopsAssumption
<1>4. op' = "none" /\ UNCHANGED <<clientVars, pcount, data_size>>
  BY DEF ClientReadSyscall
<1>5. ClientTypeOK'
  BY <1>1, <1>2, <1>3, <1>4 DEF CallInv, ClientTypeOK, IoTypeOK, clientVars, socketVars
<1> QED
  BY <1>4, <1>5 DEF CallInv, clientVars, socketVars

\* Every step keeps the invariant.
LEMMA CallInvStep ==
    ASSUME CallInv, [ClientNext]_<<vars, clientVars>>
    PROVE  CallInv'
<1>1. CASE UNCHANGED <<vars, clientVars>>
  BY <1>1 DEF CallInv, ClientTypeOK, IoTypeOK, vars, clientVars, socketVars, Switches
<1>2. CASE Next /\ size' = 0 /\ UNCHANGED socketVars
  <2>1. ASSUME NEW n \in 0 .. MaxSize, Write(n) PROVE CallInv'
    BY <1>2, <2>1, CallStep DEF Write
  <2>2. ASSUME NEW f \in {"read", "read_one_buffer", "read_one_buffer_t"}, Read(f)
        PROVE  CallInv'
    <3>1. 0 \in 0 .. MaxSize
      BY IoLoopsAssumption
    <3> QED
      BY <1>2, <2>2, <3>1, CallStep DEF Read
  <2> QED
    BY <1>2, <2>1, <2>2, WriteStep, ReadStep, ReadOneStep DEF Next
<1>3. ASSUME NEW n \in 0 .. MaxSize, ClientWrite(n) PROVE CallInv'
  BY <1>3, CallStep DEF ClientWrite
<1>4. CASE ClientRead
  <2>1. 0 \in 0 .. MaxSize
    BY IoLoopsAssumption
  <2> QED
    BY <1>4, <2>1, CallStep DEF ClientRead
<1> QED
  BY <1>1, <1>2, <1>3, <1>4, SocketStep, ClientWriteStep, ClientReadStep DEF ClientNext

\* It holds at the start.
LEMMA CallInvInit ==
    ASSUME ClientInit
    PROVE  CallInv
<1>1. <<>> \in Seq(0 .. BufferSize) /\ 0 \in 0 .. MaxSize
  BY IoLoopsAssumption
<1>2. ClientTypeOK
  <2>1. IoTypeOK({"setBlocking", "clientWrite", "setNonBlocking", "clientRead"})
    BY <1>1 DEF ClientInit, Init, IoTypeOK
  <2> QED
    BY Zenon, <1>1, <2>1 DEF ClientInit, ClientTypeOK
<1> QED
  BY <1>2 DEF ClientInit, Init, CallInv

-----------------------------------------------------------------------------
(* Theorems about the calls *)

\* The steps of a transfer are steps of a client.
LEMMA TransferIsClient ==
    ASSUME [TransferNext]_TransferVars
    PROVE  [ClientNext]_<<vars, clientVars>>
  BY DEF TransferNext, TransferVars, TransferConnect, TransferRead, ClientNext

\* The invariant holds throughout a transfer.
LEMMA CallInvariance ==
    TransferSpec => []CallInv
<1>1. TransferInit => CallInv
  BY CallInvInit DEF TransferInit
<1>2. CallInv /\ [TransferNext]_TransferVars => CallInv'
  BY CallInvStep, TransferIsClient
<1> QED
  BY <1>1, <1>2, PTL DEF TransferSpec

\* The variables of a call and of the socket have their types: counts do not go
\* negative, and data_size never exceeds what was to be written.
THEOREM TransferTypeCorrect ==
    TransferSpec => []ClientTypeOK
<1>1. CallInv => ClientTypeOK
  BY DEF CallInv
<1> QED
  BY <1>1, CallInvariance, PTL

\* A step that leaves a function is a step of that function.
LEMMA LeavingStep ==
    ASSUME [TransferNext]_TransferVars, op # "none", op' # op
    PROVE  /\ op = "write" => WriteSyscall
           /\ op = "read" => ReadSyscall
           /\ op = "read_one_buffer" => ReadOneBuffer
           /\ op = "read_one_buffer_t" => ReadOneBufferT
           /\ op = "clientWrite" => WriteInvalid \/ ClientWriteSyscall
           /\ op = "setNonBlocking" => SetNonBlockingFails \/ SetNonBlocking
  BY Zenon, TransferIsClient
     DEF ClientNext, Next, Write, Read, Call, WriteSyscall, ReadSyscall, ReadOneBuffer,
         ReadOneBufferT, UnixConnect, TcpConnect, Opens, Close, PeerCloses, ClientWrite,
         SetBlockingFails, SetBlocking, WriteInvalid, ClientWriteSyscall,
         SetNonBlockingFails, SetNonBlocking, ClientRead, ClientReadSyscall, vars

\* IGenericServer::write() returns the bytes the kernel took, over any number of
\* partial ::write calls.
THEOREM WriteCount ==
    TransferSpec => WriteCountExact
<1>1. ASSUME CallInv, [TransferNext]_TransferVars
      PROVE  [Returns("write") =>
                /\ errno' # "ERR" => Bytes(retval') = moved'
                /\ retval' # -1 => retval' = moved']_vars
  <2> SUFFICES ASSUME Returns("write")
               PROVE  /\ errno' # "ERR" => Bytes(retval') = moved'
                      /\ retval' # -1 => retval' = moved'
    BY DEF vars
  <2>1. WriteSyscall
    BY <1>1, LeavingStep DEF Returns
  <2>2. PICK r \in Syscall(data_size, IF data_size = 0 THEN 0 ELSE 1) :
           LET again == r.c > 0 /\ r.c < data_size
               p == pcount + Bytes(r.c)
           IN  /\ op' = IF again THEN "write" ELSE "none"
               /\ retval' = IF again THEN retval ELSE WriteResult(r.c, r.errno, p)
               /\ errno' = r.errno
               /\ moved' = moved + Bytes(r.c)
    BY <2>1 DEF WriteSyscall
  <2>3. /\ data_size \in Nat /\ (IF data_size = 0 THEN 0 ELSE 1) \in {0, 1}
        /\ pcount = moved /\ pcount \in Nat
    BY <1>1, <2>1, IoLoopsAssumption DEF CallInv, ClientTypeOK, IoTypeOK, WriteSyscall
  <2>4. /\ r.c \in Int /\ Bytes(r.c) \in 0 .. data_size
        /\ r.errno \in {"OK", "EAGAIN", "ERR"} /\ (r.c = -1 <=> r.errno # "OK")
        /\ r.c = -1 => Bytes(r.c) = 0
    BY <2>3, SyscallReturns DEF Bytes
  <2>5. retval' = WriteResult(r.c, r.errno, moved')
    BY <2>2, <2>3 DEF Returns
  <2>6. moved' \in Nat /\ (r.c = -1 => moved' = pcount)
    BY <2>2, <2>3, <2>4
  <2> QED
    BY <2>2, <2>4, <2>5, <2>6 DEF WriteResult, Bytes
<1> QED
  BY <1>1, CallInvariance, PTL DEF TransferSpec, WriteCountExact

\* The reads of a server return the bytes the kernel gave: read() and
\* read_one_buffer() all of them, also those before a failed ::read, and
\* read_one_buffer_t() all but a part of one element.
THEOREM ReadBytes ==
    TransferSpec => ReadKeepsBytes
<1>1. ASSUME CallInv, [TransferNext]_TransferVars, Returns("read")
      PROVE  /\ errno' # "ERR" => Total(result') = moved' /\ 0 \notin Range(result')
             /\ errno' = "ERR" => Total(SubSeq(result', 1, Len(result') - 1)) = moved'
  <2>1. ReadSyscall
    BY <1>1, LeavingStep DEF Returns
  <2>2. PICK r \in Syscall(BufferSize, 0) :
           /\ result' = result \o BufferKept(r)
           /\ ~(r.c > 0)
           /\ errno' = r.errno
           /\ moved' = moved + Bytes(r.c)
    BY <1>1, <2>1 DEF ReadSyscall, Returns
  <2>3. /\ result \in Seq(0 .. BufferSize) /\ moved \in Nat
        /\ Total(result) = moved /\ 0 \notin Range(result)
    BY <1>1, <2>1 DEF CallInv, ClientTypeOK, IoTypeOK, ReadSyscall
  <2>4. Bytes(r.c) = 0
    BY <2>2, IoLoopsAssumption, SyscallReturns DEF Bytes
  <2>5. moved' = moved
    BY <2>2, <2>3, <2>4
  <2>6. CASE r.errno = "ERR"
    <3>1. result' = result \o <<BufferSize>>
      BY <2>2, <2>6 DEF BufferKept
    <3>2. SubSeq(result \o <<BufferSize>>, 1, Len(result \o <<BufferSize>>) - 1) = result
      BY <2>3, IoLoopsAssumption
    <3> QED
      BY Zenon, <2>2, <2>3, <2>5, <2>6, <3>1, <3>2
  <2>7. CASE r.errno # "ERR"
    <3>1. result' = result
      BY <2>2, <2>3, <2>7 DEF BufferKept
    <3> QED
      BY <2>2, <2>3, <2>5, <2>7, <3>1
  <2> QED
    BY <2>6, <2>7
<1>2. ASSUME CallInv, [TransferNext]_TransferVars, Returns("read_one_buffer")
      PROVE  Total(result') = moved'
  <2>1. ReadOneBuffer
    BY <1>2, LeavingStep DEF Returns
  <2>2. PICK r \in Syscall(BufferSize, 0) : result' = <<Bytes(r.c)>> /\ moved' = Bytes(r.c)
    BY <2>1 DEF ReadOneBuffer
  <2>3. Bytes(r.c) \in 0 .. BufferSize
    BY IoLoopsAssumption, SyscallReturns
  <2>4. Bytes(r.c) \in Nat
    BY <2>3
  <2> QED
    BY <2>2, <2>4, TotalOne
<1>3. ASSUME CallInv, [TransferNext]_TransferVars, Returns("read_one_buffer_t")
      PROVE  moved' - Total(result') * SizeofN \in 0 .. SizeofN - 1
  <2>1. ReadOneBufferT
    BY <1>3, LeavingStep DEF Returns
  <2>2. PICK r \in Syscall(BufferSize * SizeofN, 0) :
           result' = <<Bytes(r.c) \div SizeofN>> /\ moved' = Bytes(r.c)
    BY <2>1 DEF ReadOneBufferT
  <2>3. BufferSize * SizeofN \in Nat
    BY IoLoopsAssumption
  <2>4. Bytes(r.c) \in 0 .. BufferSize * SizeofN
    BY <2>3, SyscallReturns
  <2>5. Bytes(r.c) \in Nat
    BY <2>4
  <2>6. Total(result') = Bytes(r.c) \div SizeofN
    BY <2>2, <2>5, TotalOne, WholeElements, IoLoopsAssumption
  <2> QED
    BY Zenon, <2>2, <2>5, <2>6, WholeElements, IoLoopsAssumption
<1>4. ASSUME CallInv, [TransferNext]_TransferVars
      PROVE  [/\ Returns("read") =>
                   /\ errno' # "ERR" => Total(result') = moved' /\ 0 \notin Range(result')
                   /\ errno' = "ERR" => Total(SubSeq(result', 1, Len(result') - 1)) = moved'
              /\ Returns("read_one_buffer") => Total(result') = moved'
              /\ Returns("read_one_buffer_t") =>
                   moved' - Total(result') * SizeofN \in 0 .. SizeofN - 1]_vars
  BY Zenon, <1>1, <1>2, <1>3, <1>4
<1> QED
  BY <1>4, CallInvariance, PTL DEF TransferSpec, ReadKeepsBytes

\* A client's write() of more than BlockingThreshold bytes is not cut short by a
\* full send buffer: UnixSocketClient::write makes its socket block first, and no
\* other socket of a client is non blocking.
THEOREM LargeWrite ==
    TransferSpec => LargeWriteIsWhole
<1>1. ASSUME CallInv, [TransferNext]_TransferVars,
             op = "clientWrite", op' # op, size > BlockingThreshold
      PROVE  errno' # "EAGAIN" /\ (errno' = "OK" => moved' = size)
  <2>1. ~O_NONBLOCK
    BY <1>1 DEF CallInv, Switches
  <2>2. CASE WriteInvalid
    BY <2>2 DEF WriteInvalid
  <2>3. CASE ClientWriteSyscall
    <3>1. PICK r \in WriteReturns(data_size) :
             LET again == r.c > 0 /\ r.c < data_size
             IN  /\ moved' = moved + Bytes(r.c)
                 /\ errno' = r.errno
                 /\ op' = IF again THEN op ELSE Finish
      BY <2>3 DEF ClientWriteSyscall
    <3>2. /\ data_size \in Nat /\ (IF data_size = 0 THEN 0 ELSE 1) \in {0, 1}
          /\ pcount = moved /\ pcount \in Nat /\ pcount + data_size = size
      BY <1>1, IoLoopsAssumption DEF CallInv, ClientTypeOK, IoTypeOK
    <3>3. /\ r \in Syscall(data_size, IF data_size = 0 THEN 0 ELSE 1)
          /\ r.errno = "EAGAIN" => O_NONBLOCK
      BY DEF WriteReturns
    <3>4. /\ r.c = -1 \/ r.c \in (IF data_size = 0 THEN 0 ELSE 1) .. data_size
          /\ r.c = -1 <=> r.errno # "OK"
      BY <3>2, <3>3, SyscallReturns
    <3>5. ~(r.c > 0 /\ r.c < data_size)
      BY <1>1, <3>1
    <3>6. r.errno = "OK" => Bytes(r.c) = data_size
      BY <3>2, <3>4, <3>5 DEF Bytes
    <3> QED
      BY <2>1, <3>1, <3>2, <3>3, <3>6
  <2> QED
    BY <1>1, <2>2, <2>3, LeavingStep
<1>2. ASSUME CallInv, [TransferNext]_TransferVars
      PROVE  [op = "clientWrite" /\ op' # op /\ size > BlockingThreshold =>
                /\ errno' # "EAGAIN"
                /\ errno' = "OK" => moved' = size]_<<vars, clientVars>>
  BY Zenon, <1>1, <1>2
<1> QED
  BY <1>2, CallInvariance, PTL DEF TransferSpec, LargeWriteIsWhole

\* A client's write() never claims more than was sent, over its partial ::write
\* calls and also through the fcntl that ends a switching one.
THEOREM CountBounded ==
    TransferSpec => CountNeverOverstates
<1>1. ASSUME CallInv, [TransferNext]_TransferVars, WriteDone
      PROVE  retval' <= moved' /\ (retval' = -1 /\ errno' = "EAGAIN" => moved' = 0)
  <2>1. CASE op = "setNonBlocking"
    <3>1. SetNonBlockingFails \/ SetNonBlocking
      BY <1>1, <2>1, LeavingStep DEF WriteDone
    <3>2. CASE SetNonBlocking
      BY <1>1, <2>1, <3>2 DEF CallInv, SetNonBlocking, callVars
    <3>3. CASE SetNonBlockingFails
      BY <1>1, <3>3 DEF CallInv, ClientTypeOK, IoTypeOK, SetNonBlockingFails
    <3> QED
      BY <3>1, <3>2, <3>3
  <2>2. CASE WriteInvalid
    BY <1>1, <2>2 DEF WriteInvalid, CallInv, ClientTypeOK, IoTypeOK
  <2>3. CASE ClientWriteSyscall
    <3>1. PICK r \in WriteReturns(data_size) :
             /\ moved' = moved + Bytes(r.c)
             /\ errno' = r.errno
             /\ op' = IF r.c > 0 /\ r.c < data_size THEN op ELSE Finish
             /\ retval' = IF r.c > 0 /\ r.c < data_size THEN retval ELSE ClientWriteResult(r)
      BY <2>3 DEF ClientWriteSyscall
    <3>2. op = "clientWrite"
      BY <2>3 DEF ClientWriteSyscall
    <3>3. retval' = ClientWriteResult(r)
      BY <1>1, <3>1, <3>2 DEF WriteDone
    <3> QED
      BY Zenon, <1>1, <3>1, <3>2, <3>3, ResultBounded
  <2> QED
    BY <1>1, <2>1, <2>2, <2>3, LeavingStep DEF WriteDone
<1>2. ASSUME CallInv, [TransferNext]_TransferVars
      PROVE  [WriteDone =>
                /\ retval' <= moved'
                /\ retval' = -1 /\ errno' = "EAGAIN" => moved' = 0]_<<vars, clientVars>>
  BY Zenon, <1>1, <1>2
<1> QED
  BY <1>2, CallInvariance, PTL DEF TransferSpec, CountNeverOverstates

-----------------------------------------------------------------------------
(* Theorems about the checksum of a stream *)

\* A checksum is a uint16_t.
LEMMA UpdateStringType ==
    ASSUME NEW crc \in uint16_t, NEW s \in Seq(Byte)
    PROVE  update_crc_16(crc, s) \in uint16_t
<1>1. CrcRounds(crc, s) \in [0 .. Len(s) -> uint16_t] /\ Len(s) \in 0 .. Len(s)
  BY CrcRoundsDef
<1> QED
  BY <1>1 DEF update_crc_16

\* update_crc_16() of one character is the table step.
LEMMA OneByte ==
    ASSUME NEW crc \in uint16_t, NEW b \in Byte
    PROVE  update_crc_16(crc, <<b>>) = update_crc_16_byte(crc, b)
<1> DEFINE s == <<b>>
<1>1. s \in Seq(Byte) /\ Len(s) = 1 /\ s[1] = b
  OBVIOUS
<1> HIDE DEF s
<1>2. /\ CrcRounds(crc, s)[0] = crc
      /\ \A i \in 1 .. Len(s) :
            CrcRounds(crc, s)[i] = update_crc_16_byte(CrcRounds(crc, s)[i - 1], s[i])
  BY Zenon, <1>1, CrcRoundsDef
<1>3. CrcRounds(crc, s)[1] = update_crc_16_byte(CrcRounds(crc, s)[1 - 1], s[1])
  BY <1>1, <1>2
<1>4. CrcRounds(crc, s)[1] = update_crc_16_byte(crc, b)
  BY <1>1, <1>2, <1>3
<1> QED
  BY <1>1, <1>4 DEF update_crc_16, s

\* A part of the stream and the part after it.
LEMMA Pieces ==
    ASSUME NEW s \in Seq(Byte), NEW t \in 0 .. Len(s), NEW n \in Nat, t + n <= Len(s)
    PROVE  /\ SubSeq(s, 1, t) \in Seq(Byte) /\ SubSeq(s, t + 1, t + n) \in Seq(Byte)
           /\ SubSeq(s, 1, t) \o SubSeq(s, t + 1, t + n) = SubSeq(s, 1, t + n)
  OBVIOUS

\* The stream received and its running checksum.
StreamInv ==
    /\ total_bytes_received \in 0 .. Len(Data)
    /\ clientCrc2 = crc_16(SubSeq(Data, 1, total_bytes_received))

\* The running checksum is the one of the bytes received.
LEMMA StreamInvariance ==
    TransferSpec => []StreamInv
<1>1. CRC_START_16 = crc_16(SubSeq(Data, 1, 0))
  <2>1. <<>> \in Seq(Byte) /\ Len(<<>>) = 0 /\ SubSeq(Data, 1, 0) = <<>>
    BY TransferAssumption
  <2>2. CRC_START_16 \in uint16_t
    BY DEF CRC_START_16, uint16_t
  <2>3. CrcRounds(CRC_START_16, <<>>)[0] = CRC_START_16
    BY Zenon, <2>1, <2>2, CrcRoundsDef
  <2> QED
    BY Zenon, <2>1, <2>3 DEF crc_16, update_crc_16
<1>2. 0 \in 0 .. Len(Data)
  BY TransferAssumption
<1>3. TransferInit => StreamInv
  BY <1>1, <1>2 DEF TransferInit, StreamInv
<1>4. ASSUME CallInv, StreamInv, TransferRead PROVE StreamInv'
  <2> DEFINE t == total_bytes_received
             n == Bytes(retval')
             s == SubSeq(Data, 1, t)
             u == SubSeq(Data, t + 1, t + n)
  <2>1. n \in Nat
    <3>1. PICK r \in Syscall(BufferSize, 0) : retval' = r.c
      BY <1>4 DEF TransferRead, ClientReadSyscall, ReadReturns
    <3>2. Bytes(r.c) \in 0 .. BufferSize
      BY IoLoopsAssumption, SyscallReturns
    <3> QED
      BY <3>1, <3>2
  <2>2. t \in 0 .. Len(Data) /\ t + n <= Len(Data) /\ t' = t + n
    BY <1>4 DEF StreamInv, TransferRead
  <2>3. s \in Seq(Byte) /\ u \in Seq(Byte) /\ s \o u = SubSeq(Data, 1, t + n)
    BY Zenon, <2>1, <2>2, Pieces, TransferAssumption
  <2>4. clientCrc2 = update_crc_16(CRC_START_16, s) /\ clientCrc2' = update_crc_16(clientCrc2, u)
    BY <1>4 DEF StreamInv, TransferRead, Received, crc_16
  <2>5. CRC_START_16 \in uint16_t
    BY DEF CRC_START_16, uint16_t
  <2> HIDE DEF s, u, n
  <2>6. clientCrc2' = update_crc_16(CRC_START_16, s \o u)
    BY Zenon, <2>3, <2>4, <2>5, Chunks
  <2>7. t' \in 0 .. Len(Data)
    BY <2>1, <2>2, TransferAssumption
  <2> QED
    BY <2>2, <2>3, <2>6, <2>7 DEF StreamInv, crc_16
<1>5. ASSUME CallInv, StreamInv, [TransferNext]_TransferVars PROVE StreamInv'
  <2>1. CASE TransferConnect
    BY <2>1, <1>1, <1>2 DEF TransferConnect, StreamInv
  <2>2. CASE UNCHANGED crcVars
    BY <1>5, <2>2 DEF crcVars, StreamInv
  <2> QED
    BY <1>4, <1>5, <2>1, <2>2 DEF TransferNext, TransferVars
<1> QED
  BY <1>3, <1>5, CallInvariance, PTL DEF TransferSpec

\* However the stream is cut, the running checksum of the tests' loop is crc_16()
\* of all of it and the CRC of the definition, and so is crc_modbus().
THEOREM ChunkedCorrect ==
    TransferSpec => []ChunkedChecksum
<1>1. ASSUME StreamInv PROVE ChunkedChecksum
  <2> DEFINE s == SubSeq(Data, 1, total_bytes_received)
  <2>1. s \in Seq(Byte)
    BY <1>1, TransferAssumption DEF StreamInv
  <2>2. CRC_START_16 \in uint16_t /\ CRC_START_MODBUS \in uint16_t
    BY DEF CRC_START_16, CRC_START_MODBUS, uint16_t
  <2>3. clientCrc2 = crc_16(s)
    BY <1>1 DEF StreamInv
  <2> HIDE DEF s
  <2>4. crc_16(s) = Checksum(CRC_START_16, s) /\ crc_modbus(s) = Checksum(CRC_START_MODBUS, s)
    BY Zenon, <2>1, <2>2, ChecksumCorrect DEF crc_16, crc_modbus
  <2> QED
    BY <2>3, <2>4 DEF ChunkedChecksum, s
<1> QED
  BY <1>1, StreamInvariance, PTL

\* Whichever byte comes next, of all 256, update_crc_16() of that one character
\* takes the running checksum to the CRC of the longer stream.
THEOREM NextByteCorrect ==
    /\ TransferSpec => []NextByteChecksum
    /\ TransferSpec =>
         [](\A b \in Byte : update_crc_16_byte(clientCrc2, b) =
                Checksum(CRC_START_16, Append(SubSeq(Data, 1, total_bytes_received), b)))
<1> DEFINE AnyByte == \A b \in Byte : update_crc_16_byte(clientCrc2, b) =
                Checksum(CRC_START_16, Append(SubSeq(Data, 1, total_bytes_received), b))
<1>1. ASSUME StreamInv PROVE AnyByte
  <2> SUFFICES ASSUME NEW b \in Byte
               PROVE  update_crc_16_byte(clientCrc2, b) =
                        Checksum(CRC_START_16, Append(SubSeq(Data, 1, total_bytes_received), b))
    OBVIOUS
  <2> DEFINE s == SubSeq(Data, 1, total_bytes_received)
             u == <<b>>
  <2>1. s \in Seq(Byte)
    BY <1>1, TransferAssumption DEF StreamInv
  <2>2. u \in Seq(Byte)
    OBVIOUS
  <2>3. CRC_START_16 \in uint16_t
    BY DEF CRC_START_16, uint16_t
  <2>4. clientCrc2 = update_crc_16(CRC_START_16, s)
    BY <1>1 DEF StreamInv, crc_16
  <2> HIDE DEF s
  <2>5. s \o u \in Seq(Byte) /\ s \o u = Append(s, b)
    <3>1. s \o u = Append(s, b)
      BY <2>1
    <3> QED
      BY <2>1, <2>2, <3>1
  <2>6. clientCrc2 \in uint16_t
    BY Zenon, <2>1, <2>3, <2>4, UpdateStringType
  <2>7. update_crc_16_byte(clientCrc2, b) = update_crc_16(clientCrc2, u)
    BY Zenon, <2>6, OneByte
  <2> HIDE DEF u
  <2>8. update_crc_16(clientCrc2, u) = update_crc_16(CRC_START_16, s \o u)
    BY Zenon, <2>1, <2>2, <2>3, <2>4, Chunks
  <2>9. update_crc_16(CRC_START_16, s \o u) = Checksum(CRC_START_16, s \o u)
    BY Zenon, <2>3, <2>5, ChecksumCorrect
  <2> QED
    BY Zenon, <2>5, <2>7, <2>8, <2>9 DEF s
<1>2. AnyByte => NextByteChecksum
  BY DEF NextByteChecksum, Byte
<1> QED
  BY <1>1, <1>2, StreamInvariance, PTL

=============================================================================
