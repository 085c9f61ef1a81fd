----------------------------- MODULE DataLemmas ------------------------------
(***************************************************************************)
(* Facts about data that the proofs share.  Induction over the natural     *)
(* numbers is stated for sets instead of predicates.  From it follow that  *)
(* a loop has values, which recursive functions need, and what holds of    *)
(* them.  The queues need what Append and Tail do to the elements of a     *)
(* sequence and to their order.                                            *)
(***************************************************************************)
EXTENDS Integers, Sequences, Functions, WellFoundedInduction, TLAPS

(* A set with 0 and the successor of each of its numbers has them all: the *)
(* least number outside would have a predecessor inside.                   *)
LEMMA NatSetInduction ==
  ASSUME NEW S, 0 \in S, \A n \in Nat : n \in S => n + 1 \in S
  PROVE  Nat \subseteq S
<1> DEFINE R == {p \in Nat \X Nat : p[1] < p[2]}
           T == Nat \ S
<1>1. IsWellFoundedOn(R, Nat)
  BY NatLessThanWellFounded DEF OpToRel
<1>2. SUFFICES ASSUME T # {} PROVE FALSE
  OBVIOUS
<1>3. PICK x \in T : \A y \in T : ~ (<<y, x>> \in R)
  <2>1. T \subseteq Nat
    OBVIOUS
  <2> HIDE DEF R, T
  <2> QED
    BY <1>1, <1>2, <2>1, WFMin
<1>4. x # 0 /\ x \in Nat /\ x - 1 \in Nat
  OBVIOUS
<1>5. <<x - 1, x>> \in R
  BY <1>4
<1>6. x - 1 \in S
  BY <1>3, <1>4, <1>5
<1> QED
  BY <1>4, <1>6

(* Some number is the least, which CHOOSE finds.                           *)
LEMMA LeastOf ==
  ASSUME NEW S, S \subseteq Nat, S # {}
  PROVE  \E x \in S : \A y \in S : x <= y
<1> DEFINE R == {p \in Nat \X Nat : p[1] < p[2]}
<1>1. IsWellFoundedOn(R, Nat)
  BY NatLessThanWellFounded DEF OpToRel
<1>2. PICK x \in S : \A y \in S : ~ (<<y, x>> \in R)
  <2> HIDE DEF R
  <2> QED
    BY <1>1, WFMin
<1>3. ASSUME NEW y \in S
      PROVE  x <= y
  <2>1. <<y, x>> \notin R
    BY <1>2
  <2> QED
    BY <2>1
<1> QED
  BY <1>3

(* What holds of the first value of a loop, and of each if it does of the  *)
(* one before, holds of all.                                               *)
LEMMA LoopInduction ==
  ASSUME NEW N \in Nat, NEW f, NEW S, f[0] \in S,
         \A n \in 1 .. N : f[n - 1] \in S => f[n] \in S
  PROVE  \A n \in 0 .. N : f[n] \in S
<1> DEFINE T == {n \in Nat : n <= N => f[n] \in S}
<1>1. 0 \in T
  OBVIOUS
<1>2. ASSUME NEW n \in Nat, n \in T
      PROVE  n + 1 \in T
  <2>1. n + 1 <= N => n + 1 \in 1 .. N /\ (n + 1) - 1 = n /\ f[n] \in S
    BY <1>2
  <2> QED
    BY <2>1
<1>3. Nat \subseteq T
  <2> HIDE DEF T
  <2> QED
    BY <1>1, <1>2, NatSetInduction
<1> QED
  BY <1>3

(* A loop that steps from each value to the next, within a set: step[n] is *)
(* its n-th turn.                                                          *)
IsLoop(f, N, S, first, step) ==
  /\ f \in [0 .. N -> S]
  /\ f[0] = first
  /\ \A n \in 1 .. N : f[n] = step[n][f[n - 1]]

LEMMA LoopExists ==
  ASSUME NEW N \in Nat, NEW S, NEW first \in S, NEW step \in [1 .. N -> [S -> S]]
  PROVE  \E f : IsLoop(f, N, S, first, step)
<1> DEFINE Runs == {m \in Nat : m <= N => \E f : IsLoop(f, m, S, first, step)}
<1>1. 0 \in Runs
  <2> DEFINE f == [n \in 0 .. 0 |-> first]
  <2>1. IsLoop(f, 0, S, first, step)
    BY DEF IsLoop
  <2> QED
    BY <2>1
<1>2. ASSUME NEW m \in Nat, m \in Runs, m + 1 <= N
      PROVE  m + 1 \in Runs
  <2>1. PICK f : IsLoop(f, m, S, first, step)
    BY <1>2
  <2>2. f \in [0 .. m -> S] /\ step[m + 1] \in [S -> S]
    BY <1>2, <2>1 DEF IsLoop
  <2> DEFINE g == [n \in 0 .. m + 1 |-> IF n = m + 1 THEN step[n][f[m]] ELSE f[n]]
  <2>3. g \in [0 .. m + 1 -> S] /\ g[0] = first
    BY <2>1, <2>2 DEF IsLoop
  <2>4. ASSUME NEW n \in 1 .. m + 1
        PROVE  g[n] = step[n][g[n - 1]]
    <3>1. CASE n = m + 1
      BY <3>1
    <3>2. CASE n # m + 1
      <4>1. n \in 1 .. m /\ g[n] = f[n] /\ g[n - 1] = f[n - 1]
        BY <3>2
      <4> QED
        BY <2>1, <4>1 DEF IsLoop
    <3> QED
      BY <3>1, <3>2
  <2> HIDE DEF g
  <2>5. IsLoop(g, m + 1, S, first, step)
    BY <2>3, <2>4 DEF IsLoop
  <2> QED
    BY <2>5
<1>3. ASSUME NEW m \in Nat, m \in Runs
      PROVE  m + 1 \in Runs
  BY <1>2, <1>3
<1>4. Nat \subseteq Runs
  <2> HIDE DEF Runs
  <2> QED
    BY <1>1, <1>3, NatSetInduction
<1> QED
  BY <1>4

-----------------------------------------------------------------------------
(* What Append does to the elements of a sequence (EndPush, Receive).      *)
LEMMA AppendElements ==
  ASSUME NEW S, NEW s \in Seq(S), NEW x \in S
  PROVE  /\ Append(s, x) \in Seq(S)
         /\ Range(Append(s, x)) = Range(s) \cup {x}
         /\ IsInjective(s) /\ x \notin Range(s) => IsInjective(Append(s, x))
<1> DEFINE t == Append(s, x)
<1>1. /\ t \in Seq(S) /\ Len(t) = Len(s) + 1 /\ Len(s) \in Nat
      /\ DOMAIN s = 1 .. Len(s) /\ DOMAIN t = 1 .. Len(s) + 1
      /\ \A n \in 1 .. Len(s) : t[n] = s[n]
      /\ t[Len(s) + 1] = x
  OBVIOUS
<1>2. DOMAIN t = DOMAIN s \cup {Len(s) + 1} /\ Len(s) + 1 \notin DOMAIN s
  BY <1>1
<1> HIDE DEF t
<1>3. Range(t) = Range(s) \cup {x}
  BY <1>1, <1>2 DEF Range
<1>4. ASSUME IsInjective(s), x \notin Range(s)
      PROVE  IsInjective(t)
  BY <1>1, <1>2, <1>4 DEF IsInjective, Range
<1> QED
  BY <1>1, <1>3, <1>4 DEF t

(* What Tail does to the elements of a sequence (Pop).                     *)
LEMMA TailRange ==
  ASSUME NEW S, NEW s \in Seq(S), s # <<>>
  PROVE  /\ Tail(s) \in Seq(S)
         /\ Head(s) \in Range(s) /\ Head(s) \in S
         /\ Range(Tail(s)) \subseteq Range(s)
<1> DEFINE t == Tail(s)
<1>1. /\ t \in Seq(S) /\ Len(s) \in Nat \ {0} /\ Len(t) = Len(s) - 1
      /\ DOMAIN s = 1 .. Len(s) /\ DOMAIN t = 1 .. Len(s) - 1
      /\ \A n \in DOMAIN t : t[n] = s[n + 1]
      /\ Head(s) = s[1] /\ Head(s) \in S
  OBVIOUS
<1> HIDE DEF t
<1>2. \A n \in DOMAIN t : n + 1 \in DOMAIN s
  BY <1>1
<1> QED
  BY <1>1, <1>2 DEF Range, t

(* Of one without repetitions it takes away the first.                     *)
LEMMA TailElements ==
  ASSUME NEW S, NEW s \in Seq(S), s # <<>>, IsInjective(s)
  PROVE  /\ Tail(s) \in Seq(S)
         /\ Head(s) \in Range(s)
         /\ Range(Tail(s)) = Range(s) \ {Head(s)}
         /\ IsInjective(Tail(s))
<1> DEFINE t == Tail(s)
<1>1. /\ t \in Seq(S) /\ Len(s) \in Nat \ {0} /\ Len(t) = Len(s) - 1
      /\ DOMAIN s = 1 .. Len(s) /\ DOMAIN t = 1 .. Len(s) - 1
      /\ \A n \in DOMAIN t : t[n] = s[n + 1]
      /\ Head(s) = s[1]
  OBVIOUS
<1> HIDE DEF t
<1>2. Head(s) \in Range(s)
  BY <1>1 DEF Range
<1>3. \A n \in DOMAIN t : n + 1 \in DOMAIN s /\ n + 1 # 1
  BY <1>1
<1>4. \A n \in DOMAIN s : n # 1 => n - 1 \in DOMAIN t /\ (n - 1) + 1 = n
  BY <1>1
<1>5. \A n \in DOMAIN s : s[n] = s[1] => n = 1
  BY <1>1 DEF IsInjective
<1>6. Range(t) \subseteq Range(s) \ {s[1]}
  BY <1>1, <1>3, <1>5 DEF Range
<1>7. Range(s) \ {s[1]} \subseteq Range(t)
  <2>1. SUFFICES ASSUME NEW n \in DOMAIN s, s[n] # s[1]
                 PROVE  s[n] \in Range(t)
    BY DEF Range
  <2>2. n - 1 \in DOMAIN t /\ t[n - 1] = s[n]
    BY <1>1, <1>4, <2>1
  <2> QED
    BY <2>2 DEF Range
<1>8. IsInjective(t)
  <2>1. SUFFICES ASSUME NEW m \in DOMAIN t, NEW n \in DOMAIN t, t[m] = t[n]
                 PROVE  m = n
    BY DEF IsInjective
  <2>2. m + 1 = n + 1
    BY <1>1, <1>3, <2>1 DEF IsInjective
  <2> QED
    BY <1>1, <2>2
<1> QED
  BY <1>1, <1>2, <1>6, <1>7, <1>8 DEF t
-----------------------------------------------------------------------------
(* Order within a sequence of items, given what was ahead of each when its *)
(* push began (ah), what is late (lt), and what need not be in the sequence*)
(* any more (done).                                                        *)
Before(s, n, x) == \E m \in 1 .. n - 1 : s[m] = x

InOrder(s, done, ah, lt) ==
  \A n \in DOMAIN s : \A x \in ah[s[n]] \ lt : x \in done \/ Before(s, n, x)

LEMMA InOrderStill ==
  ASSUME NEW s, NEW done, NEW ah, NEW lt, InOrder(s, done, ah, lt),
         NEW more, NEW ah2, NEW lt2, done \subseteq more, lt \subseteq lt2,
         \A n \in DOMAIN s : ah2[s[n]] = ah[s[n]]
  PROVE  InOrder(s, more, ah2, lt2)
  BY DEF InOrder

(* An item may be appended when all that was ahead of it is done or there. *)
LEMMA AppendInOrder ==
  ASSUME NEW S, NEW s \in Seq(S), NEW y \in S, NEW done, NEW ah, NEW lt,
         InOrder(s, done, ah, lt),
         \A x \in ah[y] \ lt : x \in done \/ x \in Range(s)
  PROVE  InOrder(Append(s, y), done, ah, lt)
<1> DEFINE t == Append(s, y)
<1>1. /\ Len(s) \in Nat /\ DOMAIN s = 1 .. Len(s) /\ DOMAIN t = 1 .. Len(s) + 1
      /\ \A n \in 1 .. Len(s) : t[n] = s[n]
      /\ t[Len(s) + 1] = y
  OBVIOUS
<1> HIDE DEF t
<1>2. SUFFICES ASSUME NEW n \in DOMAIN t, NEW x \in ah[t[n]] \ lt, x \notin done
               PROVE  Before(t, n, x)
  BY DEF InOrder, t
<1>3. CASE n \in DOMAIN s
  <2>1. PICK m \in 1 .. n - 1 : s[m] = x
    BY <1>1, <1>2, <1>3 DEF InOrder, Before
  <2>2. t[m] = x
    BY <1>1, <1>3, <2>1
  <2> QED
    BY <2>2 DEF Before
<1>4. CASE n \notin DOMAIN s
  <2>1. n = Len(s) + 1 /\ x \in Range(s)
    BY <1>1, <1>2, <1>4
  <2>2. PICK m \in 1 .. Len(s) : s[m] = x
    BY <1>1, <2>1 DEF Range
  <2>3. m \in 1 .. n - 1 /\ t[m] = x
    BY <1>1, <2>1, <2>2
  <2> QED
    BY <2>3 DEF Before
<1> QED
  BY <1>3, <1>4

(* All that was ahead of the first item is done, and once that item is     *)
(* done too the rest is in order.                                          *)
LEMMA TailInOrder ==
  ASSUME NEW S, NEW s \in Seq(S), s # <<>>, NEW done, NEW ah, NEW lt,
         InOrder(s, done, ah, lt)
  PROVE  /\ \A x \in ah[Head(s)] \ lt : x \in done
         /\ InOrder(Tail(s), done \cup {Head(s)}, ah, lt)
<1> DEFINE t == Tail(s)
<1>1. /\ Len(s) \in Nat \ {0} /\ DOMAIN s = 1 .. Len(s) /\ DOMAIN t = 1 .. Len(s) - 1
      /\ \A n \in DOMAIN t : t[n] = s[n + 1]
      /\ Head(s) = s[1]
  OBVIOUS
<1> HIDE DEF t
<1>2. \A x \in ah[Head(s)] \ lt : x \in done
  BY <1>1 DEF InOrder, Before
<1>3. ASSUME NEW n \in DOMAIN t, NEW x \in ah[t[n]] \ lt, x \notin done, x # Head(s)
      PROVE  Before(t, n, x)
  <2>1. n + 1 \in DOMAIN s /\ t[n] = s[n + 1]
    BY <1>1
  <2>2. PICK m \in 1 .. (n + 1) - 1 : s[m] = x
    BY <1>3, <2>1 DEF InOrder, Before
  <2>3. m # 1
    BY <1>1, <1>3, <2>2
  <2>4. m - 1 \in 1 .. n - 1 /\ m - 1 \in DOMAIN t /\ (m - 1) + 1 = m
    BY <1>1, <2>2, <2>3
  <2>5. t[m - 1] = x
    BY <1>1, <2>2, <2>4
  <2> QED
    BY <2>4, <2>5 DEF Before
<1> QED
  BY <1>2, <1>3 DEF InOrder, t

(* What is done may be excused instead, and the other way round.           *)
LEMMA InOrderAnyway ==
  ASSUME NEW s, NEW done, NEW ah, NEW lt, InOrder(s, done, ah, lt),
         NEW more, NEW lt2, done \cup lt \subseteq more \cup lt2
  PROVE  InOrder(s, more, ah, lt2)
  BY DEF InOrder
=============================================================================
