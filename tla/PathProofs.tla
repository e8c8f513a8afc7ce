------------------------------ MODULE PathProofs ------------------------------
(***************************************************************************)
(* Paths: a sequence of updates that leads from one place to another, one  *)
(* update at a time.  Steps holds the <<place, update, place>> an update   *)
(* may lead from and to.  The proofs about a delivery use a path for what  *)
(* is under way: where the reader is, after each update, up to where the   *)
(* sender is.                                                              *)
(***************************************************************************)
EXTENDS Integers, Sequences, WellFoundedInduction, TLAPS

Connects(Steps, Places, p, w, q) ==
    \E path \in [0 .. Len(w) -> Places] :
      /\ path[0] = p
      /\ path[Len(w)] = q
      /\ \A i \in 1 .. Len(w) : <<path[i - 1], w[i], path[i]>> \in Steps

LEMMA ConnectsTyped ==
    ASSUME NEW Steps, NEW Places, NEW p, NEW S, NEW w \in Seq(S), NEW q,
           Connects(Steps, Places, p, w, q)
    PROVE  p \in Places /\ q \in Places
  BY DEF Connects

\* Nothing under way leads nowhere else.
LEMMA ConnectsEmpty ==
    ASSUME NEW Steps, NEW Places, NEW p \in Places
    PROVE  /\ Connects(Steps, Places, p, <<>>, p)
           /\ \A q : Connects(Steps, Places, p, <<>>, q) => q = p
<1>1. Connects(Steps, Places, p, <<>>, p)
  <2> DEFINE path == [i \in 0 .. 0 |-> p]
  <2>1. path \in [0 .. 0 -> Places] /\ path[0] = p
    OBVIOUS
  <2>2. /\ Len(<<>>) = 0
        /\ \A i \in 1 .. 0 : <<path[i - 1], <<>>[i], path[i]>> \in Steps
    OBVIOUS
  <2>3. QED
    BY <2>1, <2>2, Zenon DEF Connects
<1>2. ASSUME NEW q, Connects(Steps, Places, p, <<>>, q) PROVE q = p
  BY <1>2 DEF Connects
<1>3. QED
  BY <1>1, <1>2

\* One more update is sent.
LEMMA ConnectsAppend ==
    ASSUME NEW Steps, NEW Places, NEW S, NEW w \in Seq(S), NEW u \in S, NEW p, NEW q,
           NEW r \in Places, Connects(Steps, Places, p, w, q), <<q, u, r>> \in Steps
    PROVE  Connects(Steps, Places, p, Append(w, u), r)
<1>1. PICK path \in [0 .. Len(w) -> Places] :
        /\ path[0] = p
        /\ path[Len(w)] = q
        /\ \A i \in 1 .. Len(w) : <<path[i - 1], w[i], path[i]>> \in Steps
  BY DEF Connects
<1> DEFINE w2 == Append(w, u)
           path2 == [i \in 0 .. Len(w) + 1 |-> IF i = Len(w) + 1 THEN r ELSE path[i]]
<1>2. Len(w2) = Len(w) + 1 /\ w2[Len(w) + 1] = u /\ Len(w) \in Nat
      /\ \A i \in 1 .. Len(w) : w2[i] = w[i]
  OBVIOUS
<1>3. path2 \in [0 .. Len(w2) -> Places] /\ path2[0] = p /\ path2[Len(w2)] = r
  BY <1>1, <1>2
<1>4. ASSUME NEW i \in 1 .. Len(w2) PROVE <<path2[i - 1], w2[i], path2[i]>> \in Steps
  <2>1. CASE i = Len(w) + 1
    <3>1. path2[i - 1] = q /\ w2[i] = u /\ path2[i] = r
      BY <1>1, <1>2, <2>1
    <3>2. QED
      BY <3>1
  <2>2. CASE i \in 1 .. Len(w)
    <3>1. path2[i - 1] = path[i - 1] /\ w2[i] = w[i] /\ path2[i] = path[i]
      BY <1>2, <2>2
    <3>2. QED
      BY <1>1, <2>2, <3>1
  <2>3. i = Len(w) + 1 \/ i \in 1 .. Len(w)
    BY <1>2
  <2>4. QED
    BY <2>1, <2>2, <2>3
<1>5. QED
  BY <1>3, <1>4 DEF Connects

\* The oldest update is taken.
LEMMA ConnectsTail ==
    ASSUME NEW Steps, NEW Places, NEW S, NEW w \in Seq(S), w # <<>>, NEW p, NEW q,
           Connects(Steps, Places, p, w, q)
    PROVE  \E r \in Places :
             <<p, Head(w), r>> \in Steps /\ Connects(Steps, Places, r, Tail(w), q)
<1>1. PICK path \in [0 .. Len(w) -> Places] :
        /\ path[0] = p
        /\ path[Len(w)] = q
        /\ \A i \in 1 .. Len(w) : <<path[i - 1], w[i], path[i]>> \in Steps
  BY DEF Connects
<1> DEFINE w2 == Tail(w)
           path2 == [i \in 0 .. Len(w) - 1 |-> path[i + 1]]
<1>2. Len(w) \in Nat \ {0} /\ Len(w2) = Len(w) - 1 /\ Head(w) = w[1]
      /\ \A i \in 1 .. Len(w2) : w2[i] = w[i + 1]
  OBVIOUS
<1>3. path2 \in [0 .. Len(w2) -> Places] /\ path2[0] = path[1] /\ path2[Len(w2)] = q
  BY <1>1, <1>2
<1>4. ASSUME NEW i \in 1 .. Len(w2) PROVE <<path2[i - 1], w2[i], path2[i]>> \in Steps
  <2>1. path2[i - 1] = path[(i + 1) - 1] /\ w2[i] = w[i + 1] /\ path2[i] = path[i + 1]
        /\ i + 1 \in 1 .. Len(w)
    BY <1>2
  <2>2. QED
    BY <1>1, <2>1
<1>5. Connects(Steps, Places, path[1], w2, q)
  BY <1>3, <1>4 DEF Connects
<1>6. <<p, Head(w), path[1]>> \in Steps /\ path[1] \in Places
  <2>1. 1 \in 1 .. Len(w) /\ path[1 - 1] = p
    BY <1>1, <1>2
  <2>2. QED
    BY <1>1, <1>2, <2>1
<1>7. QED
  BY <1>5, <1>6

\* A suffix of what was under way is lost.
LEMMA ConnectsPrefix ==
    ASSUME NEW Steps, NEW Places, NEW S, NEW w \in Seq(S), NEW n \in 0 .. Len(w),
           NEW p, NEW q, Connects(Steps, Places, p, w, q)
    PROVE  \E r \in Places : Connects(Steps, Places, p, SubSeq(w, 1, n), r)
<1>1. PICK path \in [0 .. Len(w) -> Places] :
        /\ path[0] = p
        /\ \A i \in 1 .. Len(w) : <<path[i - 1], w[i], path[i]>> \in Steps
  BY DEF Connects
<1> DEFINE w2 == SubSeq(w, 1, n)
           path2 == [i \in 0 .. n |-> path[i]]
<1>2. Len(w) \in Nat /\ Len(w2) = n /\ \A i \in 1 .. n : w2[i] = w[i]
  OBVIOUS
<1>3. path2 \in [0 .. Len(w2) -> Places] /\ path2[0] = p /\ path2[Len(w2)] = path[n]
  BY <1>1, <1>2
<1>4. ASSUME NEW i \in 1 .. Len(w2) PROVE <<path2[i - 1], w2[i], path2[i]>> \in Steps
  <2>1. path2[i - 1] = path[i - 1] /\ w2[i] = w[i] /\ path2[i] = path[i]
        /\ i \in 1 .. Len(w)
    BY <1>2
  <2>2. QED
    BY <1>1, <2>1
<1>5. Connects(Steps, Places, p, w2, path[n])
  BY <1>3, <1>4 DEF Connects
<1>6. QED
  BY <1>2, <1>5

\* What led on still does when more steps are possible.
LEMMA ConnectsGrows ==
    ASSUME NEW Steps, NEW Steps2, Steps \subseteq Steps2, NEW Places,
           NEW S, NEW w \in Seq(S), NEW p, NEW q, Connects(Steps, Places, p, w, q)
    PROVE  Connects(Steps2, Places, p, w, q)
<1>1. PICK path \in [0 .. Len(w) -> Places] :
        /\ path[0] = p
        /\ path[Len(w)] = q
        /\ \A i \in 1 .. Len(w) : <<path[i - 1], w[i], path[i]>> \in Steps
  BY DEF Connects
<1>2. \A i \in 1 .. Len(w) : <<path[i - 1], w[i], path[i]>> \in Steps2
  BY <1>1
<1>3. QED
  BY <1>1, <1>2 DEF Connects

-----------------------------------------------------------------------------
(* Running totals. *)

LEMMA LeastOf ==
    ASSUME NEW T, T \subseteq Nat, T # {}
    PROVE  \E m \in T : \A k \in T : m <= k
<1>1. \E m \in T : \A k \in T : ~ (<<k, m>> \in OpToRel(<, Nat))
  BY NatLessThanWellFounded, WFMin
<1>2. PICK m \in T : \A k \in T : ~ (<<k, m>> \in OpToRel(<, Nat))
  BY <1>1
<1>3. ASSUME NEW k \in T PROVE m <= k
  <2>1. ~ (k < m)
    BY <1>2 DEF OpToRel
  <2>2. QED
    BY <2>1
<1>4. QED
  BY <1>3

\* A function that grows by g[i] at i is, from its start, the total of g.
LEMMA TotalIs ==
    ASSUME NEW n \in Nat, NEW g \in [1 .. n -> Nat], NEW c \in [0 .. n -> Nat],
           \A i \in 1 .. n : c[i] = c[i - 1] + g[i],
           NEW f, \A i \in 0 .. n : f[i] = IF i = 0 THEN 0 ELSE f[i - 1] + g[i]
    PROVE  f[n] = c[n] - c[0]
<1> DEFINE T == {i \in 0 .. n : f[i] # c[i] - c[0]}
<1>1. SUFFICES ASSUME f[n] # c[n] - c[0] PROVE FALSE
  OBVIOUS
<1>2. PICK m \in T : \A k \in T : m <= k
  <2>1. n \in T
    BY <1>1
  <2>2. T \subseteq Nat
    OBVIOUS
  <2> HIDE DEF T
  <2>3. QED
    BY <2>1, <2>2, LeastOf
<1>3. m \in 0 .. n /\ m # 0
  OBVIOUS
<1>4. m - 1 \in 0 .. n /\ m \in 1 .. n /\ m - 1 \notin T
  BY <1>2, <1>3
<1>5. f[m - 1] = c[m - 1] - c[0]
  BY <1>4
<1>6. f[m] = f[m - 1] + g[m] /\ c[m] = c[m - 1] + g[m]
  BY <1>3, <1>4
<1>7. c[m] \in Nat /\ c[m - 1] \in Nat /\ c[0] \in Nat /\ g[m] \in Nat
  BY <1>4
<1>8. f[m] = c[m] - c[0]
  BY <1>5, <1>6, <1>7
<1>9. QED
  BY <1>8
=============================================================================
