----------------------------- MODULE FilterProofs -----------------------------
(***************************************************************************)
(* What a filtered sequence holds.  The induction is over a set of         *)
(* numbers: the least one for which a claim is false.                      *)
(***************************************************************************)
EXTENDS Filter, TLAPS, WellFoundedInduction

(* A set of natural numbers has a least one.                               *)
LEMMA LeastNatural ==
  ASSUME NEW T, T \subseteq Nat, T # {}
  PROVE  \E s \in T : \A t \in T : s <= t
<1> DEFINE R == OpToRel(<, Nat)
<1>1. IsWellFoundedOn(R, Nat)
  BY NatLessThanWellFounded
<1>2. PICK s \in T : \A t \in T : <<t, s>> \notin R
  <2> HIDE DEF R
  <2> QED BY <1>1, WFMin
<1>3. ASSUME NEW t \in T PROVE s <= t
  <2>1. ~(t < s)
    BY <1>2 DEF OpToRel
  <2> QED BY <2>1
<1> QED BY <1>3

(* What holds of zero, and of each number when it holds of the one before, *)
(* holds of all of them up to N.                                           *)
LEMMA UpTo ==
  ASSUME NEW N \in Nat, NEW Good, 0 \in Good,
         \A n \in 1..N : n - 1 \in Good => n \in Good
  PROVE  0..N \subseteq Good
<1> DEFINE Bad == (0..N) \ Good
<1>1. SUFFICES ASSUME Bad # {} PROVE FALSE
  OBVIOUS
<1>2. PICK m \in Bad : \A k \in Bad : m <= k
  <2>1. Bad \subseteq Nat
    OBVIOUS
  <2> HIDE DEF Bad
  <2>2. QED
    BY <1>1, <2>1, LeastNatural
<1>3. m \in 1..N /\ m - 1 \notin Bad /\ m - 1 \in 0..N
  BY <1>2
<1>4. QED
  BY <1>2, <1>3

-----------------------------------------------------------------------------
(* The function that Only computes exists.                                 *)
Filters(f, s, S, n) ==
  f = [i \in 0..n |->
         IF i = 0 THEN <<>>
         ELSE IF s[i] \in S THEN Append(f[i - 1], s[i]) ELSE f[i - 1]]

LEMMA FiltersExists ==
  ASSUME NEW s, NEW S, NEW N \in Nat
  PROVE  \E f : Filters(f, s, S, N)
<1> DEFINE Good == {n \in Nat : \E f : Filters(f, s, S, n)}
<1>1. 0 \in Good
  <2>1. Filters([i \in 0..0 |-> <<>>], s, S, 0)
    BY DEF Filters
  <2>2. QED
    BY <2>1
<1>2. ASSUME NEW n \in 1..N, n - 1 \in Good
      PROVE  n \in Good
  <2>1. PICK f : Filters(f, s, S, n - 1)
    BY <1>2
  <2> DEFINE last == IF s[n] \in S THEN Append(f[n - 1], s[n]) ELSE f[n - 1]
             g    == [i \in 0..n |-> IF i = n THEN last ELSE f[i]]
  <2>2. \A i \in 0..(n - 1) : g[i] = f[i]
    OBVIOUS
  <2>3. g[n] = last
    OBVIOUS
  <2>4. ASSUME NEW i \in 0..n
        PROVE  g[i] = IF i = 0 THEN <<>>
                      ELSE IF s[i] \in S THEN Append(g[i - 1], s[i])
                           ELSE g[i - 1]
    <3>1. CASE i = n
      <4>1. g[n - 1] = f[n - 1]
        BY <2>2
      <4> HIDE DEF g
      <4>2. QED
        BY <2>3, <3>1, <4>1
    <3>2. CASE i # n
      <4>1. i \in 0..(n - 1) /\ (i # 0 => i - 1 \in 0..(n - 1))
        BY <3>2
      <4>2. f[i] = IF i = 0 THEN <<>>
                   ELSE IF s[i] \in S THEN Append(f[i - 1], s[i])
                        ELSE f[i - 1]
        BY <2>1, <4>1 DEF Filters
      <4> HIDE DEF g
      <4>3. QED
        BY <2>2, <4>1, <4>2
    <3>3. QED
      BY <3>1, <3>2
  <2>5. Filters(g, s, S, n)
    <3> DEFINE h == [i \in 0..n |->
                       IF i = 0 THEN <<>>
                       ELSE IF s[i] \in S THEN Append(g[i - 1], s[i])
                            ELSE g[i - 1]]
    <3>1. g = [i \in 0..n |-> g[i]]
      OBVIOUS
    <3> HIDE DEF g
    <3>2. g = h
      BY <2>4, <3>1
    <3>3. QED
      BY <3>2 DEF Filters
  <2>6. QED
    BY <2>5
<1>3. 0..N \subseteq Good
  <2> HIDE DEF Good
  <2>1. QED
    BY <1>1, <1>2, UpTo
<1>4. QED
  BY <1>3

(* The filtered sequence is the last of a row of them, each one element or *)
(* none longer than the one before.                                        *)
Row(f, s, S, N) ==
  /\ f[0] = <<>>
  /\ \A n \in 1..N : s[n] \in S => f[n] = Append(f[n - 1], s[n])
  /\ \A n \in 1..N : s[n] \notin S => f[n] = f[n - 1]

LEMMA FiltersRow ==
  ASSUME NEW s, NEW S, NEW N \in Nat, NEW f, Filters(f, s, S, N)
  PROVE  Row(f, s, S, N)
<1> DEFINE g == [i \in 0..N |->
                   IF i = 0 THEN <<>>
                   ELSE IF s[i] \in S THEN Append(f[i - 1], s[i])
                        ELSE f[i - 1]]
<1>1. /\ g[0] = <<>>
      /\ \A n \in 1..N : s[n] \in S => g[n] = Append(f[n - 1], s[n])
      /\ \A n \in 1..N : s[n] \notin S => g[n] = f[n - 1]
  OBVIOUS
<1>2. f = g
  BY DEF Filters
<1> HIDE DEF g
<1>3. QED
  BY <1>1, <1>2 DEF Row

LEMMA OnlyIs ==
  ASSUME NEW T, NEW s \in Seq(T), NEW S
  PROVE  \E f : Row(f, s, S, Len(s)) /\ Only(s, S) = f[Len(s)]
<1> DEFINE f == CHOOSE f : Filters(f, s, S, Len(s))
<1>1. Len(s) \in Nat
  OBVIOUS
<1>2. Filters(f, s, S, Len(s))
  BY <1>1, FiltersExists
<1>3. Only(s, S) = f[Len(s)]
  BY DEF Only, Filters
<1> HIDE DEF f
<1>4. Row(f, s, S, Len(s))
  BY <1>1, <1>2, FiltersRow
<1>5. QED
  BY <1>3, <1>4

-----------------------------------------------------------------------------
(* What is left of a sequence.                                             *)
Members(s) == {s[i] : i \in DOMAIN s}

LEMMA AppendMembers ==
  ASSUME NEW T, NEW s \in Seq(T), NEW e \in T
  PROVE  Append(s, e) \in Seq(T) /\ Members(Append(s, e)) = Members(s) \cup {e}
<1>1. /\ Append(s, e) \in Seq(T)
      /\ DOMAIN Append(s, e) = 1..(Len(s) + 1) /\ DOMAIN s = 1..Len(s)
      /\ \A i \in 1..Len(s) : Append(s, e)[i] = s[i]
      /\ Append(s, e)[Len(s) + 1] = e /\ Len(s) \in Nat
  OBVIOUS
<1> DEFINE r == Append(s, e)
<1>2. 1..(Len(s) + 1) = 1..Len(s) \cup {Len(s) + 1}
  BY <1>1
<1> HIDE DEF r
<1>3. QED
  BY <1>1, <1>2 DEF Members, r

(* It holds the elements that satisfy the condition, and only those.       *)
LEMMA OnlyMembers ==
  ASSUME NEW T, NEW s \in Seq(T), NEW S
  PROVE  Only(s, S) \in Seq(T) /\ Members(Only(s, S)) = Members(s) \cap S
<1>1. PICK f : Row(f, s, S, Len(s)) /\ Only(s, S) = f[Len(s)]
  BY OnlyIs
<1>2. Len(s) \in Nat /\ DOMAIN s = 1..Len(s) /\ \A i \in 1..Len(s) : s[i] \in T
  OBVIOUS
<1>3. /\ f[0] = <<>>
      /\ \A n \in 1..Len(s) : s[n] \in S => f[n] = Append(f[n - 1], s[n])
      /\ \A n \in 1..Len(s) : s[n] \notin S => f[n] = f[n - 1]
  BY <1>1 DEF Row
<1> DEFINE Good == {n \in 0..Len(s) :
                      /\ f[n] \in Seq(T)
                      /\ Members(f[n]) = {s[i] : i \in 1..n} \cap S}
<1>4. 0 \in Good
  <2>1. f[0] = << >> /\ << >> \in Seq(T) /\ Members(<< >>) = {}
    BY <1>3 DEF Members
  <2>2. {s[i] : i \in 1..0} = {}
    OBVIOUS
  <2>3. 0 \in 0..Len(s)
    BY <1>2
  <2>4. f[0] \in Seq(T) /\ Members(f[0]) = {s[i] : i \in 1..0} \cap S
    BY <2>1, <2>2, Zenon
  <2>5. QED
    BY <2>3, <2>4, Zenon
<1>5. ASSUME NEW n \in 1..Len(s), n - 1 \in Good
      PROVE  n \in Good
  <2>1. /\ f[n - 1] \in Seq(T)
        /\ Members(f[n - 1]) = {s[i] : i \in 1..(n - 1)} \cap S
    BY <1>5
  <2>2. {s[i] : i \in 1..n} = {s[i] : i \in 1..(n - 1)} \cup {s[n]}
    BY <1>2
  <2>3. n \in 0..Len(s) /\ s[n] \in T
    BY <1>2
  <2>4. CASE s[n] \in S
    <3>1. f[n] = Append(f[n - 1], s[n])
      BY <1>3, <2>4
    <3>2. /\ f[n] \in Seq(T)
          /\ Members(f[n]) = Members(f[n - 1]) \cup {s[n]}
      BY <2>1, <2>3, <3>1, AppendMembers
    <3>3. QED
      BY <2>1, <2>2, <2>3, <2>4, <3>2, Zenon
  <2>5. CASE s[n] \notin S
    <3>1. f[n] = f[n - 1]
      BY <1>3, <2>5
    <3>2. QED
      BY <2>1, <2>2, <2>3, <2>5, <3>1
  <2>6. QED
    BY <2>4, <2>5
<1>6. Len(s) \in Good
  <2>1. 0..Len(s) \subseteq Good
    <3> HIDE DEF Good
    <3>1. QED
      BY <1>2, <1>4, <1>5, UpTo
  <2>2. Len(s) \in 0..Len(s)
    BY <1>2
  <2> HIDE DEF Good
  <2>3. QED
    BY <2>1, <2>2
<1>7. QED
  BY <1>1, <1>2, <1>6 DEF Members

(* Where all satisfy it nothing is left out.                               *)
LEMMA OnlyAll ==
  ASSUME NEW T, NEW s \in Seq(T), NEW S, Members(s) \subseteq S
  PROVE  Only(s, S) = s
<1>1. PICK f : Row(f, s, S, Len(s)) /\ Only(s, S) = f[Len(s)]
  BY OnlyIs
<1>2. /\ Len(s) \in Nat
      /\ \A i \in 1..Len(s) : s[i] \in T /\ s[i] \in S
  BY DEF Members
<1>3. /\ f[0] = <<>>
      /\ \A n \in 1..Len(s) : f[n] = Append(f[n - 1], s[n])
  BY <1>1, <1>2, Zenon DEF Row
<1> DEFINE Good == {n \in 0..Len(s) :
                      /\ f[n] \in Seq(T) /\ Len(f[n]) = n
                      /\ \A i \in 1..n : f[n][i] = s[i]}
<1>4. 0 \in Good
  <2>1. f[0] \in Seq(T) /\ Len(f[0]) = 0 /\ 0 \in 0..Len(s)
    BY <1>2, <1>3
  <2>2. \A i \in 1..0 : f[0][i] = s[i]
    OBVIOUS
  <2>3. QED
    BY <2>1, <2>2, Zenon
<1>5. ASSUME NEW n \in 1..Len(s), n - 1 \in Good
      PROVE  n \in Good
  <2>1. /\ f[n - 1] \in Seq(T) /\ Len(f[n - 1]) = n - 1
        /\ \A i \in 1..(n - 1) : f[n - 1][i] = s[i]
    BY <1>5
  <2>2. s[n] \in T /\ n \in 0..Len(s) /\ f[n] = Append(f[n - 1], s[n])
    BY <1>2, <1>3
  <2>3. f[n] \in Seq(T) /\ Len(f[n]) = n /\ f[n][n] = s[n]
    BY <2>1, <2>2
  <2>4. ASSUME NEW i \in 1..n PROVE f[n][i] = s[i]
    <3>1. CASE i = n
      BY <2>3, <3>1
    <3>2. CASE i \in 1..(n - 1)
      BY <2>1, <2>2, <3>2
    <3>3. QED
      BY <3>1, <3>2
  <2>5. QED
    BY <2>2, <2>3, <2>4
<1>6. Len(s) \in Good
  <2>1. 0..Len(s) \subseteq Good
    <3> HIDE DEF Good
    <3>1. QED
      BY <1>2, <1>4, <1>5, UpTo
  <2>2. QED
    BY <1>2, <2>1
<1>7. QED
  BY <1>1, <1>2, <1>6
=============================================================================
