---------------------- MODULE RoutesAndSettings_proofs ----------------------
(* What a bridge keeps of its configuration, however often it is            *)
(* reconfigured, and what its settings keep of what was typed, whoever      *)
(* writes them. The two share the constructor and reconfigure.              *)
EXTENDS BridgeRoutes, Settings, FiniteSetTheorems, WellFoundedInduction, TLAPS

-----------------------------------------------------------------------------
(* Lists                                                                    *)

-----------------------------------------------------------------------------
(* Lists                                                                    *)

LEMMA LeastOne ==
    ASSUME NEW T, T \subseteq Nat, T # {}
    PROVE  \E x \in T : \A y \in T : x <= y
  <1>1. PICK x \in T : \A y \in T : ~(<<y, x>> \in OpToRel(<, Nat))
    BY WFMin, NatLessThanWellFounded, Zenon
  <1>2. \A y \in T : <<y, x>> \in Nat \X Nat /\ <<y, x>>[1] = y /\ <<y, x>>[2] = x
    OBVIOUS
  <1>3. \A y \in T : ~(<<y, x>>[1] < <<y, x>>[2])
    BY <1>1, <1>2, Zenon DEF OpToRel
  <1>4. \A y \in T : ~(y < x)
    BY <1>2, <1>3
  <1>. QED  BY <1>4

(* What holds at 0 and goes from each number to the next holds up to N.     *)
LEMMA UpTo ==
    ASSUME NEW N \in Nat, NEW H, 0 \in H, \A n \in 0..N : n \in H /\ n < N => n + 1 \in H
    PROVE  \A n \in 0..N : n \in H
  <1>. SUFFICES ASSUME NEW m \in 0..N, m \notin H PROVE FALSE
    OBVIOUS
  <1>. DEFINE T == {n \in 0..N : n \notin H}
  <1>1. PICK x \in T : \A y \in T : x <= y
    <2>1. T \subseteq Nat /\ T # {}
      OBVIOUS
    <2>. HIDE DEF T
    <2>. QED  BY <2>1, LeastOne
  <1>2. x \in 0..N /\ x \notin H /\ x # 0
    OBVIOUS
  <1>3. x - 1 \in 0..N /\ x - 1 < N /\ (x - 1) + 1 = x /\ ~(x <= x - 1)
    BY <1>2
  <1>4. x - 1 \in H
    BY <1>1, <1>3
  <1>. QED  BY <1>2, <1>3, <1>4

(* f puts the first n lists of ss together, one more at each place.         *)
IsJoining(f, ss, n) ==
    /\ DOMAIN f = 1..n /\ f = [i \in 1..n |-> f[i]]
    /\ \A i \in 1..n : f[i] = IF i = 1 THEN ss[i] ELSE f[i - 1] \o ss[i]

(* There is a function that does.                                           *)
LEMMA JoiningsExist ==
    ASSUME NEW ss, NEW N \in Nat
    PROVE  \E f : IsJoining(f, ss, N)
  <1>. DEFINE H == {n \in 0..N : \E f : IsJoining(f, ss, n)}
  <1>1. 0 \in H
    <2>. DEFINE f == [i \in 1..0 |-> 0]
    <2>1. IsJoining(f, ss, 0)
      BY DEF IsJoining
    <2>. HIDE DEF f
    <2>. QED  BY <2>1
  <1>2. ASSUME NEW n \in 0..N, n \in H, n < N PROVE n + 1 \in H
    <2>1. PICK f : IsJoining(f, ss, n)
      BY <1>2
    <2>. DEFINE next == IF n = 0 THEN ss[1] ELSE f[n] \o ss[n + 1]
                g == [i \in 1..n + 1 |-> IF i = n + 1 THEN next ELSE f[i]]
    <2>0. n + 1 \in 1..n + 1 /\ \A i \in 1..n : i \in 1..n + 1 /\ i # n + 1
      OBVIOUS
    <2>. HIDE DEF next
    <2>2. DOMAIN g = 1..n + 1 /\ g[n + 1] = next /\ \A i \in 1..n : g[i] = f[i]
      BY <2>0
    <2>. USE DEF next
    <2>3. g = [i \in 1..n + 1 |-> g[i]]
      OBVIOUS
    <2>. HIDE DEF g
    <2>4. ASSUME NEW i \in 1..n + 1 PROVE g[i] = IF i = 1 THEN ss[i] ELSE g[i - 1] \o ss[i]
      <3>1. CASE i = n + 1
        <4>1. CASE n = 0
          BY <2>2, <3>1, <4>1
        <4>2. CASE n # 0
          <5>1. n \in 1..n /\ i # 1 /\ i - 1 = n
            BY <3>1, <4>2
          <5>. QED  BY <2>2, <3>1, <4>2, <5>1
        <4>. QED  BY <4>1, <4>2
      <3>2. CASE i # n + 1
        <4>1. i \in 1..n /\ (i # 1 => i - 1 \in 1..n)
          BY <3>2
        <4>. QED  BY <2>1, <2>2, <4>1 DEF IsJoining
      <3>. QED  BY <3>1, <3>2
    <2>5. IsJoining(g, ss, n + 1)
      BY <2>2, <2>3, <2>4 DEF IsJoining
    <2>6. n + 1 \in 0..N
      BY <1>2
    <2>. QED  BY <2>5, <2>6
  <1>3. \A n \in 0..N : n \in H
    <2>. HIDE DEF H
    <2>. QED  BY <1>1, <1>2, UpTo
  <1>. QED  BY <1>3

(* t has the elements of the first n lists of ss in their order: its k-th   *)
(* is the b[k]-th of the a[k]-th list.                                      *)
Joins(t, ss, n, a, b) ==
    /\ \A k \in 1..Len(t) : a[k] \in 1..n /\ b[k] \in 1..Len(ss[a[k]]) /\ t[k] = ss[a[k]][b[k]]
    /\ \A k, l \in 1..Len(t) : k < l => a[k] < a[l] \/ (a[k] = a[l] /\ b[k] < b[l])
    /\ \A i \in 1..n : \A j \in 1..Len(ss[i]) : \E k \in 1..Len(t) : a[k] = i /\ b[k] = j

(* One more list, put behind those that are joined.                         *)
LEMMA OneMoreJoins ==
    ASSUME NEW S, NEW ss \in Seq(Seq(S)), NEW n \in Nat, n < Len(ss), NEW t \in Seq(S), NEW a, NEW b, Joins(t, ss, n, a, b)
    PROVE  \E c, d : Joins(t \o ss[n + 1], ss, n + 1, c, d)
  <1>. DEFINE m == Len(t)
              s == ss[n + 1]
              u == t \o s
              c == [k \in 1..Len(u) |-> IF k <= m THEN a[k] ELSE n + 1]
              d == [k \in 1..Len(u) |-> IF k <= m THEN b[k] ELSE k - m]
  <1>1. s \in Seq(S) /\ m \in Nat /\ Len(s) \in Nat /\ Len(u) = m + Len(s)
    OBVIOUS
  <1>2. /\ \A k \in 1..m : u[k] = t[k]
        /\ \A k \in m + 1..Len(u) : u[k] = s[k - m]
    BY <1>1
  <1>3. /\ \A k \in 1..m : k \in 1..Len(u) /\ c[k] = a[k] /\ d[k] = b[k]
        /\ \A k \in m + 1..Len(u) : k \in 1..Len(u) /\ c[k] = n + 1 /\ d[k] = k - m /\ k - m \in 1..Len(s)
        /\ \A k \in 1..Len(u) : k \in 1..m \/ k \in m + 1..Len(u)
    <2>. HIDE DEF u, m, s
    <2>. QED  BY <1>1
  <1>. HIDE DEF u, c, d, m
  <1>a. \A k \in 1..m : a[k] \in 1..n /\ b[k] \in 1..Len(ss[a[k]]) /\ t[k] = ss[a[k]][b[k]]
    BY DEF Joins, m
  <1>4. ASSUME NEW k \in 1..Len(u) PROVE c[k] \in 1..n + 1 /\ d[k] \in 1..Len(ss[c[k]]) /\ u[k] = ss[c[k]][d[k]]
    <2>1. CASE k \in 1..m
      <3>1. c[k] = a[k] /\ d[k] = b[k] /\ u[k] = t[k] /\ a[k] \in 1..n /\ b[k] \in 1..Len(ss[a[k]]) /\ t[k] = ss[a[k]][b[k]]
        BY <2>1, <1>2, <1>3, <1>a, Zenon
      <3>2. a[k] \in 1..n + 1
        BY <3>1
      <3>. QED  BY <3>1, <3>2, Zenon
    <2>2. CASE k \in m + 1..Len(u)
      BY <2>2, <1>2, <1>3
    <2>. QED  BY <1>3, <2>1, <2>2
  <1>5. ASSUME NEW k \in 1..Len(u), NEW l \in 1..Len(u), k < l
        PROVE  c[k] < c[l] \/ (c[k] = c[l] /\ d[k] < d[l])
    <2>1. CASE l \in 1..m
      <3>1. k \in 1..m
        BY <2>1, <1>1, <1>5
      <3>2. a[k] < a[l] \/ (a[k] = a[l] /\ b[k] < b[l])
        BY <2>1, <3>1, <1>5 DEF Joins, m
      <3>. QED  BY <2>1, <3>1, <3>2, <1>3
    <2>2. CASE l \in m + 1..Len(u) /\ k \in 1..m
      <3>1. c[k] = a[k] /\ a[k] \in 1..n /\ c[l] = n + 1
        BY <2>2, <1>3, <1>a, Zenon
      <3>. QED  BY <3>1
    <2>3. CASE l \in m + 1..Len(u) /\ k \in m + 1..Len(u)
      <3>1. k - m < l - m
        BY <2>3, <1>1, <1>5
      <3>. QED  BY <2>3, <3>1, <1>3
    <2>. QED  BY <1>3, <2>1, <2>2, <2>3
  <1>6. ASSUME NEW i \in 1..n + 1, NEW j \in 1..Len(ss[i]) PROVE \E k \in 1..Len(u) : c[k] = i /\ d[k] = j
    <2>1. CASE i = n + 1
      <3>1. m + j \in m + 1..Len(u) /\ (m + j) - m = j
        BY <2>1, <1>1
      <3>. QED  BY <2>1, <3>1, <1>3
    <2>2. CASE i # n + 1
      <3>1. i \in 1..n
        BY <2>2
      <3>2. PICK k \in 1..m : a[k] = i /\ b[k] = j
        BY <3>1 DEF Joins, m
      <3>. QED  BY <3>2, <1>3
    <2>. QED  BY <2>1, <2>2
  <1>7. Joins(u, ss, n + 1, c, d)
    BY <1>4, <1>5, <1>6 DEF Joins
  <1>. QED  BY <1>7 DEF u

LEMMA JoinsFirst ==
    ASSUME NEW S, NEW ss \in Seq(Seq(S)), 0 < Len(ss)
    PROVE  \E a, b : Joins(ss[1], ss, 1, a, b)
  <1>. DEFINE a == [k \in 1..Len(ss[1]) |-> 1]
              b == [k \in 1..Len(ss[1]) |-> k]
  <1>1. Joins(ss[1], ss, 1, a, b)
    BY DEF Joins
  <1>. QED  BY <1>1

(* Lists put together.                                                      *)
LEMMA FlatIs ==
    ASSUME NEW S, NEW ss \in Seq(Seq(S))
    PROVE  FlattenSeq(ss) \in Seq(S) /\ \E a, b : Joins(FlattenSeq(ss), ss, Len(ss), a, b)
  <1>. DEFINE N == Len(ss)
              Body(f) == [i \in 1..N |-> IF i = 1 THEN ss[i] ELSE f[i - 1] \o ss[i]]
              flat == CHOOSE f : f = Body(f)
  <1>0. N \in Nat /\ DOMAIN ss = 1..N
    OBVIOUS
  <1>1. CASE N = 0
    <2>1. FlattenSeq(ss) = ss /\ ss = <<>>
      BY <1>1 DEF FlattenSeq
    <2>2. \A a, b : Joins(<<>>, <<>>, 0, a, b)
      BY DEF Joins
    <2>. QED  BY <2>1, <2>2, <1>1
  <1>2. CASE N # 0
    <2>1. FlattenSeq(ss) = flat[N]
      BY <1>2 DEF FlattenSeq
    <2>2. flat = Body(flat)
      <3>1. PICK f : IsJoining(f, ss, N)
        BY <1>0, JoiningsExist
      <3>2. f = Body(f)
        BY <3>1 DEF IsJoining
      <3>. QED  BY <3>2
    <2>3. \A i \in 1..N : flat[i] = IF i = 1 THEN ss[i] ELSE flat[i - 1] \o ss[i]
      <3>. HIDE DEF flat
      <3>. QED  BY <2>2
    <2>. HIDE DEF flat
    <2>. DEFINE H == {n \in 0..N : n # 0 => flat[n] \in Seq(S) /\ \E a, b : Joins(flat[n], ss, n, a, b)}
    <2>4. ASSUME NEW n \in 0..N, n \in H, n < N PROVE n + 1 \in H
      <3>1. n + 1 \in 1..N /\ n + 1 \in 0..N /\ ss[n + 1] \in Seq(S)
        BY <1>0, <2>4
      <3>2. CASE n = 0
        BY <3>1, <3>2, <2>3, JoinsFirst, <2>4
      <3>3. CASE n # 0
        <4>0. n + 1 # 1 /\ (n + 1) - 1 = n
          BY <3>3, <2>4
        <4>1. flat[n + 1] = flat[n] \o ss[n + 1] /\ flat[n] \in Seq(S)
          <5>1. flat[n + 1] = flat[n] \o ss[n + 1]
            <6>1. flat[n + 1] = flat[(n + 1) - 1] \o ss[n + 1]
              BY <2>3, <3>1, <4>0, Zenon
            <6>. QED  BY <4>0, <6>1, Zenon
          <5>. QED  BY <2>4, <3>3, <5>1
        <4>2. PICK a, b : Joins(flat[n], ss, n, a, b)
          BY <2>4, <3>3
        <4>3. \E c, d : Joins(flat[n] \o ss[n + 1], ss, n + 1, c, d)
          <5>1. n \in Nat /\ n < Len(ss)
            BY <2>4, <1>0
          <5>. QED  BY <4>1, <4>2, <5>1, OneMoreJoins, Zenon
        <4>4. flat[n + 1] \in Seq(S)
          <5>. HIDE DEF H
          <5>. QED  BY <4>1, <3>1
        <4>. QED  BY <4>1, <4>3, <4>4, <3>1, Zenon
      <3>. QED  BY <3>2, <3>3
    <2>5. \A n \in 0..N : n \in H
      <3>1. 0 \in H
        BY <1>0
      <3>. HIDE DEF H
      <3>. QED  BY <1>0, <3>1, <2>4, UpTo
    <2>. QED  BY <1>0, <1>2, <2>1, <2>5
  <1>. QED  BY <1>1, <1>2

(* t is what s has at some places, in its order: its k-th is the a[k]-th.   *)
Picks(t, s, places, a) ==
    /\ \A k \in 1..Len(t) : a[k] \in 1..Len(s) /\ a[k] \in places /\ t[k] = s[a[k]]
    /\ \A k, l \in 1..Len(t) : k < l => a[k] < a[l]
    /\ \A i \in 1..Len(s) : i \in places => \E k \in 1..Len(t) : a[k] = i

(* The elements at some places, in their order.                             *)
LEMMA ThoseAre ==
    ASSUME NEW S, NEW s \in Seq(S), NEW places
    PROVE  Those(s, places) \in Seq(S) /\ \E a : Picks(Those(s, places), s, places, a)
  <1>. DEFINE ss == [i \in DOMAIN s |-> IF i \in places THEN <<s[i]>> ELSE <<>>]
              t == FlattenSeq(ss)
  <1>1. Len(s) \in Nat /\ DOMAIN s = 1..Len(s) /\ \A i \in 1..Len(s) : s[i] \in S
    OBVIOUS
  <1>2. /\ ss \in Seq(Seq(S)) /\ Len(ss) = Len(s)
        /\ \A i \in 1..Len(s) : (i \in places => Len(ss[i]) = 1 /\ ss[i][1] = s[i]) /\ (i \notin places => Len(ss[i]) = 0)
    <2>1. \A i \in 1..Len(s) : ss[i] = IF i \in places THEN <<s[i]>> ELSE <<>>
      BY <1>1
    <2>2. \A i \in 1..Len(s) : (IF i \in places THEN <<s[i]>> ELSE <<>>) \in Seq(S)
      BY <1>1
    <2>3. ss \in [1..Len(s) -> Seq(S)]
      BY <1>1, <2>2
    <2>. HIDE DEF ss
    <2>4. ss \in Seq(Seq(S)) /\ Len(ss) = Len(s)
      BY <1>1, <2>3
    <2>5. ASSUME NEW i \in 1..Len(s)
          PROVE  (i \in places => Len(ss[i]) = 1 /\ ss[i][1] = s[i]) /\ (i \notin places => Len(ss[i]) = 0)
      <3>1. CASE i \in places
        <4>1. ss[i] = <<s[i]>>
          BY <2>1, <3>1, Zenon
        <4>. QED  BY <3>1, <4>1
      <3>2. CASE i \notin places
        <4>1. ss[i] = <<>>
          BY <2>1, <3>2, Zenon
        <4>. QED  BY <3>2, <4>1
      <3>. QED  BY <3>1, <3>2
    <2>. QED  BY <2>4, <2>5, Zenon
  <1>. HIDE DEF ss
  <1>3. t \in Seq(S)
    BY <1>2, FlatIs
  <1>4. PICK a, b : Joins(t, ss, Len(ss), a, b)
    BY <1>2, FlatIs
  <1>. HIDE DEF t
  <1>5. ASSUME NEW k \in 1..Len(t)
        PROVE  a[k] \in 1..Len(s) /\ a[k] \in places /\ b[k] = 1 /\ t[k] = s[a[k]]
    <2>1. a[k] \in 1..Len(s) /\ b[k] \in 1..Len(ss[a[k]]) /\ t[k] = ss[a[k]][b[k]]
      BY <1>2, <1>4 DEF Joins
    <2>2. a[k] \in places /\ Len(ss[a[k]]) = 1 /\ ss[a[k]][1] = s[a[k]]
      <3>1. CASE a[k] \in places
        BY <1>2, <2>1, <3>1
      <3>2. CASE a[k] \notin places
        BY <1>2, <2>1, <3>2
      <3>. QED  BY <3>1, <3>2
    <2>3. b[k] = 1
      BY <2>1, <2>2
    <2>. QED  BY <2>1, <2>2, <2>3
  <1>6. ASSUME NEW k \in 1..Len(t), NEW l \in 1..Len(t), k < l PROVE a[k] < a[l]
    <2>1. b[k] = 1 /\ b[l] = 1
      BY <1>5
    <2>2. a[k] < a[l] \/ b[k] < b[l]
      BY <1>4, <1>6 DEF Joins
    <2>. QED  BY <2>1, <2>2
  <1>7. ASSUME NEW i \in 1..Len(s), i \in places PROVE \E k \in 1..Len(t) : a[k] = i
    <2>1. 1 \in 1..Len(ss[i])
      BY <1>2, <1>7
    <2>. QED  BY <2>1, <1>2, <1>4 DEF Joins
  <1>8. Picks(t, s, places, a)
    BY <1>5, <1>6, <1>7 DEF Picks
  <1>. QED  BY <1>3, <1>8 DEF Those, t, ss

(* What is picked of what was picked.                                       *)
LEMMA PicksOfPicks ==
    ASSUME NEW S, NEW s \in Seq(S), NEW u \in Seq(S), NEW t \in Seq(S), NEW X, NEW Y, NEW Z, NEW a, NEW b,
           Picks(u, s, X, a), Picks(t, u, Y, b), \A i \in 1..Len(u) : i \in Y <=> a[i] \in Z
    PROVE  \E c : Picks(t, s, X \cap Z, c)
  <1>. DEFINE c == [k \in 1..Len(t) |-> a[b[k]]]
  <1>1. ASSUME NEW k \in 1..Len(t)
        PROVE  /\ c[k] = a[b[k]] /\ b[k] \in 1..Len(u)
               /\ c[k] \in 1..Len(s) /\ c[k] \in X \cap Z /\ t[k] = s[c[k]]
    <2>1. c[k] = a[b[k]] /\ b[k] \in 1..Len(u) /\ b[k] \in Y /\ t[k] = u[b[k]]
      BY DEF Picks
    <2>. HIDE DEF c
    <2>. QED  BY <2>1 DEF Picks
  <1>. HIDE DEF c
  <1>2. ASSUME NEW k \in 1..Len(t), NEW l \in 1..Len(t), k < l PROVE c[k] < c[l]
    <2>1. b[k] < b[l]
      BY <1>2 DEF Picks
    <2>2. a[b[k]] < a[b[l]]
      <3>1. b[k] \in 1..Len(u) /\ b[l] \in 1..Len(u)
        BY <1>1
      <3>. QED  BY <2>1, <3>1 DEF Picks
    <2>. QED  BY <1>1, <2>2, Zenon
  <1>3. ASSUME NEW i \in 1..Len(s), i \in X \cap Z PROVE \E k \in 1..Len(t) : c[k] = i
    <2>1. PICK j \in 1..Len(u) : a[j] = i
      BY <1>3 DEF Picks
    <2>2. PICK k \in 1..Len(t) : b[k] = j
      BY <1>3, <2>1 DEF Picks
    <2>3. c[k] = i
      BY <1>1, <2>1, <2>2, Zenon
    <2>. QED  BY <2>3
  <1>4. \A k, l \in 1..Len(t) : k < l => c[k] < c[l]
    BY <1>2, Zenon
  <1>5. \A k \in 1..Len(t) : c[k] \in 1..Len(s) /\ c[k] \in X \cap Z /\ t[k] = s[c[k]]
    BY <1>1, Zenon
  <1>6. Picks(t, s, X \cap Z, c)
    BY <1>3, <1>4, <1>5, Zenon DEF Picks
  <1>. QED  BY <1>6

(* There is one way to pick the same places in order.                       *)
LEMMA PicksAgree ==
    ASSUME NEW S, NEW T, NEW s, NEW t \in Seq(S), NEW u \in Seq(T), NEW X, NEW a, NEW b,
           Picks(t, s, X, a), Picks(u, s, X, b)
    PROVE  t = u
  <1>0. Len(t) \in Nat /\ Len(u) \in Nat /\ \A i \in 1..Len(s) : i \in Int
    OBVIOUS
  <1>. DEFINE Off == {k \in 1..Len(t) : k \in 1..Len(u) /\ a[k] # b[k]}
  <1>1. Off = {}
    <2>. SUFFICES ASSUME Off # {} PROVE FALSE
      OBVIOUS
    <2>1. PICK k \in Off : \A j \in Off : k <= j
      <3>1. Off \subseteq Nat
        OBVIOUS
      <3>. HIDE DEF Off
      <3>. QED  BY <3>1, LeastOne
    <2>2. k \in 1..Len(t) /\ k \in 1..Len(u) /\ a[k] # b[k]
      OBVIOUS
    <2>3. \A j \in 1..Len(t) : j \in 1..Len(u) /\ j < k => a[j] = b[j]
      BY <2>1, <1>0
    <2>4. CASE a[k] < b[k]
      <3>1. PICK j \in 1..Len(u) : b[j] = a[k]
        BY <2>2 DEF Picks
      <3>2. ~(b[k] < b[j]) /\ j # k
        BY <2>4, <3>1, <2>2, <1>0 DEF Picks
      <3>3. j < k
        BY <3>2, <2>2, <1>0 DEF Picks
      <3>4. j \in 1..Len(t) /\ a[j] < a[k]
        BY <3>3, <2>2, <1>0 DEF Picks
      <3>5. a[j] = b[j]
        BY <3>3, <3>4, <2>3
      <3>. QED  BY <3>1, <3>4, <3>5, <2>2, <1>0 DEF Picks
    <2>5. CASE b[k] < a[k]
      <3>1. PICK j \in 1..Len(t) : a[j] = b[k]
        BY <2>2 DEF Picks
      <3>2. ~(a[k] < a[j]) /\ j # k
        BY <2>5, <3>1, <2>2, <1>0 DEF Picks
      <3>3. j < k
        BY <3>2, <2>2, <1>0 DEF Picks
      <3>4. j \in 1..Len(u) /\ b[j] < b[k]
        BY <3>3, <2>2, <1>0 DEF Picks
      <3>5. a[j] = b[j]
        BY <3>3, <3>4, <2>3
      <3>. QED  BY <3>1, <3>4, <3>5, <2>2, <1>0 DEF Picks
    <2>6. a[k] < b[k] \/ b[k] < a[k]
      BY <2>2, <1>0 DEF Picks
    <2>. QED  BY <2>4, <2>5, <2>6
  <1>2. \A k \in 1..Len(t) : k \in 1..Len(u) => a[k] = b[k]
    BY <1>1
  <1>. HIDE DEF Off
  <1>3. ~(Len(t) < Len(u))
    <2>. SUFFICES ASSUME Len(t) < Len(u) PROVE FALSE
      OBVIOUS
    <2>1. Len(t) + 1 \in 1..Len(u)
      BY <1>0
    <2>2. PICK j \in 1..Len(t) : a[j] = b[Len(t) + 1]
      BY <2>1 DEF Picks
    <2>3. j \in 1..Len(u) /\ j < Len(t) + 1
      BY <2>1, <2>2, <1>0
    <2>4. b[j] < b[Len(t) + 1] /\ a[j] = b[j]
      BY <2>1, <2>3, <1>2 DEF Picks
    <2>5. a[j] \in Int
      BY <2>2, <1>0 DEF Picks
    <2>. QED  BY <2>2, <2>4, <2>5
  <1>4. ~(Len(u) < Len(t))
    <2>. SUFFICES ASSUME Len(u) < Len(t) PROVE FALSE
      OBVIOUS
    <2>1. Len(u) + 1 \in 1..Len(t)
      BY <1>0
    <2>2. PICK j \in 1..Len(u) : b[j] = a[Len(u) + 1]
      BY <2>1 DEF Picks
    <2>3. j \in 1..Len(t) /\ j < Len(u) + 1
      BY <2>1, <2>2, <1>0
    <2>4. a[j] < a[Len(u) + 1] /\ a[j] = b[j]
      BY <2>1, <2>3, <1>2 DEF Picks
    <2>5. a[j] \in Int
      BY <2>3, <1>0 DEF Picks
    <2>. QED  BY <2>2, <2>4, <2>5
  <1>5. Len(t) = Len(u)
    BY <1>0, <1>3, <1>4
  <1>6. \A k \in 1..Len(t) : t[k] = u[k]
    <2>. TAKE k \in 1..Len(t)
    <2>1. t[k] = s[a[k]]
      BY DEF Picks
    <2>2. k \in 1..Len(u) /\ u[k] = s[b[k]]
      BY <1>5 DEF Picks
    <2>. QED  BY <2>1, <2>2, <1>2
  <1>. QED  BY <1>5, <1>6

LEMMA ListsAre ==
    ASSUME NEW s, IsList(s)
    PROVE  /\ s \in Seq(ToSet(s)) /\ Len(s) \in Nat /\ DOMAIN s = 1..Len(s) /\ \A i \in 1..Len(s) : s[i] \in ToSet(s)
           /\ \A x \in ToSet(s) : \E i \in 1..Len(s) : s[i] = x
  <1>1. s \in Seq(ToSet(s)) /\ ToSet(s) = {s[i] : i \in DOMAIN s}
    BY DEF IsList, ToSet
  <1>2. Len(s) \in Nat /\ DOMAIN s = 1..Len(s)
    BY <1>1
  <1>. QED  BY <1>1, <1>2

LEMMA ListOf ==
    ASSUME NEW S, NEW s \in Seq(S)
    PROVE  IsList(s)
  <1>1. ToSet(s) = {s[i] : i \in DOMAIN s}
    BY DEF ToSet
  <1>2. Len(s) \in Nat /\ s \in [1..Len(s) -> S] /\ DOMAIN s = 1..Len(s)
    OBVIOUS
  <1>3. \A i \in 1..Len(s) : s[i] \in ToSet(s)
    BY <1>1, <1>2
  <1>4. s \in [1..Len(s) -> ToSet(s)]
    BY <1>2, <1>3
  <1>. QED  BY <1>2, <1>4 DEF IsList

LEMMA AppendIs ==
    ASSUME NEW t, IsList(t), NEW x
    PROVE  /\ IsList(Append(t, x)) /\ Len(Append(t, x)) = Len(t) + 1 /\ Append(t, x)[Len(t) + 1] = x
           /\ \A k \in 1..Len(t) : Append(t, x)[k] = t[k]
  <1>. DEFINE S == ToSet(t) \cup {x}
  <1>1. t \in Seq(ToSet(t)) /\ Len(t) \in Nat
    BY ListsAre
  <1>2. t \in [1..Len(t) -> ToSet(t)]
    BY <1>1
  <1>3. t \in [1..Len(t) -> S] /\ x \in S
    BY <1>2
  <1>. HIDE DEF S
  <1>4. t \in Seq(S)
    BY <1>1, <1>3
  <1>5. Append(t, x) \in Seq(S) /\ Len(Append(t, x)) = Len(t) + 1 /\ Append(t, x)[Len(t) + 1] = x
        /\ \A k \in 1..Len(t) : Append(t, x)[k] = t[k]
    BY <1>3, <1>4
  <1>. QED  BY <1>5, ListOf, Zenon

LEMMA EmptyIs == IsList(<<>>) /\ Len(<<>>) = 0
  BY DEF IsList, ToSet

(* One element in front of a list.                                          *)
LEMMA ConsIs ==
    ASSUME NEW S, NEW m \in Seq(S), NEW p \in S
    PROVE  LET w == <<p>> \o m IN Len(w) = Len(m) + 1 /\ Head(w) = p /\ Tail(w) = m
  <1>. DEFINE u == <<p>>
              w == u \o m
  <1>0. u \in Seq(S) /\ Len(u) = 1 /\ u[1] = p
    OBVIOUS
  <1>. HIDE DEF u
  <1>1. w \in Seq(S) /\ Len(w) = Len(m) + 1 
    <2>0. u \in Seq(S)
      BY <1>0
    <2>1. w \in Seq(S) /\ Len(w) = Len(u) + Len(m) /\ Len(m) \in Nat /\ Len(u) \in Nat
      BY <2>0
    <2>. HIDE DEF w
    <2>. QED  BY <1>0, <2>1
  <1>2. w[1] = p
    BY <1>0, <1>1
  <1>3. \A i \in 1..Len(m) : w[i + 1] = m[i]
    BY <1>0, <1>1
  <1>. HIDE DEF w
  <1>4. Head(w) = p /\ Tail(w) \in Seq(S) /\ Len(Tail(w)) = Len(m) 
    BY <1>1, <1>2
  <1>5. \A i \in 1..Len(m) : Tail(w)[i] = m[i]
    BY <1>1, <1>3
  <1>6. Tail(w) = m
    BY <1>4, <1>5
  <1>. QED  BY <1>1, <1>4, <1>6 DEF w, u

(* All of a list.                                                           *)
LEMMA PicksAll ==
    ASSUME NEW S, NEW s \in Seq(S), NEW places, \A i \in 1..Len(s) : i \in places
    PROVE  \E a : Picks(s, s, places, a)
  <1>. DEFINE a == [k \in 1..Len(s) |-> k]
  <1>1. Picks(s, s, places, a)
    BY DEF Picks
  <1>. QED  BY <1>1

LEMMA PicksAtSame ==
    ASSUME NEW t, NEW s, NEW X, NEW Y, NEW a, Picks(t, s, X, a), \A i \in 1..Len(s) : i \in X <=> i \in Y
    PROVE  Picks(t, s, Y, a)
  BY DEF Picks

-----------------------------------------------------------------------------
(* Plans                                                                    *)

(* Each lane once, where it comes first, with its mark.                     *)
Merges(t, stops, a) ==
    /\ IsList(t) /\ Len(t) >= 1 /\ t[1].lane = stops[1].lane
    /\ \A k \in 1..Len(t) : /\ a[k] \in 1..Len(stops)
                            /\ t[k] = Stop(stops[a[k]].lane, IsMarked(stops, stops[a[k]].lane))
                            /\ t[k].lane = stops[a[k]].lane
                            /\ \A j \in 1..Len(stops) : j < a[k] => stops[j].lane # stops[a[k]].lane
    /\ \A k, l \in 1..Len(t) : k < l => a[k] < a[l]
    /\ \A k, l \in 1..Len(t) : t[k].lane = t[l].lane => k = l
    /\ \A i \in 1..Len(stops) : \E k \in 1..Len(t) : t[k].lane = stops[i].lane

(* Merged keeps each lane where it comes first, with its mark.              *)
LEMMA MergedIs ==
    ASSUME NEW S, NEW stops \in Seq(S), Len(stops) >= 1
    PROVE  \E a : Merges(Merged(stops), stops, a)
  <1>. DEFINE marked == [i \in DOMAIN stops |-> Stop(stops[i].lane, IsMarked(stops, stops[i].lane))]
              t == Merged(stops)
              First == FirstPlaces(stops)
              L == {Stop(l, x) : l \in {stops[i].lane : i \in DOMAIN stops}, x \in BOOLEAN}
  <1>1. Len(stops) \in Nat /\ DOMAIN stops = 1..Len(stops)
    OBVIOUS
  <1>2. marked \in Seq(L) /\ Len(marked) = Len(stops)
        /\ \A i \in 1..Len(stops) : marked[i] = Stop(stops[i].lane, IsMarked(stops, stops[i].lane))
    <2>1. \A i \in 1..Len(stops) : IsMarked(stops, stops[i].lane) \in BOOLEAN
      BY DEF IsMarked
    <2>2. \A i \in 1..Len(stops) : Stop(stops[i].lane, IsMarked(stops, stops[i].lane)) \in L
      <3>. HIDE DEF L
      <3>. TAKE i \in 1..Len(stops)
      <3>. DEFINE l == stops[i].lane
                  mark == IsMarked(stops, l)
      <3>1. l \in {stops[j].lane : j \in DOMAIN stops} /\ mark \in BOOLEAN
        BY <1>1, <2>1
      <3>. HIDE DEF l, mark
      <3>2. Stop(l, mark) \in L
        BY <3>1 DEF L
      <3>. QED  BY <3>2 DEF l, mark
    <2>3. marked \in [1..Len(stops) -> L]
      BY <1>1, <2>2
    <2>4. \A i \in 1..Len(stops) : marked[i] = Stop(stops[i].lane, IsMarked(stops, stops[i].lane))
      BY <1>1
    <2>. HIDE DEF marked
    <2>5. marked \in Seq(L) /\ Len(marked) = Len(stops)
      BY <1>1, <2>3
    <2>. QED  BY <2>4, <2>5
  <1>3. t = Those(marked, First)
    BY DEF Merged
  <1>. HIDE DEF marked, t, L
  <1>4. PICK a : Picks(t, marked, First, a)
    BY <1>2, <1>3, ThoseAre
  <1>5. t \in Seq(L) /\ IsList(t) /\ Len(t) \in Nat
    <2>1. t \in Seq(L)
      BY <1>2, <1>3, ThoseAre
    <2>. QED  BY <2>1, ListOf
  <1>6. \A i \in 1..Len(stops) : i \in First <=> \A j \in 1..Len(stops) : j < i => stops[j].lane # stops[i].lane
    <2>. TAKE i \in 1..Len(stops)
    <2>1. \A j : j \in 1..i - 1 <=> j \in 1..Len(stops) /\ j < i
      BY <1>1
    <2>2. i \in First <=> \A j \in 1..i - 1 : stops[j].lane # stops[i].lane
      BY <1>1, Zenon DEF FirstPlaces
    <2>. QED  BY <2>1, <2>2, Zenon
  <1>. HIDE DEF First
  <1>7. ASSUME NEW k \in 1..Len(t)
        PROVE  /\ a[k] \in 1..Len(stops) /\ a[k] \in First
               /\ t[k] = Stop(stops[a[k]].lane, IsMarked(stops, stops[a[k]].lane)) /\ t[k].lane = stops[a[k]].lane
               /\ \A j \in 1..Len(stops) : j < a[k] => stops[j].lane # stops[a[k]].lane
    <2>1. a[k] \in 1..Len(stops) /\ a[k] \in First /\ t[k] = marked[a[k]]
      BY <1>2, <1>4 DEF Picks
    <2>2. t[k] = Stop(stops[a[k]].lane, IsMarked(stops, stops[a[k]].lane))
      BY <2>1, <1>2, Zenon
    <2>3. t[k].lane = stops[a[k]].lane
      BY <2>2 DEF Stop
    <2>. QED  BY <2>1, <2>2, <2>3, <1>6, Zenon
  <1>8. \A k, l \in 1..Len(t) : k < l => a[k] < a[l]
    BY <1>4 DEF Picks
  <1>9. ASSUME NEW k \in 1..Len(t), NEW l \in 1..Len(t), t[k].lane = t[l].lane PROVE k = l
    <2>1. stops[a[k]].lane = stops[a[l]].lane /\ a[k] \in 1..Len(stops) /\ a[l] \in 1..Len(stops)
      BY <1>7, <1>9, Zenon
    <2>2. ~(a[k] < a[l]) /\ ~(a[l] < a[k])
      BY <2>1, <1>7, Zenon
    <2>3. ~(k < l) /\ ~(l < k)
      BY <2>2, <1>8, Zenon
    <2>. QED  BY <2>3, <1>5
  <1>10. ASSUME NEW i \in 1..Len(stops) PROVE \E k \in 1..Len(t) : t[k].lane = stops[i].lane
    <2>. DEFINE Same == {j \in 1..Len(stops) : stops[j].lane = stops[i].lane}
    <2>1. PICK j \in Same : \A h \in Same : j <= h
      <3>1. Same \subseteq Nat /\ Same # {}
        OBVIOUS
      <3>. HIDE DEF Same
      <3>. QED  BY <3>1, LeastOne
    <2>2. j \in 1..Len(stops) /\ stops[j].lane = stops[i].lane /\ \A h \in 1..Len(stops) : h < j => stops[h].lane # stops[j].lane
      BY <2>1, <1>1
    <2>3. j \in First
      BY <2>2, <1>6, Zenon
    <2>4. PICK k \in 1..Len(t) : a[k] = j
      BY <2>2, <2>3, <1>2, <1>4 DEF Picks
    <2>. QED  BY <2>2, <2>4, <1>7, Zenon
  <1>11. Len(t) >= 1 /\ t[1].lane = stops[1].lane
    <2>1. 1 \in 1..Len(stops) /\ 1 \in First
      BY <1>1, <1>6
    <2>2. PICK k \in 1..Len(t) : a[k] = 1
      BY <2>1, <1>2, <1>4 DEF Picks
    <2>3. 1 \in 1..Len(t)
      BY <2>2, <1>5
    <2>4. k = 1
      <3>1. ~(1 < k)
        <4>1. 1 < k => a[1] < a[k]
          BY <2>2, <2>3, <1>8, Zenon
        <4>2. ~(a[1] < 1)
          BY <2>3, <1>7
        <4>. QED  BY <4>1, <4>2, <2>2, Zenon
      <3>. QED  BY <3>1, <2>2, <1>5
    <2>5. t[1].lane = stops[1].lane
      BY <2>2, <2>4, <1>7, Zenon
    <2>. QED  BY <2>3, <2>5
  <1>12. Merges(t, stops, a)
    BY <1>5, <1>7, <1>8, <1>9, <1>10, <1>11, Zenon DEF Merges
  <1>. QED  BY <1>12 DEF t

(* A plan's entries are its trusted ones and then its fallbacks.            *)
LEMMA EntriesAre ==
    ASSUME NEW policy, IsLanePolicy(policy)
    PROVE  LET n == Len(policy.trusted)
               m == Len(policy.fallback)
               entries == PlanEntries(policy)
           IN  /\ n \in Nat /\ m \in Nat /\ IsList(entries) /\ Len(entries) = n + m
               /\ DOMAIN policy.trusted = 1..n /\ DOMAIN policy.fallback = 1..m
               /\ \A i \in 1..n : entries[i] = policy.trusted[i]
               /\ \A i \in 1..m : entries[n + i] = policy.fallback[i]
               /\ \A i \in 1..n + m : IsEntry(entries[i])
  <1>. DEFINE n == Len(policy.trusted)
              m == Len(policy.fallback)
              entries == PlanEntries(policy)
              S == ToSet(policy.trusted) \cup ToSet(policy.fallback)
  <1>1. /\ policy.trusted \in Seq(ToSet(policy.trusted)) /\ n \in Nat /\ DOMAIN policy.trusted = 1..n
        /\ policy.fallback \in Seq(ToSet(policy.fallback)) /\ m \in Nat /\ DOMAIN policy.fallback = 1..m
    BY ListsAre, Zenon DEF IsLanePolicy
  <1>2. policy.trusted \in Seq(S) /\ policy.fallback \in Seq(S)
    <2>. HIDE DEF n, m, entries
    <2>1. policy.trusted \in [1..n -> ToSet(policy.trusted)] /\ policy.fallback \in [1..m -> ToSet(policy.fallback)]
      BY <1>1 DEF n, m
    <2>2. policy.trusted \in [1..n -> S] /\ policy.fallback \in [1..m -> S]
      BY <2>1
    <2>. QED  BY <1>1, <2>2
  <1>3. \A x \in S : IsEntry(x)
    BY Zenon DEF IsLanePolicy
  <1>. HIDE DEF S
  <1>4. /\ entries \in Seq(S) /\ Len(entries) = n + m
        /\ \A i \in 1..n : entries[i] = policy.trusted[i]
        /\ \A i \in 1..m : entries[n + i] = policy.fallback[i]
        /\ \A i \in 1..n + m : entries[i] \in S
    <2>. DEFINE s == policy.trusted
                t == policy.fallback
    <2>1. s \in Seq(S) /\ t \in Seq(S) /\ n = Len(s) /\ m = Len(t) /\ entries = s \o t
      BY <1>2 DEF PlanEntries
    <2>. HIDE DEF s, t, n, m, entries
    <2>2. /\ entries \in Seq(S) /\ Len(entries) = n + m
          /\ \A i \in 1..n : entries[i] = s[i]
          /\ \A i \in 1..m : entries[n + i] = t[i]
          /\ \A i \in 1..n + m : entries[i] \in S
      BY <2>1
    <2>. QED  BY <2>2 DEF s, t
  <1>5. IsList(entries)
    BY <1>4, ListOf, Zenon
  <1>6. \A i \in 1..n + m : IsEntry(entries[i])
    BY <1>3, <1>4, Zenon
  <1>. HIDE DEF n, m, entries
  <1>. QED  BY <1>1, <1>4, <1>5, <1>6, Zenon DEF n, m, entries

(* An entry's stops have its provider, its mark and its models.             *)
LEMMA EntryStopsAre ==
    ASSUME NEW e, IsEntry(e)
    PROVE  /\ IsList(EntryStops(e))
           /\ \A t \in ToSet(EntryStops(e)) : /\ t = Stop(t.lane, e.terminal) /\ t.terminal = e.terminal
                                              /\ t.lane = Lane(e.p, t.lane.m) /\ t.lane.p = e.p /\ IsModel(t.lane.m)
  <1>. DEFINE ms == EntryModels(e)
              ss == EntryStops(e)
  <1>1. Len(ms) \in Nat /\ DOMAIN ms = 1..Len(ms)
    <2>1. CASE e.models = <<>>
      BY <2>1 DEF EntryModels
    <2>2. CASE e.models # <<>>
      BY <2>2, ListsAre DEF EntryModels, IsEntry
    <2>. QED  BY <2>1, <2>2
  <1>2. \A i \in 1..Len(ms) : IsModel(ms[i])
    BY <1>1 DEF IsEntry
  <1>3. DOMAIN ss = 1..Len(ms) /\ ss = [i \in 1..Len(ms) |-> ss[i]] /\ \A i \in 1..Len(ms) : ss[i] = Stop(Lane(e.p, ms[i]), e.terminal)
    <2>. HIDE DEF ms
    <2>. QED  BY <1>1 DEF EntryStops, ms
  <1>. HIDE DEF ms, ss
  <1>4. ss \in Seq({ss[i] : i \in 1..Len(ms)})
    BY <1>1, <1>3
  <1>5. IsList(ss)
    BY <1>4, ListOf
  <1>6. ASSUME NEW t \in ToSet(ss)
        PROVE  /\ t = Stop(t.lane, e.terminal) /\ t.terminal = e.terminal
               /\ t.lane = Lane(e.p, t.lane.m) /\ t.lane.p = e.p /\ IsModel(t.lane.m)
    <2>1. PICK i \in 1..Len(ms) : t = Stop(Lane(e.p, ms[i]), e.terminal)
      BY <1>3 DEF ToSet
    <2>2. t.lane = Lane(e.p, ms[i]) /\ t.terminal = e.terminal
      BY <2>1 DEF Stop
    <2>3. t.lane.m = ms[i] /\ t.lane.p = e.p
      BY <2>2 DEF Lane
    <2>. QED  BY <2>1, <2>2, <2>3, <1>2, Zenon
  <1>. QED  BY <1>5, <1>6 DEF ss

(* The primary, and behind it the stops of the plan's entries whose         *)
(* provider is known, entry by entry: the z-th stop is of the e[z]-th entry.*)
Plans(stops, entries, providers, primary, e) ==
    /\ IsList(stops) /\ Len(stops) >= 1 /\ stops[1] = Stop(primary, FALSE)
    /\ \A z \in 2..Len(stops) : /\ e[z] \in 1..Len(entries) /\ entries[e[z]].p \in providers
                                /\ stops[z] \in ToSet(EntryStops(entries[e[z]]))
    /\ \A y, z \in 2..Len(stops) : y < z => e[y] <= e[z]
    /\ \A x \in 1..Len(entries) : entries[x].p \in providers =>
          \A t \in ToSet(EntryStops(entries[x])) : \E z \in 2..Len(stops) : e[z] = x /\ stops[z] = t

(* What resolvePolicyLanes puts together before it merges.                  *)
LEMMA PlansAre ==
    ASSUME NEW entries, IsList(entries), \A i \in 1..Len(entries) : IsEntry(entries[i]), NEW providers, NEW primary
    PROVE  LET known == Those(entries, {i \in DOMAIN entries : entries[i].p \in providers})
               stops == <<Stop(primary, FALSE)>> \o FlattenSeq([i \in DOMAIN known |-> EntryStops(known[i])])
           IN  \E e : Plans(stops, entries, providers, primary, e)
  <1>. DEFINE places == {i \in DOMAIN entries : entries[i].p \in providers}
              known == Those(entries, places)
              ss == [i \in DOMAIN known |-> EntryStops(known[i])]
              flat == FlattenSeq(ss)
              stops == <<Stop(primary, FALSE)>> \o flat
              S == UNION {ToSet(EntryStops(entries[i])) : i \in 1..Len(entries)}
  <1>1. /\ entries \in Seq(ToSet(entries)) /\ DOMAIN entries = 1..Len(entries) /\ Len(entries) \in Nat
        /\ known \in Seq(ToSet(entries))
        /\ \E a : Picks(known, entries, places, a)
    BY ListsAre, ThoseAre, Zenon
  <1>2. PICK a : Picks(known, entries, places, a)
    BY <1>1
  <1>. HIDE DEF known
  <1>3. /\ DOMAIN known = 1..Len(known) /\ Len(known) \in Nat
        /\ \A i \in 1..Len(known) : a[i] \in 1..Len(entries) /\ entries[a[i]].p \in providers /\ known[i] = entries[a[i]]
    BY <1>1, <1>2 DEF Picks
  <1>. HIDE DEF places
  <1>4. /\ ss \in Seq(Seq(S)) /\ Len(ss) = Len(known)
        /\ \A i \in 1..Len(known) : ss[i] = EntryStops(entries[a[i]]) /\ IsList(ss[i])
    <2>1. \A i \in 1..Len(known) : ss[i] = EntryStops(entries[a[i]]) /\ IsList(ss[i])
      BY <1>3, EntryStopsAre
    <2>2. ASSUME NEW i \in 1..Len(known) PROVE ss[i] \in Seq(S)
      <3>1. ss[i] \in Seq(ToSet(ss[i])) /\ Len(ss[i]) \in Nat /\ DOMAIN ss[i] = 1..Len(ss[i])
        BY <2>1, ListsAre
      <3>2. ToSet(ss[i]) \subseteq S
        BY <2>1, <1>3
      <3>. HIDE DEF ss, S
      <3>3. ss[i] \in [1..Len(ss[i]) -> S]
        BY <3>1, <3>2
      <3>. QED  BY <3>1, <3>3
    <2>3. ss \in [1..Len(known) -> Seq(S)]
      BY <1>3, <2>2
    <2>. HIDE DEF ss, S
    <2>. QED  BY <1>3, <2>1, <2>3
  <1>. HIDE DEF ss, S
  <1>5. flat \in Seq(S) /\ \E b, c : Joins(flat, ss, Len(ss), b, c)
    BY <1>4, FlatIs
  <1>6. PICK b, c : Joins(flat, ss, Len(ss), b, c)
    BY <1>5
  <1>. HIDE DEF flat
  <1>7. /\ stops \in Seq(S \cup {Stop(primary, FALSE)}) /\ Len(stops) = Len(flat) + 1 /\ stops[1] = Stop(primary, FALSE)
        /\ Len(flat) \in Nat /\ \A z \in 2..Len(stops) : z - 1 \in 1..Len(flat) /\ stops[z] = flat[z - 1]
        /\ \A k \in 1..Len(flat) : k + 1 \in 2..Len(stops) /\ stops[k + 1] = flat[k]
    <2>. DEFINE T == S \cup {Stop(primary, FALSE)}
                x == Stop(primary, FALSE)
    <2>1. flat \in Seq(T) /\ x \in T /\ Len(flat) \in Nat
      <3>1. flat \in [1..Len(flat) -> S] /\ Len(flat) \in Nat
        BY <1>5
      <3>2. flat \in [1..Len(flat) -> T]
        BY <3>1
      <3>3. x \in T
        OBVIOUS
      <3>. HIDE DEF T, x
      <3>. QED  BY <3>1, <3>2, <3>3
    <2>. HIDE DEF T, x
    <2>2. LET s == <<x>> \o flat
          IN  /\ s \in Seq(T) /\ Len(s) = Len(flat) + 1 /\ s[1] = x
              /\ \A z \in 2..Len(s) : z - 1 \in 1..Len(flat) /\ s[z] = flat[z - 1]
              /\ \A k \in 1..Len(flat) : k + 1 \in 2..Len(s) /\ s[k + 1] = flat[k]
      BY <2>1
    <2>. QED  BY <2>1, <2>2, Zenon DEF T, x
  <1>. HIDE DEF stops
  <1>. DEFINE e == [z \in 2..Len(stops) |-> a[b[z - 1]]]
  <1>8. \A z \in 2..Len(stops) : e[z] = a[b[z - 1]]
    OBVIOUS
  <1>. HIDE DEF e
  <1>9. ASSUME NEW z \in 2..Len(stops)
        PROVE  /\ b[z - 1] \in 1..Len(known) /\ e[z] \in 1..Len(entries) /\ entries[e[z]].p \in providers
               /\ stops[z] \in ToSet(EntryStops(entries[e[z]]))
    <2>1. z - 1 \in 1..Len(flat) /\ stops[z] = flat[z - 1]
      BY <1>7
    <2>2. /\ b[z - 1] \in 1..Len(ss) /\ c[z - 1] \in 1..Len(ss[b[z - 1]])
          /\ flat[z - 1] = ss[b[z - 1]][c[z - 1]]
      BY <2>1, <1>6 DEF Joins
    <2>3. b[z - 1] \in 1..Len(known) /\ e[z] = a[b[z - 1]]
      BY <2>2, <1>4, <1>8
    <2>4. /\ e[z] \in 1..Len(entries) /\ entries[e[z]].p \in providers
          /\ ss[b[z - 1]] = EntryStops(entries[e[z]]) /\ IsList(ss[b[z - 1]])
      BY <2>3, <1>3, <1>4, Zenon
    <2>5. flat[z - 1] \in ToSet(ss[b[z - 1]])
      BY <2>2, <2>4, ListsAre, Zenon
    <2>. QED  BY <2>1, <2>3, <2>4, <2>5, Zenon
  <1>10. ASSUME NEW y \in 2..Len(stops), NEW z \in 2..Len(stops), y < z PROVE e[y] <= e[z]
    <2>1. y - 1 \in 1..Len(flat) /\ z - 1 \in 1..Len(flat) /\ y - 1 < z - 1
      BY <1>7, <1>10
    <2>2. b[y - 1] < b[z - 1] \/ b[y - 1] = b[z - 1]
      BY <2>1, <1>6 DEF Joins
    <2>3. b[y - 1] \in 1..Len(known) /\ b[z - 1] \in 1..Len(known)
      BY <1>9
    <2>4. CASE b[y - 1] = b[z - 1]
      <3>1. e[y] = e[z] /\ e[y] \in 1..Len(entries)
        BY <2>4, <1>8, <1>9
      <3>. QED  BY <3>1
    <2>5. CASE b[y - 1] < b[z - 1]
      <3>1. a[b[y - 1]] < a[b[z - 1]]
        BY <2>3, <2>5, <1>2 DEF Picks
      <3>2. e[y] < e[z]
        BY <3>1, <1>8, Zenon
      <3>. QED  BY <3>2, <1>9
    <2>. QED  BY <2>2, <2>4, <2>5
  <1>11. ASSUME NEW x \in 1..Len(entries), entries[x].p \in providers, NEW t \in ToSet(EntryStops(entries[x]))
         PROVE  \E z \in 2..Len(stops) : e[z] = x /\ stops[z] = t
    <2>1. x \in places
      BY <1>1, <1>11 DEF places
    <2>2. PICK i \in 1..Len(known) : a[i] = x
      BY <2>1, <1>2 DEF Picks
    <2>3. ss[i] = EntryStops(entries[x]) /\ IsList(ss[i]) /\ i \in 1..Len(ss)
      BY <2>2, <1>4
    <2>4. PICK j \in 1..Len(ss[i]) : ss[i][j] = t
      BY <2>3, ListsAre
    <2>5. PICK k \in 1..Len(flat) : b[k] = i /\ c[k] = j
      BY <2>3, <2>4, <1>6 DEF Joins
    <2>6. flat[k] = t
      BY <2>4, <2>5, <1>6 DEF Joins
    <2>7. k + 1 \in 2..Len(stops) /\ stops[k + 1] = t /\ (k + 1) - 1 = k
      BY <1>7, <2>6
    <2>8. e[k + 1] = x
      <3>1. e[k + 1] = a[b[(k + 1) - 1]]
        BY <2>7, <1>8
      <3>. QED  BY <3>1, <2>2, <2>5, <2>7
    <2>. QED  BY <2>7, <2>8
  <1>12. IsList(stops) /\ Len(stops) >= 1 /\ stops[1] = Stop(primary, FALSE)
    BY <1>7, ListOf
  <1>13. Plans(stops, entries, providers, primary, e)
    BY <1>9, <1>10, <1>11, <1>12, Zenon DEF Plans
  <1>. QED  BY <1>13 DEF stops, flat, ss, known, places

LEMMA LanesInAre ==
    ASSUME NEW entries, NEW l
    PROVE  (l \in LanesIn(entries)) <=> \E i \in DOMAIN entries : \E s \in ToSet(EntryStops(entries[i])) : s.lane = l
  <1>1. (l \in LanesIn(entries)) <=> \E s \in UNION {ToSet(EntryStops(entries[i])) : i \in DOMAIN entries} : s.lane = l
    BY Zenon DEF LanesIn
  <1>. QED  BY <1>1, Zenon

(* The first stops, of no more providers than the cap allows.               *)
LEMMA TrimmedIs ==
    ASSUME NEW S, NEW stops \in Seq(S), Len(stops) >= 1, NEW max \in Nat, max # 0
    PROVE  \E n \in 1..Len(stops) :
              LET t == trimToMaxProviders(stops, max)
              IN  /\ t \in Seq(S) /\ Len(t) = n /\ \A i \in 1..n : t[i] = stops[i]
                  /\ IsFiniteSet(ProvidersOf(t)) /\ Cardinality(ProvidersOf(t)) <= max
  <1>. DEFINE fits == {n \in 1..Len(stops) : n = 1 \/ Cardinality(ProvidersOf(SubSeq(stops, 1, n))) <= max}
              most == CHOOSE n \in fits : \A k \in fits : k <= n
              t == SubSeq(stops, 1, most)
  <1>1. PICK n \in fits : \A k \in fits : k <= n
    <2>. DEFINE Rest == {Len(stops) - n : n \in fits}
    <2>1. Rest \subseteq Nat /\ Rest # {}
      <3>1. 1 \in fits /\ \A n \in fits : n \in 1..Len(stops)
        OBVIOUS
      <3>. HIDE DEF fits
      <3>. QED  BY <3>1
    <2>2. PICK r \in Rest : \A q \in Rest : r <= q
      <3>. HIDE DEF Rest
      <3>. QED  BY <2>1, LeastOne
    <2>3. PICK n \in fits : r = Len(stops) - n
      OBVIOUS
    <2>4. \A k \in fits : k <= n
      <3>1. \A k \in fits : k \in Int /\ n \in Int /\ Len(stops) \in Int
        OBVIOUS
      <3>. HIDE DEF fits
      <3>2. \A k \in fits : Len(stops) - n <= Len(stops) - k
        BY <2>2, <2>3
      <3>. QED  BY <3>1, <3>2
    <2>. QED  BY <2>4
  <1>2. most \in fits
    <2>. HIDE DEF fits
    <2>. QED  BY <1>1
  <1>. HIDE DEF most
  <1>3. most \in 1..Len(stops) /\ (most = 1 \/ Cardinality(ProvidersOf(t)) <= max)
    BY <1>2
  <1>4. t \in Seq(S) /\ Len(t) = most /\ \A i \in 1..most : t[i] = stops[i]
    BY <1>3
  <1>5. t = trimToMaxProviders(stops, max)
    BY DEF trimToMaxProviders, most
  <1>. HIDE DEF t, fits
  <1>6. DOMAIN t = 1..most
    BY <1>4
  <1>7. IsFiniteSet(ProvidersOf(t))
    <2>1. IsFiniteSet(1..most)
      BY <1>3, FS_Interval
    <2>. DEFINE f == [i \in 1..most |-> t[i].lane.p]
                image == {t[i].lane.p : i \in 1..most}
    <2>2. f \in Surjection(1..most, image)
      BY DEF Surjection
    <2>3. IsFiniteSet(image)
      <3>. HIDE DEF f, image
      <3>. QED  BY <2>1, <2>2, FS_Surjection
    <2>. QED  BY <2>3, <1>6 DEF ProvidersOf
  <1>8. Cardinality(ProvidersOf(t)) <= max
    <2>1. CASE most = 1
      <3>1. ProvidersOf(t) = {t[1].lane.p}
        BY <1>6, <2>1 DEF ProvidersOf
      <3>2. Cardinality(ProvidersOf(t)) = 1
        BY <3>1, FS_Singleton
      <3>. QED  BY <3>2
    <2>. QED  BY <1>3, <2>1
  <1>. QED  BY <1>3, <1>4, <1>5, <1>7, <1>8

(* What a plan resolves to: the primary first, each lane once, marked if an *)
(* entry marks it, trusted lanes before others, all of them or within the   *)
(* cap.                                                                     *)
Resolves(t, policy, primary, providers) ==
    /\ IsList(t) /\ Len(t) >= 1 /\ t[1].lane = primary
    /\ \A x \in 1..Len(t) : /\ t[x] = Stop(t[x].lane, t[x].terminal) /\ t[x].terminal \in BOOLEAN
                            /\ t[x].lane.p \in providers /\ MarkedIn(PlanEntries(policy), t[x].lane) <=> t[x].terminal
    /\ \A x, y \in 1..Len(t) : t[x].lane = t[y].lane => x = y
    /\ \A x, y \in 1..Len(t) : x < y /\ t[y].lane \in LanesIn(policy.trusted) => t[x].lane \in LanesIn(policy.trusted) \cup {primary}
    /\ policy.max # 0 => IsFiniteSet(ProvidersOf(t)) /\ Cardinality(ProvidersOf(t)) <= policy.max
    /\ policy.max = 0 => \A l \in LanesIn(PlanEntries(policy)) : l.p \in providers => \E x \in 1..Len(t) : t[x].lane = l

(* Every policy resolves, for every lane a request lands on.                *)
LEMMA ResolvedIs ==
    ASSUME NEW policy, IsLanePolicy(policy), NEW primary, NEW providers
    PROVE  Resolves(resolvePolicyLanes(policy, primary, providers), policy, primary, providers)
  <1>. DEFINE entries == PlanEntries(policy)
              n == Len(policy.trusted)
              known == Those(entries, {i \in DOMAIN entries : entries[i].p \in providers})
              stops == <<Stop(primary, FALSE)>> \o FlattenSeq([i \in DOMAIN known |-> EntryStops(known[i])])
              t == Merged(stops)
              r == resolvePolicyLanes(policy, primary, providers)
  <1>1. /\ n \in Nat /\ IsList(entries) /\ DOMAIN policy.trusted = 1..n /\ Len(entries) \in Nat /\ DOMAIN entries = 1..Len(entries)
        /\ n <= Len(entries) /\ \A i \in 1..n : entries[i] = policy.trusted[i]
        /\ \A i \in 1..Len(entries) : IsEntry(entries[i])
    <2>1. /\ n \in Nat /\ Len(policy.fallback) \in Nat /\ IsList(entries) /\ DOMAIN policy.trusted = 1..n
          /\ Len(entries) = n + Len(policy.fallback) /\ \A i \in 1..n : entries[i] = policy.trusted[i]
          /\ \A i \in 1..n + Len(policy.fallback) : IsEntry(entries[i])
      BY EntriesAre, Zenon
    <2>2. DOMAIN entries = 1..Len(entries)
      BY <2>1, ListsAre
    <2>. HIDE DEF n, entries
    <2>. QED  BY <2>1, <2>2
  <1>2. r = IF policy.max = 0 THEN t ELSE trimToMaxProviders(t, policy.max)
    BY DEF resolvePolicyLanes
  <1>3. PICK e : Plans(stops, entries, providers, primary, e)
    <2>. HIDE DEF entries, n, t, r
    <2>1. IsList(entries) /\ \A i \in 1..Len(entries) : IsEntry(entries[i])
      BY <1>1
    <2>. QED  BY <2>1, PlansAre, ZenonT(60)
  <1>. HIDE DEF known, stops
  <1>4. stops \in Seq(ToSet(stops)) /\ Len(stops) \in Nat /\ Len(stops) >= 1 /\ stops[1] = Stop(primary, FALSE) /\ DOMAIN stops = 1..Len(stops)
    BY <1>3, ListsAre DEF Plans
  <1>5. PICK a : Merges(t, stops, a)
    BY <1>4, MergedIs
  <1>. HIDE DEF t, r, entries, n
  <1>6. IsList(t) /\ t \in Seq(ToSet(t)) /\ Len(t) \in Nat /\ Len(t) >= 1 /\ DOMAIN t = 1..Len(t) /\ t[1].lane = primary
    BY <1>4, <1>5, ListsAre DEF Merges, Stop
  <1>7. ASSUME NEW z \in 2..Len(stops)
        PROVE  /\ e[z] \in 1..Len(entries) /\ entries[e[z]].p \in providers
               /\ stops[z].lane.p = entries[e[z]].p /\ stops[z] \in ToSet(EntryStops(entries[e[z]]))
    <2>1. e[z] \in 1..Len(entries) /\ entries[e[z]].p \in providers /\ stops[z] \in ToSet(EntryStops(entries[e[z]]))
      BY <1>3 DEF Plans
    <2>. QED  BY <2>1, <1>1, EntryStopsAre
  <1>8. ASSUME NEW i \in 1..Len(entries), NEW s \in ToSet(EntryStops(entries[i])), s.lane.p \in providers
        PROVE  \E z \in 2..Len(stops) : e[z] = i /\ stops[z] = s
    <2>1. entries[i].p \in providers
      BY <1>1, <1>8, EntryStopsAre
    <2>. QED  BY <2>1, <1>3 DEF Plans
  <1>9. \A l : l \in LanesIn(entries) <=> \E i \in 1..Len(entries) : \E s \in ToSet(EntryStops(entries[i])) : s.lane = l
    BY <1>1, LanesInAre, Zenon
  <1>10. \A l : l \in LanesIn(policy.trusted) <=> \E i \in 1..n : \E s \in ToSet(EntryStops(entries[i])) : s.lane = l
    <2>1. \A l : l \in LanesIn(policy.trusted) <=> \E i \in 1..n : \E s \in ToSet(EntryStops(policy.trusted[i])) : s.lane = l
      BY <1>1, LanesInAre, Zenon
    <2>. QED  BY <2>1, <1>1
  <1>11. ASSUME NEW x \in 1..Len(t)
         PROVE  /\ a[x] \in 1..Len(stops) /\ t[x].lane = stops[a[x]].lane
                /\ t[x] = Stop(t[x].lane, t[x].terminal) /\ t[x].terminal \in BOOLEAN
                /\ t[x].lane.p \in providers /\ MarkedIn(entries, t[x].lane) <=> t[x].terminal
    <2>1. /\ a[x] \in 1..Len(stops) /\ t[x].lane = stops[a[x]].lane
          /\ t[x] = Stop(stops[a[x]].lane, IsMarked(stops, stops[a[x]].lane))
      BY <1>5 DEF Merges
    <2>2. t[x].terminal = IsMarked(stops, t[x].lane) /\ IsMarked(stops, t[x].lane) \in BOOLEAN
      <3>1. t[x].terminal = IsMarked(stops, stops[a[x]].lane)
        BY <2>1 DEF Stop
      <3>. QED  BY <2>1, <3>1 DEF IsMarked
    <2>3. ASSUME t[x].lane.p \in providers, MarkedIn(entries, t[x].lane) PROVE t[x].terminal
      <3>1. PICK i \in 1..Len(entries) : entries[i].terminal /\ \E s \in ToSet(EntryStops(entries[i])) : s.lane = t[x].lane
        BY <1>1, <2>3 DEF MarkedIn
      <3>2. PICK s \in ToSet(EntryStops(entries[i])) : s.lane = t[x].lane
        BY <3>1
      <3>3. s = Stop(t[x].lane, TRUE)
        <4>1. IsEntry(entries[i]) /\ entries[i].terminal = TRUE
          BY <1>1, <3>1 DEF IsEntry
        <4>2. s = Stop(s.lane, entries[i].terminal)
          BY <4>1, <3>2, EntryStopsAre, Zenon
        <4>. QED  BY <4>1, <4>2, <3>2, Zenon
      <3>4. PICK z \in 2..Len(stops) : stops[z] = s
        BY <1>8, <2>3, <3>2
      <3>5. z \in DOMAIN stops /\ stops[z] = Stop(t[x].lane, TRUE)
        <4>1. z \in DOMAIN stops
          BY <1>4
        <4>. QED  BY <4>1, <3>3, <3>4, Zenon
      <3>. QED  BY <2>2, <3>5 DEF IsMarked
    <2>4. ASSUME t[x].terminal PROVE t[x].lane.p \in providers /\ MarkedIn(entries, t[x].lane)
      <3>1. PICK z \in 1..Len(stops) : stops[z] = Stop(t[x].lane, TRUE)
        BY <1>4, <2>2, <2>4 DEF IsMarked
      <3>2. stops[z].lane = t[x].lane /\ stops[z].terminal = TRUE /\ z # 1
        BY <1>4, <3>1 DEF Stop
      <3>3. z \in 2..Len(stops)
        BY <3>2
      <3>4. /\ e[z] \in 1..Len(entries) /\ entries[e[z]].p \in providers
            /\ stops[z].lane.p = entries[e[z]].p /\ stops[z] \in ToSet(EntryStops(entries[e[z]]))
        BY <3>3, <1>7
      <3>5. stops[z].terminal = entries[e[z]].terminal
        BY <3>4, <1>1, EntryStopsAre, Zenon
      <3>6. entries[e[z]].terminal /\ stops[z].lane \in {s.lane : s \in ToSet(EntryStops(entries[e[z]]))}
        BY <3>2, <3>4, <3>5
      <3>. QED  BY <1>1, <3>2, <3>4, <3>6, Zenon DEF MarkedIn
    <2>5. t[x].terminal \in BOOLEAN
      BY <2>2
    <2>. QED  BY <2>1, <2>2, <2>3, <2>4, <2>5, Zenon
  <1>12. ASSUME NEW x \in 1..Len(t), NEW y \in 1..Len(t), x < y, t[y].lane \in LanesIn(policy.trusted)
         PROVE  t[x].lane \in LanesIn(policy.trusted) \cup {primary}
    <2>1. a[x] < a[y] /\ a[x] \in 1..Len(stops) /\ a[y] \in 1..Len(stops)
      BY <1>5, <1>11, <1>12 DEF Merges
    <2>2. a[y] \in 2..Len(stops)
      BY <2>1
    <2>3. t[y].lane.p \in providers
      BY <2>2, <1>7, <1>11
    <2>4. PICK i \in 1..n : \E s \in ToSet(EntryStops(entries[i])) : s.lane = t[y].lane
      BY <1>10, <1>12
    <2>5. PICK s \in ToSet(EntryStops(entries[i])) : s.lane = t[y].lane
      BY <2>4
    <2>6. i \in 1..Len(entries)
      BY <1>1
    <2>7. PICK z \in 2..Len(stops) : e[z] = i /\ stops[z] = s
      BY <2>3, <2>5, <2>6, <1>8
    <2>8. z \in 1..Len(stops) /\ ~(z < a[y])
      <3>1. z \in 1..Len(stops) /\ stops[z].lane = stops[a[y]].lane
        BY <2>5, <2>7, <1>11
      <3>. QED  BY <3>1, <1>5 DEF Merges
    <2>9. CASE a[x] = 1
      <3>1. t[x].lane = primary
        <4>1. stops[1].lane = primary
          BY <1>4 DEF Stop
        <4>. QED  BY <4>1, <2>9, <1>11
      <3>. QED  BY <3>1
    <2>10. CASE a[x] # 1
      <3>1. a[x] \in 2..Len(stops) /\ a[x] < z
        BY <2>1, <2>8, <2>10
      <3>2. e[a[x]] <= i /\ e[a[x]] \in 1..Len(entries)
        BY <3>1, <2>7, <1>3, <1>7 DEF Plans
      <3>3. e[a[x]] \in 1..n
        BY <3>2, <1>1
      <3>4. stops[a[x]] \in ToSet(EntryStops(entries[e[a[x]]])) /\ stops[a[x]].lane = t[x].lane
        BY <3>1, <1>7, <1>11
      <3>. QED  BY <3>3, <3>4, <1>10
    <2>. QED  BY <2>9, <2>10
  <1>13. ASSUME NEW l \in LanesIn(entries), l.p \in providers PROVE \E x \in 1..Len(t) : t[x].lane = l
    <2>1. PICK i \in 1..Len(entries) : \E s \in ToSet(EntryStops(entries[i])) : s.lane = l
      BY <1>9
    <2>2. PICK s \in ToSet(EntryStops(entries[i])) : s.lane = l
      BY <2>1
    <2>3. PICK z \in 2..Len(stops) : stops[z] = s
      BY <1>8, <1>13, <2>2
    <2>4. z \in 1..Len(stops) /\ stops[z].lane = l
      BY <2>2, <2>3
    <2>5. PICK x \in 1..Len(t) : t[x].lane = stops[z].lane
      BY <2>4, <1>5 DEF Merges
    <2>. QED  BY <2>4, <2>5
  <1>14. \A x, y \in 1..Len(t) : t[x].lane = t[y].lane => x = y
    BY <1>5 DEF Merges
  <1>15. CASE policy.max = 0
    <2>1. r = t
      BY <1>2, <1>15
    <2>2. Resolves(t, policy, primary, providers)
      BY <1>6, <1>11, <1>12, <1>13, <1>14, <1>15, Zenon DEF Resolves, entries
    <2>. QED  BY <2>1, <2>2 DEF r
  <1>16. CASE policy.max # 0
    <2>1. policy.max \in Nat /\ r = trimToMaxProviders(t, policy.max)
      BY <1>2, <1>16 DEF IsLanePolicy
    <2>2. PICK m \in 1..Len(t) : /\ r \in Seq(ToSet(t)) /\ Len(r) = m /\ \A i \in 1..m : r[i] = t[i]
                                 /\ IsFiniteSet(ProvidersOf(r)) /\ Cardinality(ProvidersOf(r)) <= policy.max
      <3>. DEFINE S == ToSet(t)
                  max == policy.max
                  Fits(n0) == LET u == trimToMaxProviders(t, max)
                              IN  /\ u \in Seq(S) /\ Len(u) = n0 /\ \A i \in 1..n0 : u[i] = t[i]
                                  /\ IsFiniteSet(ProvidersOf(u)) /\ Cardinality(ProvidersOf(u)) <= max
      <3>1. t \in Seq(S) /\ Len(t) >= 1 /\ max \in Nat /\ max # 0
        BY <1>6, <1>16, <2>1
      <3>. HIDE DEF S, max
      <3>2. \E m \in 1..Len(t) : Fits(m)
        BY <3>1, TrimmedIs, Zenon
      <3>. USE DEF S, max
      <3>. QED  BY <3>2, <2>1, Zenon
    <2>3. IsList(r) /\ Len(r) >= 1 /\ r[1].lane = primary
      BY <1>6, <2>2, ListOf
    <2>4. \A i \in 1..Len(r) : i \in 1..Len(t) /\ r[i] = t[i]
      BY <1>6, <2>2
    <2>5. \A x \in 1..Len(r) : /\ r[x] = Stop(r[x].lane, r[x].terminal) /\ r[x].terminal \in BOOLEAN
                               /\ r[x].lane.p \in providers /\ MarkedIn(entries, r[x].lane) <=> r[x].terminal
      BY <1>11, <2>4, Zenon
    <2>6. \A x, y \in 1..Len(r) : r[x].lane = r[y].lane => x = y
      BY <1>14, <2>4, Zenon
    <2>7. \A x, y \in 1..Len(r) : x < y /\ r[y].lane \in LanesIn(policy.trusted) => r[x].lane \in LanesIn(policy.trusted) \cup {primary}
      BY <1>12, <2>4, Zenon
    <2>8. Resolves(r, policy, primary, providers)
      BY <1>16, <2>2, <2>3, <2>5, <2>6, <2>7, Zenon DEF Resolves, entries
    <2>. QED  BY <2>8 DEF r
  <1>. QED  BY <1>15, <1>16

-----------------------------------------------------------------------------
(* Routes                                                                   *)

(* The bridge keeps every field of its configuration, and the handler every *)
(* one of its variables.                                                    *)
RoutesIInv ==
    /\ ConfigFields \subseteq DOMAIN server
    /\ DOMAIN req = DOMAIN Quiet
    /\ ConfigurationIsWhole

LEMMA ConstructedIsWhole ==
    ASSUME NEW o \in Options
    PROVE  LET s == Constructed(o, 1)
           IN  /\ ConfigFields \subseteq DOMAIN s /\ s.auto \in BOOLEAN /\ s.engine \in {0, 1}
               /\ ~(s.auto /\ s.policy # NoPolicy)
               /\ s.policy # NoPolicy \/ hasIntentProfiles(s.intents) => s.engine # 0
               /\ s.source = Registry(s)
  BY RoutesAssumption DEF Constructed, ConfigFields, Registry, hasIntentProfiles, NoCatalog

LEMMA ReconfiguredIsWhole ==
    ASSUME NEW s, NEW q \in Partials, NEW engine \in Nat \ {0},
           ConfigFields \subseteq DOMAIN s, s.auto \in BOOLEAN,
           ~(s.auto /\ s.policy # NoPolicy),
           s.policy # NoPolicy \/ hasIntentProfiles(s.intents) => s.engine # 0,
           s.source = Registry(s)
    PROVE  LET t == Reconfigured(s, q, engine).to
           IN  /\ ConfigFields \subseteq DOMAIN t /\ t.auto \in BOOLEAN /\ t.engine \in {s.engine, engine}
               /\ ~(t.auto /\ t.policy # NoPolicy)
               /\ t.policy # NoPolicy \/ hasIntentProfiles(t.intents) => t.engine # 0
               /\ t.source = Registry(t)
  <1>. DEFINE served  == [s EXCEPT !.providers = Given(q, "providers", @), !.catalog = Given(q, "catalog", @),
                             !.source = IF "catalog" \in DOMAIN q THEN q.catalog
                                        ELSE IF "providers" \in DOMAIN q /\ s.catalog = NoCatalog THEN ToSet(q.providers)
                                        ELSE @]
              planned == [served EXCEPT !.policy = Given(q, "policy", @), !.intents = Given(q, "intents", @),
                                  !.auto = @ /\ "policy" \notin DOMAIN q]
              renewed == Says(q, "cooldown") \/ "policy" \in DOMAIN q \/ Given(q, "intents", NoIntents) # NoIntents
              done == [planned EXCEPT !.auto = Given(q, "auto", @), !.engine = IF renewed THEN engine ELSE @,
                                     !.default = Given(q, "default", @), !.model = Given(q, "model", @),
                                     !.pin = Given(q, "pin", @)]
              t == Reconfigured(s, q, engine).to
  <1>a. "auto" \in DOMAIN q => q.auto \in BOOLEAN /\ ~(q.auto /\ "policy" \in DOMAIN q)
    BY RoutesAssumption, Zenon
  <1>b. "catalog" \in DOMAIN q => q.catalog # NoCatalog
    BY RoutesAssumption, Zenon
  <1>1. /\ ConfigFields \subseteq DOMAIN served /\ served.auto = s.auto /\ served.policy = s.policy
        /\ served.engine = s.engine /\ served.intents = s.intents /\ served.source = Registry(served)
    <2>1. /\ ConfigFields \subseteq DOMAIN served /\ served.auto = s.auto /\ served.policy = s.policy
          /\ served.engine = s.engine /\ served.intents = s.intents
          /\ served.providers = Given(q, "providers", s.providers) /\ served.catalog = Given(q, "catalog", s.catalog)
          /\ served.source = IF "catalog" \in DOMAIN q THEN q.catalog
                             ELSE IF "providers" \in DOMAIN q /\ s.catalog = NoCatalog THEN ToSet(q.providers)
                             ELSE s.source
      BY DEF ConfigFields
    <2>. HIDE DEF served
    <2>2. served.source = Registry(served)
      <3>1. CASE "catalog" \in DOMAIN q
        BY <2>1, <3>1, <1>b DEF Registry, Given
      <3>2. CASE "catalog" \notin DOMAIN q
        BY <2>1, <3>2 DEF Registry, Given
      <3>. QED  BY <3>1, <3>2
    <2>. QED  BY <2>1, <2>2
  <1>2. /\ ConfigFields \subseteq DOMAIN planned /\ planned.auto = (s.auto /\ "policy" \notin DOMAIN q)
        /\ planned.policy = Given(q, "policy", s.policy)
        /\ planned.engine = s.engine /\ planned.intents = Given(q, "intents", s.intents)
        /\ planned.source = Registry(planned)
    <2>. HIDE DEF served
    <2>. QED  BY <1>1 DEF ConfigFields, Registry
  <1>3. /\ ConfigFields \subseteq DOMAIN done /\ done.auto = Given(q, "auto", planned.auto)
        /\ done.policy = planned.policy
        /\ done.engine = (IF renewed THEN engine ELSE s.engine) /\ done.intents = planned.intents
        /\ done.source = Registry(done)
    <2>. HIDE DEF planned, renewed
    <2>. QED  BY <1>2 DEF ConfigFields, Registry
  <1>. HIDE DEF served, planned, done
  <1>4. CASE "policy" \in DOMAIN q /\ s.auto
    <2>1. t = served
      BY <1>4 DEF Reconfigured, served
    <2>. QED  BY <2>1, <1>1
  <1>5. CASE ~("policy" \in DOMAIN q /\ s.auto) /\ Says(q, "auto") /\ planned.policy # NoPolicy
    <2>1. t = planned
      BY <1>5 DEF Reconfigured, planned, served
    <2>2. "policy" \notin DOMAIN q
      BY <1>5, <1>a, Zenon DEF Says
    <2>. QED  BY <2>1, <2>2, <1>2, <1>5 DEF Given, Says
  <1>6. CASE ~("policy" \in DOMAIN q /\ s.auto) /\ ~(Says(q, "auto") /\ planned.policy # NoPolicy)
    <2>1. t = done
      BY <1>6 DEF Reconfigured, planned, served, done
    <2>2. done.auto \in BOOLEAN /\ ~(done.auto /\ done.policy # NoPolicy)
      <3>1. CASE "auto" \in DOMAIN q
        <4>1. /\ done.auto = q.auto /\ q.auto \in BOOLEAN
              /\ q.auto => "policy" \notin DOMAIN q /\ planned.policy = NoPolicy
          BY <3>1, <1>3, <1>6, <1>a, Zenon DEF Given, Says
        <4>. QED  BY <4>1, <1>3, Zenon
      <3>2. CASE "auto" \notin DOMAIN q
        <4>1. done.auto = (s.auto /\ "policy" \notin DOMAIN q)
          BY <3>2, <1>2, <1>3, Zenon DEF Given
        <4>2. s.auto /\ "policy" \notin DOMAIN q => done.policy = NoPolicy
          BY <1>2, <1>3, Zenon DEF Given
        <4>. QED  BY <4>1, <4>2, Zenon
      <3>. QED  BY <3>1, <3>2
    <2>3. done.policy # NoPolicy \/ hasIntentProfiles(done.intents) => done.engine # 0
      BY <1>2, <1>3 DEF Given, hasIntentProfiles, NoIntents
    <2>. QED  BY <2>1, <2>2, <2>3, <1>3
  <1>. QED  BY <1>4, <1>5, <1>6

RequestFields ==
    {"at", "ask", "route", "intent", "policy", "calm", "stops", "todo", "max", "engine", "i", "called", "skipped"}

LEMMA QuietFields == DOMAIN Quiet = RequestFields /\ Quiet.at = "none"
  BY DEF Quiet, RequestFields

LEMMA ProceedPlaces ==
    ASSUME NEW q, DOMAIN q = RequestFields
    PROVE  /\ Proceed(q).at \in {"refused", "resolving", "walking"}
           /\ DOMAIN Proceed(q) = RequestFields
  <1>1. Begun(q).at \in {"refused", "walking"} /\ DOMAIN Begun(q) = DOMAIN q
    BY DEF Begun, RequestFields
  <1>2. \A stops, todo : LET r == [q EXCEPT !.at = "resolving", !.stops = stops, !.todo = todo]
                       IN  r.at = "resolving" /\ DOMAIN r = DOMAIN q
    BY DEF RequestFields
  <1>. QED  BY <1>1, <1>2 DEF Proceed

(* A step of the handler leaves the configuration alone. *)
LEMMA HandlerStep ==
    ASSUME RoutesIInv, UNCHANGED <<server, reconfigures>>, DOMAIN req' = RequestFields,
           req'.at \in {"none", "routed", "displacing", "resolving", "walking", "refused", "answered", "exhausted", "rejected"}
    PROVE  RoutesIInv'
  BY QuietFields, Zenon DEF RoutesIInv, ConfigurationIsWhole, TypeOK, PlansAreExclusive, MemoryForPlans, SourceFollowsProviders, Quiet, Registry

LEMMA RoutesInitially == Init => RoutesIInv
  <1>. SUFFICES ASSUME Init PROVE RoutesIInv
    OBVIOUS
  <1>1. PICK o \in Options : server = Constructed(o, 1)
    BY DEF Init
  <1>2. TypeOK
    <2>1. server.engine \in {0, 1} /\ server.auto \in BOOLEAN
      BY <1>1, ConstructedIsWhole, Zenon
    <2>2. server.engine \in 0..MaxReconfigures + 1 /\ 0 \in 0..MaxReconfigures
      BY <2>1, RoutesAssumption
    <2>. QED  BY <2>1, <2>2, QuietFields, Zenon DEF TypeOK, Init
  <1>3. ConfigFields \subseteq DOMAIN server /\ PlansAreExclusive /\ MemoryForPlans /\ SourceFollowsProviders
    BY <1>1, ConstructedIsWhole, Zenon DEF PlansAreExclusive, MemoryForPlans, SourceFollowsProviders
  <1>. QED  BY <1>2, <1>3 DEF RoutesIInv, ConfigurationIsWhole, Init

LEMMA RoutesStep == RoutesIInv /\ [Next]_vars => RoutesIInv'
  <1>. SUFFICES ASSUME RoutesIInv, [Next]_vars PROVE RoutesIInv'
    OBVIOUS
  <1>0. DOMAIN req = RequestFields
    BY QuietFields DEF RoutesIInv
  <1>1. ASSUME NEW ask \in Asks, Arrive(ask) PROVE RoutesIInv'
    <2>1. DOMAIN req' = RequestFields /\ req'.at \in {"refused", "routed"} /\ UNCHANGED <<server, reconfigures>>
      BY <1>1, QuietFields DEF Arrive, RequestFields
    <2>. QED  BY <2>1, HandlerStep
  <1>2. CASE Plan
    <2>. DEFINE policy == policyFor(server, intentFor(server, req.ask))
                q == [req EXCEPT !.intent = intentFor(server, req.ask), !.policy = policy,
                                 !.stops = <<PrimaryStop(server, req.route.primary, policy)>>]
                displacing == [q EXCEPT !.at = "displacing", !.stops = Append(@, Stop(req.route.displaced, FALSE))]
    <2>1. DOMAIN q = RequestFields
      BY <1>0
    <2>2. DOMAIN displacing = RequestFields /\ displacing.at = "displacing"
      <3>. HIDE DEF q
      <3>. QED  BY <2>1 DEF RequestFields
    <2>3. (req' = displacing \/ req' = Expanded(q)) /\ UNCHANGED <<server, reconfigures>>
      BY <1>2 DEF Plan
    <2>. HIDE DEF q, displacing
    <2>4. DOMAIN [q EXCEPT !.todo = laneTargetsFor(server, q.route.primary, q.policy)] = RequestFields
      BY <2>1
    <2>5. DOMAIN Expanded(q) = RequestFields /\ Expanded(q).at \in {"refused", "resolving", "walking"}
      BY <2>4, ProceedPlaces, Zenon DEF Expanded
    <2>. QED  BY <2>2, <2>3, <2>5, HandlerStep
  <1>3. CASE Expand
    <2>1. DOMAIN [req EXCEPT !.todo = laneTargetsFor(server, req.route.primary, req.policy)] = RequestFields
      BY <1>0
    <2>2. DOMAIN Expanded(req) = RequestFields /\ Expanded(req).at \in {"refused", "resolving", "walking"}
      BY <2>1, ProceedPlaces, Zenon DEF Expanded
    <2>. QED  BY <1>3, <2>2, HandlerStep DEF Expand
  <1>4. CASE Resolve
    BY <1>0, <1>4, ProceedPlaces, HandlerStep DEF Resolve
  <1>5. CASE Skip \/ Works \/ Fails \/ Refuses \/ RunsOut
    <2>1. /\ DOMAIN req' = RequestFields /\ UNCHANGED <<server, reconfigures>>
          /\ req'.at \in {"walking", "exhausted", "answered", "rejected"}
      BY <1>0, <1>5 DEF Skip, Works, Fails, Refuses, RunsOut, Called, Walking, RequestFields
    <2>. QED  BY <2>1, HandlerStep
  <1>6. CASE Forget
    BY <1>6, QuietFields, HandlerStep DEF Forget
  <1>7. ASSUME NEW q \in Partials, Reconfigure(q) PROVE RoutesIInv'
    <2>1. /\ reconfigures \in Nat /\ reconfigures < MaxReconfigures /\ reconfigures' = reconfigures + 1
          /\ server' = Reconfigured(server, q, reconfigures + 2).to /\ reconfigures + 2 \in Nat \ {0}
      BY <1>7 DEF Reconfigure, RoutesIInv, ConfigurationIsWhole, TypeOK
    <2>2. /\ ConfigFields \subseteq DOMAIN server' /\ server'.auto \in BOOLEAN
          /\ server'.engine \in {server.engine, reconfigures + 2}
          /\ ~(server'.auto /\ server'.policy # NoPolicy)
          /\ server'.policy # NoPolicy \/ hasIntentProfiles(server'.intents) => server'.engine # 0
          /\ server'.source = Registry(server')
      <3>1. /\ ConfigFields \subseteq DOMAIN server /\ server.auto \in BOOLEAN
            /\ ~(server.auto /\ server.policy # NoPolicy)
            /\ server.policy # NoPolicy \/ hasIntentProfiles(server.intents) => server.engine # 0
            /\ server.source = Registry(server)
        BY Zenon DEF RoutesIInv, ConfigurationIsWhole, TypeOK, PlansAreExclusive, MemoryForPlans, SourceFollowsProviders
      <3>. DEFINE engine == reconfigures + 2
                  to == Reconfigured(server, q, engine).to
      <3>2. engine \in Nat \ {0} /\ q \in Partials /\ server' = to
        BY <2>1, <1>7
      <3>. HIDE DEF engine
      <3>3. /\ ConfigFields \subseteq DOMAIN to /\ to.auto \in BOOLEAN /\ to.engine \in {server.engine, engine}
            /\ ~(to.auto /\ to.policy # NoPolicy)
            /\ to.policy # NoPolicy \/ hasIntentProfiles(to.intents) => to.engine # 0
            /\ to.source = Registry(to)
        BY <3>1, <3>2, ReconfiguredIsWhole, Zenon
      <3>. HIDE DEF to
      <3>. QED  BY <3>2, <3>3, Zenon DEF engine, Registry
    <2>3. server'.engine \in 0..MaxReconfigures + 1 /\ reconfigures' \in 0..MaxReconfigures
      BY <2>1, <2>2, RoutesAssumption DEF RoutesIInv, ConfigurationIsWhole, TypeOK
    <2>4. DOMAIN req' = RequestFields /\ req'.at = req.at
      BY <1>0, <1>7 DEF Reconfigure, RequestFields
    <2>5. TypeOK'
      BY <2>2, <2>3, <2>4, Zenon DEF RoutesIInv, ConfigurationIsWhole, TypeOK
    <2>6. (PlansAreExclusive /\ MemoryForPlans /\ SourceFollowsProviders)'
      BY <2>2, Zenon DEF PlansAreExclusive, MemoryForPlans, SourceFollowsProviders, Registry
    <2>7. DOMAIN req' = (DOMAIN Quiet)'
      BY <2>4, QuietFields DEF Quiet, RequestFields
    <2>. QED  BY <2>2, <2>5, <2>6, <2>7, Zenon DEF RoutesIInv, ConfigurationIsWhole
  <1>8. CASE UNCHANGED vars
    BY <1>0, <1>8, HandlerStep, Zenon DEF vars, RoutesIInv, ConfigurationIsWhole, TypeOK
  <1>. QED  BY <1>1, <1>2, <1>3, <1>4, <1>5, <1>6, <1>7, <1>8 DEF Next, Step

(* No sequence of reconfigurations, of any number, leaves a bridge with half *)
(* of two: a policy together with auto mode, a plan without an engine that   *)
(* remembers its failures, or plans resolved against providers that requests *)
(* cannot reach (the constructor and reconfigure).                           *)
THEOREM ConfigurationStaysWhole == Spec => []ConfigurationIsWhole
  <1>1. RoutesIInv => ConfigurationIsWhole
    BY DEF RoutesIInv
  <1>. QED  BY RoutesInitially, RoutesStep, <1>1, PTL DEF Spec

-----------------------------------------------------------------------------
(* Requests                                                                 *)

Walked == {"walking", "answered", "exhausted", "rejected"}
Direct(q) == q.route.displaced = NoLane
Shape(q) ==
    /\ DOMAIN q = RequestFields /\ q.calm \in BOOLEAN /\ IsLanePlan(q.policy)
    /\ IsList(q.stops) /\ IsList(q.todo) /\ IsList(q.called) /\ q.i \in Nat

PlanOf(s, q) == resolvePolicyLanes(q.policy, q.route.primary, s.source)
Follows(q) == Direct(q) /\ q.calm /\ q.policy # NoPolicy
Eligible(q, l) == l # q.route.primary /\ q.route.primary.p # Cloud /\ l.p # Cloud
Keeps(s, q, l) == l = q.route.primary \/ (Eligible(q, l) /\ l.p \in Registry(s))
FreeOnly(s, q) == q.route.free \/ (s.policy # NoPolicy /\ s.policy.free)
Able(q, l) == q.ask.tools /\ q.route.primary.p # Cloud => l.p \notin Toolless

(* The first n stops of the plan are resolved, the others are to come.      *)
Halfway(s, q, n, a, b) ==
    LET r == PlanOf(s, q)
    IN  /\ n \in 1..Len(r)
        /\ Picks(q.stops, r, {x \in 1..n : Keeps(s, q, r[x].lane)}, a)
        /\ Picks(q.todo, r, {x \in n + 1..Len(r) : Eligible(q, r[x].lane)}, b)

NoneCloud(stops) == \A j \in 1..Len(stops) : stops[j].lane.p # Cloud

Resolvable(s, q) ==
    /\ Shape(q) /\ q.i = 0 /\ q.called = <<>> /\ q.skipped = {}
    /\ q.calm => q.policy = policyFor(s, q.intent)
    /\ Direct(q) =>
          /\ Len(q.stops) >= 1 /\ q.stops[1].lane = q.route.primary /\ NoneCloud(q.todo)
          /\ \A j \in 2..Len(q.stops) : q.stops[j].lane.p # Cloud
          /\ q.route.primary.p = Cloud => Len(q.stops) = 1 /\ Len(q.todo) = 0
    /\ Follows(q) => \E n, a, b : Halfway(s, q, n, a, b)

(* A walk's stops: none that bills for who asked for free lanes, a cloud    *)
(* agent alone, and those of the plan that can serve the request.           *)
Aimed(s, q) ==
    /\ q.route.free \/ (q.calm /\ s.policy # NoPolicy /\ s.policy.free) => \A j \in 1..Len(q.stops) : q.stops[j].lane \in Free
    /\ Direct(q) => \A j \in 1..Len(q.stops) : q.stops[j].lane.p = Cloud => Len(q.stops) = 1 /\ q.stops[1].lane = q.route.primary
    /\ Follows(q) =>
          /\ q.max = Len(q.stops)
          /\ LET r == PlanOf(s, q)
             IN  \E c : Picks(q.stops, r, {x \in 1..Len(r) : /\ Keeps(s, q, r[x].lane) /\ Able(q, r[x].lane)
                                                             /\ FreeOnly(s, q) => r[x].lane \in Free}, c)

(* How far a walk is: the k-th lane it called is that of its d[k]-th stop,  *)
(* the stops before the i-th were called or skipped, and a stop lane ended  *)
(* it.                                                                      *)
Walks(q, d) ==
    /\ q.i \in 1..Len(q.stops) + 1 /\ Len(q.called) <= Len(q.stops)
    /\ q.at = "walking" => Len(q.called) < q.i
    /\ \A k \in 1..Len(q.called) : /\ d[k] \in 1..Len(q.stops) /\ d[k] <= q.i /\ q.called[k] = q.stops[d[k]].lane
                                   /\ q.at = "walking" => d[k] < q.i
    /\ \A k, l \in 1..Len(q.called) : k < l => d[k] < d[l]
    /\ \A j \in 1..Len(q.stops) : j < q.i => q.stops[j].lane \in ToSet(q.called) \cup q.skipped
    /\ \A j \in 1..Len(q.stops) : j < q.i /\ q.stops[j].terminal =>
          q.at = "exhausted" /\ j = q.i - 1 /\ \A k \in 1..Len(q.called) : d[k] < j
    /\ \A l \in q.skipped : \E j \in 1..Len(q.stops) : j < q.i /\ q.stops[j].lane = l
    /\ q.at = "exhausted" /\ q.max = Len(q.stops) =>
          \/ \A j \in 1..Len(q.stops) : q.stops[j].lane \in ToSet(q.called) \cup q.skipped
          \/ \E j \in 1..Len(q.stops) : q.stops[j].terminal /\ q.stops[j].lane \in ToSet(q.called) \cup q.skipped

RequestInv(s, q) ==
    /\ Shape(q)
    /\ q.at \in {"none", "routed", "displacing", "resolving", "refused"} => q.i = 0 /\ q.called = <<>> /\ q.skipped = {}
    /\ q.at = "none" => q = Quiet
    /\ q.at = "displacing" => ~Direct(q) /\ (q.calm => q.policy = policyFor(s, q.intent))
    /\ q.at = "resolving" => Resolvable(s, q)
    /\ q.at \in Walked => Aimed(s, q) /\ \E d : Walks(q, d)
(* The free filter and the tools filter leave what they let pass, in order. *)
LEMMA StopsAble ==
    ASSUME NEW q, Shape(q)
    PROVE  LET kept    == IF FreeOnly(server, q) THEN FreeLanes(q.stops) ELSE q.stops
               capable == requireCapableTargets(kept, q)
           IN  /\ IsList(capable) /\ capable \in Seq(ToSet(q.stops))
               /\ \E c : Picks(capable, q.stops, {j \in 1..Len(q.stops) : /\ Able(q, q.stops[j].lane)
                                                                          /\ FreeOnly(server, q) => q.stops[j].lane \in Free}, c)
  <1>. DEFINE stops == q.stops
              S == ToSet(q.stops)
              kept == IF FreeOnly(server, q) THEN FreeLanes(q.stops) ELSE q.stops
              capable == requireCapableTargets(kept, q)
              X == {j \in 1..Len(stops) : FreeOnly(server, q) => stops[j].lane \in Free}
              Y == {i \in DOMAIN kept : q.ask.tools /\ q.route.primary.p # Cloud => kept[i].lane.p \notin Toolless}
              Z == {j \in 1..Len(stops) : Able(q, stops[j].lane)}
  <1>1. stops \in Seq(S) /\ DOMAIN stops = 1..Len(stops) /\ Len(stops) \in Nat
    BY ListsAre DEF Shape
  <1>. HIDE DEF S
  <1>2. kept \in Seq(S) /\ \E a : Picks(kept, stops, X, a)
    <2>1. CASE FreeOnly(server, q)
      <3>1. kept = Those(stops, X)
        BY <1>1, <2>1 DEF FreeLanes
      <3>. QED  BY <1>1, <3>1, ThoseAre
    <2>2. CASE ~FreeOnly(server, q)
      <3>1. kept = stops /\ \A j \in 1..Len(stops) : j \in X
        BY <2>2
      <3>. HIDE DEF X, stops, kept
      <3>. QED  BY <1>1, <3>1, PicksAll
    <2>. QED  BY <2>1, <2>2
  <1>3. PICK a : Picks(kept, stops, X, a)
    BY <1>2
  <1>. HIDE DEF kept, X, stops
  <1>4. capable = Those(kept, Y)
    BY DEF requireCapableTargets
  <1>. HIDE DEF capable, Y
  <1>5. capable \in Seq(S) /\ \E b : Picks(capable, kept, Y, b)
    BY <1>2, <1>4, ThoseAre
  <1>6. PICK b : Picks(capable, kept, Y, b)
    BY <1>5
  <1>7. ASSUME NEW i \in 1..Len(kept) PROVE i \in Y <=> a[i] \in Z
    <2>1. a[i] \in 1..Len(stops) /\ kept[i] = stops[a[i]] /\ i \in DOMAIN kept
      BY <1>2, <1>3 DEF Picks
    <2>. QED  BY <2>1, Zenon DEF Y, Z, Able
  <1>. HIDE DEF Z
  <1>8. PICK c : Picks(capable, stops, X \cap Z, c)
    BY <1>1, <1>2, <1>3, <1>5, <1>6, <1>7, PicksOfPicks, Zenon
  <1>9. IsList(capable)
    BY <1>5, ListOf
  <1>. DEFINE W == {j \in 1..Len(stops) : Able(q, stops[j].lane) /\ (FreeOnly(server, q) => stops[j].lane \in Free)}
  <1>10. \A i \in 1..Len(stops) : i \in X \cap Z <=> i \in W
    BY DEF X, Z
  <1>. HIDE DEF W
  <1>11. Picks(capable, stops, W, c)
    BY <1>8, <1>10, PicksAtSame, Zenon
  <1>. QED  BY <1>5, <1>9, <1>11 DEF W, stops, S, capable, kept

LEMMA PlanResolves ==
    ASSUME NEW s, NEW q, Shape(q), q.policy # NoPolicy
    PROVE  /\ Resolves(PlanOf(s, q), q.policy, q.route.primary, s.source)
           /\ PlanOf(s, q) \in Seq(ToSet(PlanOf(s, q))) /\ Len(PlanOf(s, q)) \in Nat /\ DOMAIN PlanOf(s, q) = 1..Len(PlanOf(s, q))
  <1>1. Resolves(PlanOf(s, q), q.policy, q.route.primary, s.source)
    BY ResolvedIs, Zenon DEF PlanOf, Shape, IsLanePlan
  <1>. QED  BY <1>1, ListsAre DEF Resolves

(* A walk begins over the stops that were resolved.                         *)
LEMMA BegunIs ==
    ASSUME NEW q, Resolvable(server, q), \A j \in 1..Len(q.todo) : q.todo[j].lane.p \notin Registry(server)
    PROVE  RequestInv(server, Begun(q))
  <1>. DEFINE kept    == IF FreeOnly(server, q) THEN FreeLanes(q.stops) ELSE q.stops
              capable == requireCapableTargets(kept, q)
              attempts == maxAttempts(server, policyFor(server, q.intent), capable)
              refused == [q EXCEPT !.at = "refused", !.stops = <<>>, !.todo = <<>>]
              walking == [q EXCEPT !.at = "walking", !.stops = capable, !.todo = <<>>, !.engine = server.engine, !.i = 1, !.max = attempts]
              w == walking
              W == {j \in 1..Len(q.stops) : Able(q, q.stops[j].lane) /\ (FreeOnly(server, q) => q.stops[j].lane \in Free)}
  <1>1. Shape(q) /\ DOMAIN q = RequestFields
    BY DEF Resolvable, Shape
  <1>2. IsList(capable) /\ capable \in Seq(ToSet(q.stops)) /\ \E c : Picks(capable, q.stops, W, c)
    BY <1>1, StopsAble, Zenon
  <1>3. PICK c : Picks(capable, q.stops, W, c)
    BY <1>2
  <1>4. Begun(q) = IF capable = <<>> THEN refused ELSE walking
    BY DEF Begun, FreeOnly
  <1>. HIDE DEF kept, capable, W, attempts
  <1>5. IsList(<<>>) /\ <<>> \in Seq({})
    BY DEF IsList, ToSet
  <1>6. CASE capable = <<>>
    <2>1. /\ refused.at = "refused" /\ Shape(refused)
          /\ refused.i = q.i /\ refused.called = q.called /\ refused.skipped = q.skipped
      BY <1>1, <1>5 DEF Shape, RequestFields
    <2>. HIDE DEF refused
    <2>. QED  BY <1>4, <1>6, <2>1 DEF RequestInv, Resolvable, Walked
  <1>7. CASE capable # <<>>
    <2>1. /\ w.at = "walking" /\ DOMAIN w = RequestFields /\ w.stops = capable /\ w.todo = <<>> /\ w.i = 1 /\ w.max = attempts
          /\ w.called = q.called /\ w.skipped = q.skipped /\ w.route = q.route /\ w.calm = q.calm /\ w.policy = q.policy
          /\ w.ask = q.ask /\ w.intent = q.intent
      BY <1>1 DEF RequestFields
    <2>. HIDE DEF walking
    <2>2. Shape(w) /\ w.called = <<>> /\ w.skipped = {}
      BY <1>1, <1>2, <1>5, <2>1 DEF Shape, Resolvable
    <2>3. Len(capable) \in Nat /\ Len(q.stops) \in Nat
      BY <1>1, <1>2, ListsAre DEF Shape
    <2>4. \A k \in 1..Len(capable) : c[k] \in 1..Len(q.stops) /\ c[k] \in W /\ capable[k] = q.stops[c[k]]
      BY <1>3 DEF Picks
    <2>5. ASSUME q.route.free \/ (q.calm /\ server.policy # NoPolicy /\ server.policy.free)
          PROVE  \A j \in 1..Len(capable) : capable[j].lane \in Free
      <3>1. FreeOnly(server, q)
        BY <2>5 DEF FreeOnly
      <3>. QED  BY <2>4, <3>1 DEF W
    <2>6. ASSUME Direct(q), NEW j \in 1..Len(capable), capable[j].lane.p = Cloud
          PROVE  Len(capable) = 1 /\ capable[1].lane = q.route.primary
      <3>1. c[j] \in 1..Len(q.stops) /\ capable[j] = q.stops[c[j]]
        BY <2>4
      <3>2. c[j] = 1
        <4>1. c[j] \notin 2..Len(q.stops)
          BY <2>6, <3>1 DEF Resolvable
        <4>. QED  BY <4>1, <3>1
      <3>3. q.stops[1].lane = q.route.primary
        BY <2>6 DEF Resolvable
      <3>4. q.route.primary.p = Cloud
        BY <2>6, <3>1, <3>2, <3>3
      <3>5. Len(q.stops) = 1
        BY <2>6, <3>4 DEF Resolvable
      <3>6. Len(capable) < 2
        <4>. SUFFICES ASSUME 2 <= Len(capable) PROVE FALSE
          BY <2>3
        <4>1. 1 \in 1..Len(capable) /\ 2 \in 1..Len(capable)
          BY <2>3
        <4>2. c[1] < c[2] /\ c[1] \in 1..1 /\ c[2] \in 1..1
          BY <4>1, <2>4, <3>5, <1>3 DEF Picks
        <4>. QED  BY <4>2
      <3>7. Len(capable) = 1 /\ j = 1
        <4>. DEFINE m == Len(capable)
        <4>1. m \in Nat /\ j \in 1..m /\ m < 2
          BY <2>3, <2>6, <3>6
        <4>. HIDE DEF m
        <4>2. m = 1 /\ j = 1
          BY <4>1
        <4>. QED  BY <4>2 DEF m
      <3>. QED  BY <3>1, <3>2, <3>3, <3>7
    <2>7. ASSUME Follows(q)
          PROVE  LET r == PlanOf(server, q)
                 IN  \E e : Picks(capable, r, {x \in 1..Len(r) : /\ Keeps(server, q, r[x].lane) /\ Able(q, r[x].lane)
                                                                 /\ FreeOnly(server, q) => r[x].lane \in Free}, e)
      <3>. DEFINE r == PlanOf(server, q)
                  Z == {x \in 1..Len(r) : Able(q, r[x].lane) /\ (FreeOnly(server, q) => r[x].lane \in Free)}
      <3>1. PICK n, a, b : Halfway(server, q, n, a, b)
        BY <2>7 DEF Resolvable
      <3>2. /\ Resolves(r, q.policy, q.route.primary, server.source)
            /\ r \in Seq(ToSet(r)) /\ Len(r) \in Nat
        BY <1>1, <2>7, PlanResolves DEF Follows
      <3>. HIDE DEF r
      <3>. DEFINE X == {x \in 1..n : Keeps(server, q, r[x].lane)}
                  T == {x \in n + 1..Len(r) : Eligible(q, r[x].lane)}
      <3>3. n \in 1..Len(r) /\ Picks(q.stops, r, X, a) /\ Picks(q.todo, r, T, b)
        BY <3>1, Zenon DEF Halfway, r
      <3>4. ASSUME NEW x \in n + 1..Len(r) PROVE ~Keeps(server, q, r[x].lane)
        <4>1. x \in 1..Len(r) /\ x # 1 /\ 1 \in 1..Len(r)
          BY <3>2, <3>3
        <4>2. r[x].lane # q.route.primary
          BY <3>2, <4>1 DEF Resolves
        <4>3. Eligible(q, r[x].lane) => r[x].lane.p \notin Registry(server)
          <5>. HAVE Eligible(q, r[x].lane)
          <5>1. x \in T
            OBVIOUS
          <5>2. PICK k \in 1..Len(q.todo) : b[k] = x
            BY <3>3, <4>1, <5>1 DEF Picks
          <5>3. q.todo[k] = r[x]
            BY <3>3, <5>2 DEF Picks
          <5>. QED  BY <5>3
        <4>. QED  BY <4>2, <4>3, Zenon DEF Keeps
      <3>5. q.stops \in Seq(ToSet(r))
        <4>1. q.stops \in Seq(ToSet(q.stops)) /\ Len(q.stops) \in Nat
          BY <1>1, ListsAre DEF Shape
        <4>2. DOMAIN r = 1..Len(r)
          BY <3>2
        <4>3. \A k \in 1..Len(q.stops) : q.stops[k] \in ToSet(r)
          <5>1. \A x \in 1..Len(r) : r[x] \in ToSet(r)
            BY <4>2 DEF ToSet
          <5>. QED  BY <3>3, <5>1 DEF Picks
        <4>4. q.stops \in [1..Len(q.stops) -> ToSet(r)]
          BY <4>1, <4>3
        <4>. QED  BY <4>1, <4>4
      <3>6. capable \in Seq(ToSet(r))
        <4>1. \A k \in 1..Len(q.stops) : q.stops[k] \in ToSet(r)
          BY <3>5
        <4>2. capable \in [1..Len(capable) -> ToSet(r)]
          BY <1>2, <2>4, <4>1
        <4>. QED  BY <2>3, <4>2
      <3>7. \A j \in 1..Len(q.stops) : j \in W <=> a[j] \in Z
        <4>1. \A j \in 1..Len(q.stops) : a[j] \in 1..Len(r) /\ q.stops[j] = r[a[j]]
          BY <3>3 DEF Picks
        <4>. QED  BY <4>1, Zenon DEF W
      <3>. HIDE DEF X, T, Z
      <3>8. PICK e : Picks(capable, r, X \cap Z, e)
        <4>. DEFINE S == ToSet(r)
                    t == capable
                    u == q.stops
        <4>1. r \in Seq(S) /\ u \in Seq(S) /\ t \in Seq(S) /\ Picks(u, r, X, a) /\ Picks(t, u, W, c)
              /\ \A j \in 1..Len(u) : j \in W <=> a[j] \in Z
          BY <1>3, <3>2, <3>3, <3>5, <3>6, <3>7, Zenon
        <4>. HIDE DEF S, t, u
        <4>2. \E e : Picks(t, r, X \cap Z, e)
          BY <4>1, PicksOfPicks, Zenon
        <4>. QED  BY <4>2 DEF t
      <3>. DEFINE Y == {x \in 1..Len(r) : /\ Keeps(server, q, r[x].lane) /\ Able(q, r[x].lane)
                                          /\ FreeOnly(server, q) => r[x].lane \in Free}
      <3>9. \A x \in 1..Len(r) : x \in X \cap Z <=> x \in Y
        <4>. TAKE x \in 1..Len(r)
        <4>1. x \in 1..n \/ x \in n + 1..Len(r)
          BY <3>2, <3>3
        <4>2. x \in X <=> Keeps(server, q, r[x].lane)
          <5>1. x \in 1..n => x \in 1..n /\ (x \in X <=> Keeps(server, q, r[x].lane))
            BY DEF X
          <5>2. x \in n + 1..Len(r) => x \notin X /\ ~Keeps(server, q, r[x].lane)
            BY <3>3, <3>4 DEF X
          <5>. QED  BY <4>1, <5>1, <5>2, Zenon
        <4>. QED  BY <4>2, Zenon DEF Z
      <3>. HIDE DEF Y
      <3>10. Picks(capable, r, Y, e)
        BY <3>8, <3>9, PicksAtSame, Zenon
      <3>. QED  BY <3>10, Zenon DEF Y, r
    <2>8. Follows(q) => attempts = Len(capable)
      BY DEF Follows, attempts, maxAttempts, Resolvable
    <2>9. Aimed(server, w)
      <3>1. \A l : (Able(w, l) <=> Able(q, l)) /\ (Keeps(server, w, l) <=> Keeps(server, q, l))
        BY <2>1, Zenon DEF Able, Keeps, Eligible
      <3>2. PlanOf(server, w) = PlanOf(server, q) /\ (Follows(w) <=> Follows(q)) /\ (FreeOnly(server, w) <=> FreeOnly(server, q)) /\ (Direct(w) <=> Direct(q))
        BY <2>1, Zenon DEF PlanOf, Follows, FreeOnly, Direct
      <3>3. Follows(w) => LET r == PlanOf(server, w)
             IN  \E e : Picks(w.stops, r, {x \in 1..Len(r) : /\ Keeps(server, w, r[x].lane) /\ Able(w, r[x].lane)
                                                             /\ FreeOnly(server, w) => r[x].lane \in Free}, e)
        <4>. HAVE Follows(w)
        <4>. DEFINE r == PlanOf(server, q)
        <4>1. {x \in 1..Len(r) : /\ Keeps(server, w, r[x].lane) /\ Able(w, r[x].lane)
                                 /\ FreeOnly(server, w) => r[x].lane \in Free}
              = {x \in 1..Len(r) : /\ Keeps(server, q, r[x].lane) /\ Able(q, r[x].lane)
                                   /\ FreeOnly(server, q) => r[x].lane \in Free}
          BY <3>1, <3>2
        <4>. QED  BY <4>1, <3>2, <2>1, <2>7, Zenon
      <3>. QED  BY <2>1, <2>5, <2>6, <2>8, <3>2, <3>3, Zenon DEF Aimed
    <2>10. Walks(w, <<>>)
      <3>1. Len(w.called) = 0 /\ Len(w.stops) >= 1 /\ Len(w.stops) \in Nat /\ w.i = 1 /\ w.at = "walking" /\ w.skipped = {}
        <4>1. Len(capable) # 0
          BY <1>2, <1>7
        <4>. QED  BY <2>1, <2>2, <2>3, <4>1
      <3>. HIDE DEF w
      <3>. QED  BY <3>1 DEF Walks
    <2>11. RequestInv(server, w)
      BY <2>1, <2>2, <2>9, <2>10, Zenon DEF RequestInv, Walked
    <2>. QED  BY <1>4, <1>7, <2>11
  <1>. QED  BY <1>6, <1>7

(* The next stop whose provider exists is resolved, the ones before dropped.*)
LEMMA ProceedIs ==
    ASSUME NEW q, Resolvable(server, q)
    PROVE  RequestInv(server, Proceed(q))
  <1>. DEFINE found == {k \in DOMAIN q.todo : q.todo[k].lane.p \in Registry(server)}
              first == CHOOSE k \in found : \A j \in found : k <= j
              rest == SubSeq(q.todo, first + 1, Len(q.todo))
              more == Append(q.stops, q.todo[first])
              w == [q EXCEPT !.at = "resolving", !.stops = more, !.todo = rest]
  <1>1. Shape(q) /\ DOMAIN q = RequestFields
    BY DEF Resolvable, Shape
  <1>2. /\ q.todo \in Seq(ToSet(q.todo)) /\ DOMAIN q.todo = 1..Len(q.todo) /\ Len(q.todo) \in Nat
        /\ q.stops \in Seq(ToSet(q.stops)) /\ Len(q.stops) \in Nat
    BY <1>1, ListsAre DEF Shape
  <1>3. Proceed(q) = IF found = {} THEN Begun(q) ELSE w
    BY DEF Proceed
  <1>4. CASE found = {}
    <2>1. \A j \in 1..Len(q.todo) : q.todo[j].lane.p \notin Registry(server)
      BY <1>2, <1>4
    <2>. QED  BY <1>3, <1>4, <2>1, BegunIs
  <1>5. CASE found # {}
    <2>1. first \in found /\ \A j \in found : first <= j
      <3>1. found \subseteq Nat
        BY <1>2
      <3>. HIDE DEF found
      <3>2. \E k \in found : \A j \in found : k <= j
        BY <3>1, <1>5, LeastOne
      <3>. QED  BY <3>2
    <2>. HIDE DEF first
    <2>2. first \in 1..Len(q.todo) /\ q.todo[first].lane.p \in Registry(server)
          /\ \A j \in 1..Len(q.todo) : j < first => q.todo[j].lane.p \notin Registry(server)
      <3>1. first \in 1..Len(q.todo) /\ q.todo[first].lane.p \in Registry(server)
        BY <1>2, <2>1
      <3>. QED  BY <1>2, <2>1, <3>1
    <2>. HIDE DEF found
    <2>3. IsList(more) /\ Len(more) = Len(q.stops) + 1 /\ more[Len(more)] = q.todo[first]
          /\ \A k \in 1..Len(q.stops) : more[k] = q.stops[k]
      BY <1>1, AppendIs DEF Shape
    <2>4. IsList(rest) /\ Len(rest) = Len(q.todo) - first /\ \A k \in 1..Len(rest) : rest[k] = q.todo[first + k]
      <3>1. rest \in Seq(ToSet(q.todo)) /\ Len(rest) = Len(q.todo) - first /\ \A k \in 1..Len(rest) : rest[k] = q.todo[first + k]
        BY <1>2, <2>2
      <3>. QED  BY <3>1, ListOf
    <2>. HIDE DEF more, rest
    <2>5. /\ w.at = "resolving" /\ DOMAIN w = RequestFields /\ w.stops = more /\ w.todo = rest /\ w.i = q.i
          /\ w.called = q.called /\ w.skipped = q.skipped /\ w.route = q.route /\ w.calm = q.calm /\ w.policy = q.policy
          /\ w.ask = q.ask /\ w.intent = q.intent
      BY <1>1 DEF RequestFields
    <2>. HIDE DEF w
    <2>6. Shape(w)
      BY <1>1, <2>3, <2>4, <2>5 DEF Shape
    <2>7. ASSUME Direct(q)
          PROVE  /\ Len(more) >= 1 /\ more[1].lane = q.route.primary /\ NoneCloud(rest)
                 /\ \A j \in 2..Len(more) : more[j].lane.p # Cloud
                 /\ q.route.primary.p # Cloud
      <3>1. /\ Len(q.stops) >= 1 /\ q.stops[1].lane = q.route.primary /\ NoneCloud(q.todo)
            /\ \A j \in 2..Len(q.stops) : q.stops[j].lane.p # Cloud
            /\ q.route.primary.p = Cloud => Len(q.todo) = 0
        BY <2>7, Zenon DEF Resolvable
      <3>2. Len(more) >= 1 /\ more[1].lane = q.route.primary
        BY <3>1, <1>2, <2>3
      <3>3. NoneCloud(rest)
        <4>. SUFFICES ASSUME NEW k \in 1..Len(rest) PROVE rest[k].lane.p # Cloud
          BY DEF NoneCloud
        <4>1. first + k \in 1..Len(q.todo) /\ rest[k] = q.todo[first + k]
          BY <1>2, <2>2, <2>4
        <4>. QED  BY <3>1, <4>1 DEF NoneCloud
      <3>4. ASSUME NEW j \in 2..Len(more) PROVE more[j].lane.p # Cloud
        <4>1. CASE j = Len(more)
          BY <4>1, <3>1, <2>2, <2>3 DEF NoneCloud
        <4>2. CASE j # Len(more)
          <5>1. j \in 2..Len(q.stops) /\ j \in 1..Len(q.stops)
            BY <4>2, <1>2, <2>3
          <5>. QED  BY <5>1, <3>1, <2>3
        <4>. QED  BY <4>1, <4>2
      <3>5. q.route.primary.p # Cloud
        BY <3>1, <2>2, <1>2
      <3>. QED  BY <3>2, <3>3, <3>4, <3>5
    <2>8. ASSUME Follows(q) PROVE \E n, a, b : Halfway(server, w, n, a, b)
      <3>. DEFINE r == PlanOf(server, q)
      <3>1. PICK n, a, b : Halfway(server, q, n, a, b)
        BY <2>8 DEF Resolvable
      <3>2. /\ Resolves(r, q.policy, q.route.primary, server.source)
            /\ r \in Seq(ToSet(r)) /\ Len(r) \in Nat
        BY <1>1, <2>8, PlanResolves DEF Follows
      <3>3. PlanOf(server, w) = r /\ \A l : (Keeps(server, w, l) <=> Keeps(server, q, l)) /\ (Eligible(w, l) <=> Eligible(q, l))
        BY <2>5, Zenon DEF PlanOf, Keeps, Eligible
      <3>. HIDE DEF r
      <3>4. /\ n \in 1..Len(r) /\ Picks(q.stops, r, {x \in 1..n : Keeps(server, q, r[x].lane)}, a)
            /\ Picks(q.todo, r, {x \in n + 1..Len(r) : Eligible(q, r[x].lane)}, b)
        BY <3>1, Zenon DEF Halfway, r
      <3>5. \A k \in 1..Len(q.stops) : a[k] \in 1..n /\ Keeps(server, q, r[a[k]].lane) /\ q.stops[k] = r[a[k]]
        BY <3>4 DEF Picks
      <3>6. \A k \in 1..Len(q.todo) : b[k] \in n + 1..Len(r) /\ Eligible(q, r[b[k]].lane) /\ q.todo[k] = r[b[k]]
        BY <3>4 DEF Picks
      <3>. DEFINE m == b[first]
                  c == [k \in 1..Len(more) |-> IF k = Len(more) THEN m ELSE a[k]]
                  d == [k \in 1..Len(rest) |-> b[first + k]]
                  X == {x \in 1..m : Keeps(server, q, r[x].lane)}
                  Y == {x \in m + 1..Len(r) : Eligible(q, r[x].lane)}
      <3>7. m \in n + 1..Len(r) /\ m \in 1..Len(r) /\ Eligible(q, r[m].lane) /\ q.todo[first] = r[m] /\ Keeps(server, q, r[m].lane)
        <4>1. m \in n + 1..Len(r) /\ Eligible(q, r[m].lane) /\ q.todo[first] = r[m]
          BY <3>6, <2>2
        <4>2. m \in 1..Len(r)
          BY <4>1, <3>4, <3>2
        <4>. QED  BY <4>1, <4>2, <2>2 DEF Keeps
      <3>8. /\ \A k \in 1..Len(more) : c[k] = IF k = Len(more) THEN m ELSE a[k]
            /\ \A k \in 1..Len(rest) : d[k] = b[first + k]
        OBVIOUS
      <3>. HIDE DEF c, d, X, Y, m
      <3>9. \A k \in 1..Len(more) : k # Len(more) => k \in 1..Len(q.stops)
        BY <1>2, <2>3
      <3>10. \A k \in 1..Len(q.stops) : k \in 1..Len(more) /\ k # Len(more)
        BY <1>2, <2>3
      <3>11. ASSUME NEW k \in 1..Len(more) PROVE c[k] \in 1..Len(r) /\ c[k] \in X /\ more[k] = r[c[k]]
        <4>1. CASE k = Len(more)
          <5>1. c[k] = m /\ m \in 1..m
            BY <3>7, <3>8, <4>1
          <5>. QED  BY <5>1, <4>1, <3>7, <2>3 DEF X
        <4>2. CASE k # Len(more)
          <5>1. c[k] = a[k] /\ k \in 1..Len(q.stops)
            BY <3>8, <3>9, <4>2
          <5>2. a[k] \in 1..n /\ Keeps(server, q, r[a[k]].lane) /\ more[k] = r[a[k]]
            BY <5>1, <3>5, <2>3
          <5>3. a[k] \in 1..Len(r) /\ a[k] \in 1..m
            BY <5>2, <3>7, <3>4, <3>2
          <5>. QED  BY <5>1, <5>2, <5>3 DEF X
        <4>. QED  BY <4>1, <4>2
      <3>12. ASSUME NEW k \in 1..Len(more), NEW l \in 1..Len(more), k < l PROVE c[k] < c[l]
        <4>1. k # Len(more) /\ k \in 1..Len(q.stops) /\ c[k] = a[k] /\ a[k] \in 1..n
          <5>1. k # Len(more)
            BY <3>12, <2>3, <1>2
          <5>. QED  BY <5>1, <3>8, <3>9, <3>5
        <4>2. CASE l = Len(more)
          <5>1. c[l] = m
            BY <4>2, <3>8
          <5>. QED  BY <5>1, <4>1, <3>7, <3>4
        <4>3. CASE l # Len(more)
          <5>1. l \in 1..Len(q.stops) /\ c[l] = a[l]
            BY <4>3, <3>8, <3>9
          <5>2. a[k] < a[l]
            BY <5>1, <4>1, <3>12, <3>4 DEF Picks
          <5>. QED  BY <5>1, <5>2, <4>1
        <4>. QED  BY <4>2, <4>3
      <3>13. ASSUME NEW i \in 1..Len(r), i \in X PROVE \E k \in 1..Len(more) : c[k] = i
        <4>1. i \in 1..m /\ Keeps(server, q, r[i].lane)
          BY <3>13 DEF X
        <4>2. CASE i = m
          <5>1. Len(more) \in 1..Len(more)
            BY <2>3, <1>2
          <5>. QED  BY <5>1, <4>2, <3>8
        <4>3. CASE i \in 1..n
          <5>1. PICK k \in 1..Len(q.stops) : a[k] = i
            BY <4>1, <4>3, <3>4 DEF Picks
          <5>. QED  BY <5>1, <3>8, <3>10
        <4>4. CASE i \in n + 1..Len(r) /\ i # m
          <5>1. i # 1 /\ 1 \in 1..Len(r)
            BY <4>4, <3>4, <3>2
          <5>2. r[i].lane # q.route.primary
            BY <5>1, <3>2 DEF Resolves
          <5>3. Eligible(q, r[i].lane) /\ r[i].lane.p \in Registry(server)
            BY <5>2, <4>1 DEF Keeps
          <5>4. PICK k \in 1..Len(q.todo) : b[k] = i
            BY <5>3, <4>4, <3>4 DEF Picks
          <5>5. q.todo[k] = r[i]
            BY <5>4, <3>6
          <5>6. ~(k < first) /\ k # first
            BY <5>3, <5>4, <5>5, <2>2, <4>4 DEF m
          <5>7. first < k
            BY <5>4, <5>6, <2>2, <1>2
          <5>8. b[first] < b[k]
            BY <5>7, <5>4, <2>2, <3>4 DEF Picks
          <5>. QED  BY <5>8, <5>4, <4>1, <3>7 DEF m
        <4>5. i = m \/ i \in 1..n \/ (i \in n + 1..Len(r) /\ i # m)
          BY <3>2, <3>4
        <4>. QED  BY <4>2, <4>3, <4>4, <4>5
      <3>14. Picks(more, r, X, c)
        BY <3>11, <3>12, <3>13, Zenon DEF Picks
      <3>15. ASSUME NEW k \in 1..Len(rest)
             PROVE  first + k \in 1..Len(q.todo) /\ d[k] \in 1..Len(r) /\ d[k] \in Y /\ rest[k] = r[d[k]]
        <4>1. first + k \in 1..Len(q.todo) /\ first < first + k
          BY <1>2, <2>2, <2>4
        <4>2. d[k] = b[first + k] /\ rest[k] = q.todo[first + k]
          BY <2>4, <3>8
        <4>3. b[first + k] \in n + 1..Len(r) /\ Eligible(q, r[b[first + k]].lane) /\ q.todo[first + k] = r[b[first + k]]
          BY <4>1, <3>6
        <4>4. m < b[first + k]
          BY <4>1, <2>2, <3>4 DEF Picks, m
        <4>5. b[first + k] \in m + 1..Len(r) /\ b[first + k] \in 1..Len(r)
          BY <4>3, <4>4, <3>7, <3>4, <3>2
        <4>. QED  BY <4>1, <4>2, <4>3, <4>5 DEF Y
      <3>16. ASSUME NEW k \in 1..Len(rest), NEW l \in 1..Len(rest), k < l PROVE d[k] < d[l]
        <4>1. first + k < first + l
          BY <2>2, <2>4, <1>2, <3>16
        <4>2. b[first + k] < b[first + l]
          BY <4>1, <3>15, <3>4 DEF Picks
        <4>. QED  BY <4>2, <3>8
      <3>17. ASSUME NEW i \in 1..Len(r), i \in Y PROVE \E k \in 1..Len(rest) : d[k] = i
        <4>1. i \in m + 1..Len(r) /\ Eligible(q, r[i].lane)
          BY <3>17 DEF Y
        <4>2. i \in n + 1..Len(r)
          BY <4>1, <3>7, <3>4
        <4>3. PICK j \in 1..Len(q.todo) : b[j] = i
          BY <4>1, <4>2, <3>4 DEF Picks
        <4>4. ~(j < first) /\ j # first
          <5>1. j < first => b[j] < b[first]
            BY <4>3, <2>2, <3>4 DEF Picks
          <5>. QED  BY <5>1, <4>1, <4>3, <3>7 DEF m
        <4>5. j - first \in 1..Len(rest) /\ first + (j - first) = j
          BY <4>3, <4>4, <2>2, <2>4, <1>2
        <4>. QED  BY <4>3, <4>5, <3>8
      <3>18. Picks(rest, r, Y, d)
        BY <3>15, <3>16, <3>17, Zenon DEF Picks
      <3>19. /\ X = {x \in 1..m : Keeps(server, w, r[x].lane)}
             /\ Y = {x \in m + 1..Len(r) : Eligible(w, r[x].lane)}
        BY <3>3 DEF X, Y
      <3>20. Halfway(server, w, m, c, d)
        BY <3>3, <3>7, <3>14, <3>18, <3>19, <2>5, Zenon DEF Halfway
      <3>. QED  BY <3>20
    <2>9. Resolvable(server, w)
      <3>1. (Follows(w) <=> Follows(q)) /\ (Direct(w) <=> Direct(q))
        BY <2>5, Zenon DEF Follows, Direct
      <3>2. w.i = 0 /\ w.called = <<>> /\ w.skipped = {} /\ (w.calm => w.policy = policyFor(server, w.intent))
        BY <2>5 DEF Resolvable
      <3>. QED  BY <2>5, <2>6, <2>7, <2>8, <3>1, <3>2, Zenon DEF Resolvable
    <2>10. RequestInv(server, w)
      BY <2>5, <2>6, <2>9 DEF RequestInv, Resolvable, Walked
    <2>. QED  BY <1>3, <1>5, <2>10
  <1>. QED  BY <1>4, <1>5

LEMMA SourcesList ==
    ASSUME NEW s, NEW primary, NEW policy, IsLanePlan(policy)
    PROVE  IsList(laneTargetsFromSource(s, primary, policy))
  <1>. DEFINE lanes == [i \in DOMAIN AutoLanes |-> Stop(AutoLanes[i], FALSE)]
  <1>1. CASE policy # NoPolicy
    BY <1>1, ResolvedIs, Zenon DEF laneTargetsFromSource, Resolves, IsLanePlan
  <1>2. CASE policy = NoPolicy /\ s.auto
    <2>1. /\ AutoLanes \in Seq(ToSet(AutoLanes)) /\ DOMAIN AutoLanes = 1..Len(AutoLanes) /\ Len(AutoLanes) \in Nat
          /\ \A i \in 1..Len(AutoLanes) : AutoLanes[i] \in ToSet(AutoLanes)
      BY PlansAssumption, ListsAre, Zenon
    <2>2. lanes \in Seq({Stop(l, FALSE) : l \in ToSet(AutoLanes)})
      <3>. DEFINE S == {Stop(l, FALSE) : l \in ToSet(AutoLanes)}
      <3>1. \A i \in 1..Len(AutoLanes) : Stop(AutoLanes[i], FALSE) \in S
        BY <2>1
      <3>. HIDE DEF S
      <3>2. lanes \in [1..Len(AutoLanes) -> S]
        BY <2>1, <3>1
      <3>. HIDE DEF lanes
      <3>3. lanes \in Seq(S)
        BY <2>1, <3>2
      <3>. QED  BY <3>3 DEF S
    <2>. HIDE DEF lanes
    <2>3. IsList(Those(lanes, {i \in DOMAIN AutoLanes : AutoLanes[i] # primary}))
      BY <2>2, ThoseAre, ListOf
    <2>. QED  BY <1>2, <2>3 DEF laneTargetsFromSource, resolveLanes, lanes
  <1>3. CASE policy = NoPolicy /\ ~s.auto
    BY <1>3, EmptyIs DEF laneTargetsFromSource, resolveLanes
  <1>. QED  BY <1>1, <1>2, <1>3

(* The targets of a plan are its stops behind the first.                    *)
LEMMA TargetsAre ==
    ASSUME NEW s, NEW q, Shape(q), s.auto \in BOOLEAN
    PROVE  LET t == laneTargetsFor(s, q.route.primary, q.policy)
               r == PlanOf(s, q)
           IN  /\ IsList(t) /\ NoneCloud(t)
               /\ q.route.primary.p = Cloud => Len(t) = 0
               /\ q.policy # NoPolicy => \E b : Picks(t, r, {x \in 2..Len(r) : Eligible(q, r[x].lane)}, b)
  <1>. DEFINE primary == q.route.primary
              t == laneTargetsFor(s, primary, q.policy)
              r == PlanOf(s, q)
              T == {x \in 2..Len(r) : Eligible(q, r[x].lane)}
              all == laneTargetsFromSource(s, primary, q.policy)
              Y == {i \in DOMAIN all : all[i].lane # primary /\ all[i].lane.p # Cloud}
  <1>1. IsList(all)
    BY SourcesList DEF Shape
  <1>2. q.policy # NoPolicy => all = r
    BY DEF laneTargetsFromSource, PlanOf
  <1>3. t = IF primary.p = Cloud THEN <<>> ELSE Those(all, Y)
    BY DEF laneTargetsFor
  <1>. HIDE DEF t, all, r, Y, T
  <1>4. CASE primary.p = Cloud
    <2>1. IsList(t) /\ Len(t) = 0
      BY <1>3, <1>4, EmptyIs
    <2>2. \A b : Picks(t, r, T, b)
      BY <2>1, <1>4 DEF Picks, T, Eligible
    <2>3. NoneCloud(t)
      BY <2>1 DEF NoneCloud
    <2>. QED  BY <2>1, <2>2, <2>3 DEF t, r, T
  <1>5. CASE primary.p # Cloud
    <2>1. all \in Seq(ToSet(all)) /\ DOMAIN all = 1..Len(all) /\ Len(all) \in Nat
      BY <1>1, ListsAre
    <2>2. t \in Seq(ToSet(all)) /\ \E b : Picks(t, all, Y, b)
      BY <1>3, <1>5, <2>1, ThoseAre
    <2>3. PICK b : Picks(t, all, Y, b)
      BY <2>2
    <2>4. IsList(t)
      BY <2>2, ListOf
    <2>5. NoneCloud(t)
      <3>. SUFFICES ASSUME NEW j \in 1..Len(t) PROVE t[j].lane.p # Cloud
        BY DEF NoneCloud
      <3>1. b[j] \in Y /\ t[j] = all[b[j]]
        BY <2>3 DEF Picks
      <3>. QED  BY <3>1 DEF Y
    <2>6. ASSUME q.policy # NoPolicy PROVE Picks(t, r, T, b)
      <3>1. all = r /\ Resolves(r, q.policy, primary, s.source)
        BY <1>2, <2>6, PlanResolves DEF r
      <3>2. \A i \in 1..Len(all) : i \in Y <=> i \in T
        <4>. TAKE i \in 1..Len(all)
        <4>1. i \in Y <=> Eligible(q, r[i].lane)
          BY <1>5, <2>1, <3>1 DEF Y, Eligible
        <4>2. i = 1 => ~Eligible(q, r[i].lane)
          BY <3>1 DEF Resolves, Eligible
        <4>3. i = 1 \/ i \in 2..Len(r)
          BY <2>1, <3>1
        <4>. QED  BY <4>1, <4>2, <4>3 DEF T
      <3>. QED  BY <2>3, <3>1, <3>2, PicksAtSame, Zenon
    <2>. QED  BY <1>5, <2>4, <2>5, <2>6 DEF t, r, T
  <1>. QED  BY <1>4, <1>5

(* The lane a request lands on is the plan's first stop, mark and all.      *)
LEMMA PrimaryIs ==
    ASSUME NEW s, NEW q, Shape(q), q.policy # NoPolicy
    PROVE  PrimaryStop(s, q.route.primary, q.policy) = PlanOf(s, q)[1]
  <1>. DEFINE primary == q.route.primary
              r == PlanOf(s, q)
              mark == \E i \in DOMAIN r : r[i] = Stop(primary, TRUE)
  <1>1. Resolves(r, q.policy, primary, s.source) /\ DOMAIN r = 1..Len(r) /\ Len(r) \in Nat
    BY PlanResolves
  <1>2. PrimaryStop(s, primary, q.policy) = Stop(primary, mark)
    BY DEF PrimaryStop, laneTargetsFromSource, PlanOf
  <1>. HIDE DEF r
  <1>3. 1 \in DOMAIN r /\ r[1].lane = primary /\ r[1] = Stop(primary, r[1].terminal) /\ r[1].terminal \in BOOLEAN
    BY <1>1 DEF Resolves
  <1>4. mark = r[1].terminal
    <2>1. ASSUME mark PROVE r[1].terminal = TRUE
      <3>1. PICK i \in DOMAIN r : r[i] = Stop(primary, TRUE)
        BY <2>1
      <3>2. r[i].lane = primary /\ r[i].terminal = TRUE
        BY <3>1 DEF Stop
      <3>3. i = 1
        BY <1>1, <1>3, <3>2 DEF Resolves
      <3>. QED  BY <3>2, <3>3
    <2>2. r[1].terminal = TRUE => mark
      BY <1>3
    <2>. QED  BY <2>1, <2>2, <1>3
  <1>. QED  BY <1>2, <1>3, <1>4 DEF r

(* The plan is resolved behind the lane the request landed on.              *)
LEMMA ExpandedIs ==
    ASSUME NEW q, Shape(q), server.auto \in BOOLEAN, q.i = 0, q.called = <<>>, q.skipped = {},
           q.calm => q.policy = policyFor(server, q.intent),
           Direct(q) => q.stops = <<PrimaryStop(server, q.route.primary, q.policy)>>
    PROVE  RequestInv(server, Expanded(q))
  <1>. DEFINE t == laneTargetsFor(server, q.route.primary, q.policy)
              w == [q EXCEPT !.todo = t]
              r == PlanOf(server, q)
  <1>1. /\ IsList(t) /\ NoneCloud(t)
        /\ q.route.primary.p = Cloud => Len(t) = 0
        /\ q.policy # NoPolicy => \E b : Picks(t, r, {x \in 2..Len(r) : Eligible(q, r[x].lane)}, b)
    BY TargetsAre, Zenon
  <1>2. Expanded(q) = Proceed(w)
    BY DEF Expanded
  <1>. HIDE DEF t
  <1>3. /\ DOMAIN w = RequestFields /\ w.stops = q.stops /\ w.todo = t /\ w.i = q.i
        /\ w.called = q.called /\ w.skipped = q.skipped /\ w.route = q.route /\ w.calm = q.calm /\ w.policy = q.policy
        /\ w.ask = q.ask /\ w.intent = q.intent
    BY DEF Shape, RequestFields
  <1>. HIDE DEF w
  <1>4. Shape(w)
    BY <1>1, <1>3 DEF Shape
  <1>5. ASSUME Direct(q)
        PROVE  Len(w.stops) = 1 /\ w.stops[1] = PrimaryStop(server, q.route.primary, q.policy)
               /\ w.stops[1].lane = q.route.primary
    <2>. DEFINE x == PrimaryStop(server, q.route.primary, q.policy)
    <2>1. w.stops = <<x>>
      BY <1>3, <1>5, Zenon
    <2>. HIDE DEF x
    <2>2. Len(w.stops) = 1 /\ w.stops[1] = x
      BY <2>1
    <2>. USE DEF x
    <2>. QED  BY <2>2 DEF PrimaryStop, Stop
  <1>6. ASSUME Follows(q) PROVE \E n, a, b : Halfway(server, w, n, a, b)
    <2>1. w.stops[1] = r[1] /\ Len(w.stops) = 1 /\ Len(r) >= 1 /\ Len(r) \in Nat /\ r[1].lane = q.route.primary
      BY <1>5, <1>6, PrimaryIs, PlanResolves DEF Follows, Resolves
    <2>2. PICK b : Picks(t, r, {x \in 2..Len(r) : Eligible(q, r[x].lane)}, b)
      BY <1>1, <1>6 DEF Follows
    <2>3. PlanOf(server, w) = r /\ \A l : (Keeps(server, w, l) <=> Keeps(server, q, l)) /\ (Eligible(w, l) <=> Eligible(q, l))
      BY <1>3, Zenon DEF PlanOf, Keeps, Eligible
    <2>. HIDE DEF r
    <2>4. Picks(w.stops, r, {x \in 1..1 : Keeps(server, w, r[x].lane)}, <<1>>)
      <3>1. Keeps(server, w, r[1].lane)
        BY <2>1, <1>3 DEF Keeps
      <3>. QED  BY <2>1, <3>1 DEF Picks
    <2>5. {x \in 2..Len(r) : Eligible(q, r[x].lane)} = {x \in 1 + 1..Len(r) : Eligible(w, r[x].lane)}
      BY <2>3
    <2>6. Picks(w.todo, r, {x \in 1 + 1..Len(r) : Eligible(w, r[x].lane)}, b)
      BY <2>2, <2>5, <1>3
    <2>7. 1 \in 1..Len(r)
      BY <2>1
    <2>8. Halfway(server, w, 1, <<1>>, b)
      BY <2>3, <2>4, <2>6, <2>7 DEF Halfway
    <2>. QED  BY <2>8
  <1>7. Resolvable(server, w)
    <2>1. (Follows(w) <=> Follows(q)) /\ (Direct(w) <=> Direct(q))
      BY <1>3, Zenon DEF Follows, Direct
    <2>2. w.i = 0 /\ w.called = <<>> /\ w.skipped = {} /\ (w.calm => w.policy = policyFor(server, w.intent))
      BY <1>3
    <2>3. Direct(w) =>
            /\ Len(w.stops) >= 1 /\ w.stops[1].lane = w.route.primary /\ NoneCloud(w.todo)
            /\ \A j \in 2..Len(w.stops) : w.stops[j].lane.p # Cloud
            /\ w.route.primary.p = Cloud => Len(w.stops) = 1 /\ Len(w.todo) = 0
      <3>. HAVE Direct(w)
      <3>1. Len(w.stops) = 1 /\ w.stops[1].lane = q.route.primary
        BY <1>5, <2>1
      <3>. QED  BY <3>1, <1>1, <1>3
    <2>. QED  BY <1>4, <1>6, <2>1, <2>2, <2>3, Zenon DEF Resolvable
  <1>. QED  BY <1>2, <1>7, ProceedIs

(* Where a walk goes does not depend on how far it is.                      *)
LEMMA AimedStays ==
    ASSUME NEW s, NEW q, NEW w, Aimed(s, q), w.stops = q.stops, w.route = q.route, w.calm = q.calm, w.max = q.max,
           w.ask = q.ask, w.policy = q.policy
    PROVE  Aimed(s, w)
  <1>1. \A l : (Able(w, l) <=> Able(q, l)) /\ (Keeps(s, w, l) <=> Keeps(s, q, l))
    BY Zenon DEF Able, Keeps, Eligible
  <1>2. /\ PlanOf(s, w) = PlanOf(s, q) /\ (Follows(w) <=> Follows(q)) /\ (FreeOnly(s, w) <=> FreeOnly(s, q))
        /\ (Direct(w) <=> Direct(q))
    BY Zenon DEF PlanOf, Follows, FreeOnly, Direct
  <1>. DEFINE r == PlanOf(s, q)
  <1>3. {x \in 1..Len(r) : Keeps(s, w, r[x].lane) /\ Able(w, r[x].lane) /\ (FreeOnly(s, w) => r[x].lane \in Free)}
        = {x \in 1..Len(r) : Keeps(s, q, r[x].lane) /\ Able(q, r[x].lane) /\ (FreeOnly(s, q) => r[x].lane \in Free)}
    <2>. HIDE DEF r
    <2>. QED  BY <1>1, <1>2
  <1>4. Follows(w) => \E c : Picks(w.stops, r, {x \in 1..Len(r) : /\ Keeps(s, w, r[x].lane) /\ Able(w, r[x].lane)
                                                                  /\ FreeOnly(s, w) => r[x].lane \in Free}, c)
    BY <1>2, <1>3, Zenon DEF Aimed
  <1>5. Follows(w) => w.max = Len(w.stops)
    BY <1>2, Zenon DEF Aimed
  <1>6. Direct(w) => \A j \in 1..Len(w.stops) : w.stops[j].lane.p = Cloud => Len(w.stops) = 1 /\ w.stops[1].lane = w.route.primary
    BY <1>2, Zenon DEF Aimed
  <1>7. w.route.free \/ (w.calm /\ s.policy # NoPolicy /\ s.policy.free) => \A j \in 1..Len(w.stops) : w.stops[j].lane \in Free
    BY Zenon DEF Aimed
  <1>. QED  BY <1>2, <1>4, <1>5, <1>6, <1>7, Zenon DEF Aimed

(* One more lane is called.                                                 *)
LEMMA CallIs ==
    ASSUME NEW q, NEW d, Shape(q), Walks(q, d), q.at = "walking", q.i <= Len(q.stops),
           NEW w, w.stops = q.stops, w.max = q.max, w.skipped = q.skipped, w.called = Append(q.called, q.stops[q.i].lane),
           \/ w.at # "walking" /\ w.i = q.i /\ (w.at = "exhausted" /\ q.max = Len(q.stops) => q.i = Len(q.stops) \/ q.stops[q.i].terminal)
           \/ w.at = "walking" /\ w.i = q.i + 1 /\ ~q.stops[q.i].terminal
    PROVE  \E e : Walks(w, e)
  <1>. DEFINE n == Len(q.called)
              here == q.stops[q.i].lane
              e == [k \in 1..n + 1 |-> IF k = n + 1 THEN q.i ELSE d[k]]
  <1>1. IsList(q.called) /\ n \in Nat /\ Len(q.stops) \in Nat /\ q.i \in 1..Len(q.stops)
    BY ListsAre DEF Shape, Walks
  <1>2. /\ Len(w.called) = n + 1 /\ w.called[n + 1] = here /\ \A k \in 1..n : w.called[k] = q.called[k]
        /\ IsList(w.called)
    <2>1. w.called = Append(q.called, here)
      OBVIOUS
    <2>. HIDE DEF here
    <2>. QED  BY <1>1, <2>1, AppendIs
  <1>3. e[n + 1] = q.i /\ (\A k \in 1..n : e[k] = d[k]) /\ \A k \in 1..n + 1 : k = n + 1 \/ k \in 1..n
    BY <1>1
  <1>4. /\ \A k \in 1..n : d[k] \in 1..Len(q.stops) /\ d[k] < q.i /\ q.called[k] = q.stops[d[k]].lane
        /\ \A k, l \in 1..n : k < l => d[k] < d[l]
        /\ n < q.i
    BY DEF Walks
  <1>5. /\ here \in ToSet(w.called)
        /\ \A l \in ToSet(q.called) : l \in ToSet(w.called)
    <2>1. \A k \in 1..Len(w.called) : w.called[k] \in ToSet(w.called)
      BY <1>2, ListsAre
    <2>2. here \in ToSet(w.called)
      BY <2>1, <1>1, <1>2
    <2>3. ASSUME NEW l \in ToSet(q.called) PROVE l \in ToSet(w.called)
      <3>1. PICK k \in 1..n : q.called[k] = l
        BY <1>1, ListsAre
      <3>2. k \in 1..Len(w.called)
        BY <1>1, <1>2
      <3>. QED  BY <3>1, <3>2, <2>1, <1>2
    <2>. QED  BY <2>2, <2>3
  <1>. HIDE DEF n, e, here
  <1>6. \A k \in 1..n + 1 : /\ e[k] \in 1..Len(w.stops) /\ e[k] <= w.i /\ w.called[k] = w.stops[e[k]].lane
                            /\ w.at = "walking" => e[k] < w.i
    <2>. TAKE k \in 1..n + 1
    <2>1. CASE k = n + 1
      BY <2>1, <1>1, <1>2, <1>3 DEF here
    <2>2. CASE k \in 1..n
      <3>1. e[k] = d[k] /\ w.called[k] = q.called[k] /\ d[k] \in 1..Len(q.stops) /\ d[k] < q.i /\ q.called[k] = q.stops[d[k]].lane
        BY <2>2, <1>2, <1>3, <1>4
      <3>2. d[k] < w.i /\ d[k] <= w.i
        BY <3>1, <1>1
      <3>. QED  BY <3>1, <3>2
    <2>. QED  BY <2>1, <2>2, <1>3
  <1>7. \A k, l \in 1..n + 1 : k < l => e[k] < e[l]
    <2>. TAKE k, l \in 1..n + 1
    <2>. HAVE k < l
    <2>1. k \in 1..n
      BY <1>1
    <2>2. CASE l = n + 1
      BY <2>1, <2>2, <1>3, <1>4
    <2>3. CASE l \in 1..n
      BY <2>1, <2>3, <1>3, <1>4
    <2>. QED  BY <2>2, <2>3, <1>3
  <1>8. \A j \in 1..Len(q.stops) : j < q.i => q.stops[j].lane \in ToSet(w.called) \cup w.skipped
    BY <1>5 DEF Walks
  <1>9. q.stops[q.i].lane \in ToSet(w.called)
    BY <1>5 DEF here
  <1>10. \A j \in 1..Len(w.stops) : j < w.i => w.stops[j].lane \in ToSet(w.called) \cup w.skipped
    <2>. TAKE j \in 1..Len(w.stops)
    <2>. HAVE j < w.i
    <2>1. j < q.i \/ j = q.i
      BY <1>1
    <2>. QED  BY <2>1, <1>8, <1>9
  <1>11. \A j \in 1..Len(q.stops) : j < q.i => ~q.stops[j].terminal
    BY DEF Walks
  <1>12. \A j \in 1..Len(w.stops) : j < w.i => ~w.stops[j].terminal
    <2>. TAKE j \in 1..Len(w.stops)
    <2>. HAVE j < w.i
    <2>1. CASE w.i = q.i
      BY <2>1, <1>11
    <2>2. CASE w.i = q.i + 1 /\ ~q.stops[q.i].terminal
      <3>1. j < q.i \/ j = q.i
        BY <2>2, <1>1
      <3>. QED  BY <3>1, <2>2, <1>11
    <2>. QED  BY <2>1, <2>2
  <1>13. \A l \in w.skipped : \E j \in 1..Len(w.stops) : j < w.i /\ w.stops[j].lane = l
    <2>. TAKE l \in w.skipped
    <2>1. PICK j \in 1..Len(q.stops) : j < q.i /\ q.stops[j].lane = l
      BY DEF Walks
    <2>2. j < w.i
      BY <2>1, <1>1
    <2>. QED  BY <2>1, <2>2
  <1>14. w.at = "exhausted" /\ w.max = Len(w.stops) =>
          \/ \A j \in 1..Len(w.stops) : w.stops[j].lane \in ToSet(w.called) \cup w.skipped
          \/ \E j \in 1..Len(w.stops) : w.stops[j].terminal /\ w.stops[j].lane \in ToSet(w.called) \cup w.skipped
    <2>. HAVE w.at = "exhausted" /\ w.max = Len(w.stops)
    <2>1. CASE q.stops[q.i].terminal
      BY <2>1, <1>1, <1>9
    <2>2. CASE q.i = Len(q.stops)
      <3>1. \A j \in 1..Len(q.stops) : j < q.i \/ j = q.i
        BY <2>2, <1>1
      <3>. QED  BY <3>1, <1>8, <1>9
    <2>. QED  BY <2>1, <2>2
  <1>15. w.i \in 1..Len(w.stops) + 1 /\ Len(w.called) <= Len(w.stops) /\ (w.at = "walking" => Len(w.called) < w.i)
    BY <1>1, <1>2, <1>4
  <1>16. Walks(w, e)
    BY <1>2, <1>6, <1>7, <1>10, <1>12, <1>13, <1>14, <1>15, Zenon DEF Walks
  <1>. QED  BY <1>16

(* A parked lane is skipped.                                                *)
LEMMA SkipIs ==
    ASSUME NEW q, NEW d, Shape(q), Walks(q, d), q.at = "walking", q.i <= Len(q.stops),
           NEW w, w.stops = q.stops, w.called = q.called, w.skipped = q.skipped \cup {q.stops[q.i].lane}, w.i = q.i + 1,
           w.at = IF q.stops[q.i].terminal THEN "exhausted" ELSE "walking"
    PROVE  Walks(w, d)
  <1>1. Len(q.called) \in Nat /\ Len(q.stops) \in Nat /\ q.i \in 1..Len(q.stops)
    BY ListsAre DEF Shape, Walks
  <1>2. /\ \A k \in 1..Len(q.called) : d[k] \in 1..Len(q.stops) /\ d[k] < q.i /\ q.called[k] = q.stops[d[k]].lane
        /\ \A k, l \in 1..Len(q.called) : k < l => d[k] < d[l]
        /\ \A j \in 1..Len(q.stops) : j < q.i => ~q.stops[j].terminal
        /\ \A j \in 1..Len(q.stops) : j < q.i => q.stops[j].lane \in ToSet(q.called) \cup q.skipped
        /\ \A l \in q.skipped : \E j \in 1..Len(q.stops) : j < q.i /\ q.stops[j].lane = l
        /\ Len(q.called) < q.i
    BY DEF Walks
  <1>3. \A j \in 1..Len(q.stops) : j < q.i + 1 <=> j < q.i \/ j = q.i
    BY <1>1
  <1>4. \A k \in 1..Len(q.called) : d[k] < q.i + 1 /\ d[k] <= q.i + 1
    BY <1>1, <1>2
  <1>5. \A j \in 1..Len(q.stops) : j < q.i + 1 => q.stops[j].lane \in ToSet(q.called) \cup w.skipped
    BY <1>2, <1>3
  <1>6. \A j \in 1..Len(q.stops) : j < q.i + 1 /\ q.stops[j].terminal =>
          w.at = "exhausted" /\ j = (q.i + 1) - 1 /\ \A k \in 1..Len(q.called) : d[k] < j
    <2>. TAKE j \in 1..Len(q.stops)
    <2>. HAVE j < q.i + 1 /\ q.stops[j].terminal
    <2>1. j = q.i
      BY <1>2, <1>3
    <2>. QED  BY <2>1, <1>1, <1>2
  <1>7. \A l \in w.skipped : \E j \in 1..Len(q.stops) : j < q.i + 1 /\ q.stops[j].lane = l
    <2>. TAKE l \in w.skipped
    <2>1. CASE l = q.stops[q.i].lane
      BY <2>1, <1>1
    <2>2. CASE l \in q.skipped
      BY <2>2, <1>2, <1>3
    <2>. QED  BY <2>1, <2>2
  <1>8. w.at = "exhausted" => \E j \in 1..Len(q.stops) : q.stops[j].terminal /\ q.stops[j].lane \in ToSet(q.called) \cup w.skipped
    BY <1>1
  <1>9. q.i + 1 \in 1..Len(q.stops) + 1 /\ Len(q.called) <= Len(q.stops) /\ Len(q.called) < q.i + 1
    BY <1>1, <1>2
  <1>10. w.at = "exhausted" /\ w.max = Len(w.stops) =>
           \/ \A j \in 1..Len(w.stops) : w.stops[j].lane \in ToSet(w.called) \cup w.skipped
           \/ \E j \in 1..Len(w.stops) : w.stops[j].terminal /\ w.stops[j].lane \in ToSet(w.called) \cup w.skipped
    BY <1>8
  <1>. QED  BY <1>2, <1>4, <1>5, <1>6, <1>7, <1>9, <1>10 DEF Walks

(* No stop is left, or no attempt.                                          *)
LEMMA RunsOutIs ==
    ASSUME NEW q, NEW d, Shape(q), Walks(q, d), q.at = "walking", ~(q.i <= Len(q.stops) /\ q.i <= q.max),
           NEW w, w.stops = q.stops, w.called = q.called, w.skipped = q.skipped, w.i = q.i, w.max = q.max, w.at = "exhausted"
    PROVE  Walks(w, d)
  <1>1. Len(q.called) \in Nat /\ Len(q.stops) \in Nat /\ q.i \in 1..Len(q.stops) + 1
    BY ListsAre DEF Shape, Walks
  <1>2. \A j \in 1..Len(q.stops) : j < q.i => ~q.stops[j].terminal
    BY DEF Walks
  <1>3. q.max = Len(q.stops) => \A j \in 1..Len(q.stops) : j < q.i
    BY <1>1
  <1>. QED  BY <1>2, <1>3 DEF Walks

ServerPlans(s) == IsList(s.providers) /\ IsLanePlan(s.policy) /\ IsLanePlan(s.intents.coding) /\ s.auto \in BOOLEAN

(* A bridge starts with plans that were checked.                            *)
LEMMA ConstructedPlans ==
    ASSUME NEW o \in Options
    PROVE  ServerPlans(Constructed(o, 1))
  <1>1. ConfigFields \subseteq DOMAIN o /\ o.auto \in BOOLEAN
    BY RoutesAssumption, Zenon
  <1>2. LET s == Constructed(o, 1) IN s.providers = o.providers /\ s.policy = o.policy /\ s.intents = o.intents /\ s.auto = o.auto
    BY <1>1 DEF Constructed, ConfigFields
  <1>3. IsList(o.providers) /\ IsLanePlan(o.policy) /\ IsLanePlan(o.intents.coding)
    BY PlansAssumption, Zenon
  <1>. QED  BY <1>1, <1>2, <1>3, Zenon DEF ServerPlans

(* And is given none that were not.                                         *)
LEMMA ReconfiguredPlans ==
    ASSUME NEW s, NEW q \in Partials, NEW engine, ConfigFields \subseteq DOMAIN s, ServerPlans(s)
    PROVE  LET t == Reconfigured(s, q, engine).to
           IN  IsList(t.providers) /\ IsLanePlan(t.policy) /\ IsLanePlan(t.intents.coding)
  <1>. DEFINE served  == [s EXCEPT !.providers = Given(q, "providers", @), !.catalog = Given(q, "catalog", @),
                             !.source = IF "catalog" \in DOMAIN q THEN q.catalog
                                        ELSE IF "providers" \in DOMAIN q /\ s.catalog = NoCatalog THEN ToSet(q.providers)
                                        ELSE @]
              planned == [served EXCEPT !.policy = Given(q, "policy", @), !.intents = Given(q, "intents", @),
                                  !.auto = @ /\ "policy" \notin DOMAIN q]
              renewed == Says(q, "cooldown") \/ "policy" \in DOMAIN q \/ Given(q, "intents", NoIntents) # NoIntents
              done == [planned EXCEPT !.auto = Given(q, "auto", @), !.engine = IF renewed THEN engine ELSE @,
                                     !.default = Given(q, "default", @), !.model = Given(q, "model", @),
                                     !.pin = Given(q, "pin", @)]
              t == Reconfigured(s, q, engine).to
              Good(c) == IsList(c.providers) /\ IsLanePlan(c.policy) /\ IsLanePlan(c.intents.coding)
  <1>1. /\ "providers" \in DOMAIN q => IsList(q.providers)
        /\ "policy" \in DOMAIN q => IsLanePlan(q.policy)
        /\ "intents" \in DOMAIN q => IsLanePlan(q.intents.coding)
    BY PlansAssumption, Zenon
  <1>2. Good(s)
    BY DEF ServerPlans
  <1>3. Good(served) /\ ConfigFields \subseteq DOMAIN served
    <2>1. /\ ConfigFields \subseteq DOMAIN served /\ served.policy = s.policy /\ served.intents = s.intents
          /\ served.providers = Given(q, "providers", s.providers)
      BY DEF ConfigFields
    <2>. HIDE DEF served
    <2>2. IsList(served.providers)
      BY <1>1, <1>2, <2>1 DEF Given
    <2>. QED  BY <1>2, <2>1, <2>2
  <1>. HIDE DEF served
  <1>4. Good(planned) /\ ConfigFields \subseteq DOMAIN planned
    <2>1. /\ ConfigFields \subseteq DOMAIN planned /\ planned.providers = served.providers
          /\ planned.policy = Given(q, "policy", served.policy) /\ planned.intents = Given(q, "intents", served.intents)
      BY <1>3 DEF ConfigFields
    <2>. HIDE DEF planned
    <2>2. IsLanePlan(planned.policy) /\ IsLanePlan(planned.intents.coding)
      BY <1>1, <1>3, <2>1 DEF Given
    <2>. QED  BY <1>3, <2>1, <2>2
  <1>. HIDE DEF planned
  <1>5. Good(done)
    <2>1. done.providers = planned.providers /\ done.policy = planned.policy /\ done.intents = planned.intents
      BY <1>4 DEF ConfigFields
    <2>. QED  BY <1>4, <2>1
  <1>6. t \in {served, planned, done}
    BY DEF Reconfigured, served, planned
  <1>. HIDE DEF t, done
  <1>7. Good(t)
    BY <1>3, <1>4, <1>5, <1>6
  <1>. QED  BY <1>7 DEF t

LEMMA QuietIs ==
    ASSUME NEW s
    PROVE  RequestInv(s, Quiet)
  <1>1. IsLanePlan(NoPolicy)
    BY DEF IsLanePlan
  <1>. QED  BY <1>1, EmptyIs DEF Quiet, RequestInv, Shape, RequestFields, Walked

(* A reconfigure leaves a request where it is; it is calm no more.          *)
LEMMA DisturbedIs ==
    ASSUME NEW s, NEW t, NEW q, RequestInv(s, q), q.at # "none"
    PROVE  RequestInv(t, [q EXCEPT !.calm = FALSE])
  <1>. DEFINE w == [q EXCEPT !.calm = FALSE]
  <1>1. Shape(q)
    BY DEF RequestInv
  <1>2. /\ DOMAIN w = RequestFields /\ w.calm = FALSE /\ w.at = q.at /\ w.stops = q.stops /\ w.todo = q.todo /\ w.i = q.i
        /\ w.called = q.called /\ w.skipped = q.skipped /\ w.route = q.route /\ w.policy = q.policy /\ w.max = q.max
    BY <1>1 DEF Shape, RequestFields
  <1>. HIDE DEF w
  <1>3. Shape(w)
    BY <1>1, <1>2 DEF Shape
  <1>4. ~Follows(w) /\ (Direct(w) <=> Direct(q))
    BY <1>2 DEF Follows, Direct
  <1>5. Resolvable(s, q) => Resolvable(t, w)
    BY <1>2, <1>3, <1>4, Zenon DEF Resolvable
  <1>6. Aimed(s, q) => Aimed(t, w)
    BY <1>2, <1>3, <1>4, Zenon DEF Aimed
  <1>7. \A d : Walks(q, d) => Walks(w, d)
    BY <1>2 DEF Walks
  <1>8. RequestInv(t, w)
    BY <1>2, <1>3, <1>4, <1>5, <1>6, <1>7, Zenon DEF RequestInv
  <1>. QED  BY <1>8 DEF w

(* A step of the handler.                                                   *)
LEMMA RequestStep ==
    ASSUME ServerPlans(server), RequestInv(server, req), (\E ask \in Asks : Arrive(ask)) \/ Step \/ Forget
    PROVE  RequestInv(server, req')
  <1>1. Shape(req)
    BY DEF RequestInv
  <1>2. ASSUME NEW ask \in Asks, Arrive(ask) PROVE RequestInv(server, req')
    <2>1. Shape(Quiet) /\ Quiet.i = 0 /\ Quiet.called = <<>> /\ Quiet.skipped = {}
      BY QuietIs DEF RequestInv, Quiet
    <2>. DEFINE route == routeRequest(server, ask)
                place == IF route.primary.m = Cut THEN "refused" ELSE "routed"
    <2>2. req' = [Quiet EXCEPT !.at = place, !.ask = ask, !.route = route] /\ place \in {"refused", "routed"}
      BY <1>2 DEF Arrive
    <2>. HIDE DEF place, route
    <2>3. /\ DOMAIN req' = RequestFields /\ req'.at = place /\ req'.calm = Quiet.calm /\ req'.policy = Quiet.policy
          /\ req'.stops = Quiet.stops /\ req'.todo = Quiet.todo /\ req'.called = Quiet.called /\ req'.i = Quiet.i /\ req'.skipped = Quiet.skipped
      BY <2>1, <2>2 DEF Shape, RequestFields
    <2>4. Shape(req')
      BY <2>1, <2>3 DEF Shape
    <2>. QED  BY <2>1, <2>2, <2>3, <2>4 DEF RequestInv, Walked
  <1>3. CASE Plan
    <2>. DEFINE intent == intentFor(server, req.ask)
                policy == policyFor(server, intent)
                route  == req.route
                one == <<PrimaryStop(server, route.primary, policy)>>
                q == [req EXCEPT !.intent = intent, !.policy = policy, !.stops = one]
                two == Append(q.stops, Stop(route.displaced, FALSE))
                w == [q EXCEPT !.at = "displacing", !.stops = two]
    <2>1. /\ req.at = "routed"
          /\ req' = IF route.displaced # NoLane /\ route.displaced.p \in Registry(server) THEN w ELSE Expanded(q)
      BY <1>3 DEF Plan
    <2>2. IsList(one)
      <3>. DEFINE x == PrimaryStop(server, route.primary, policy)
      <3>. HIDE DEF x
      <3>1. <<x>> \in Seq({x})
        OBVIOUS
      <3>. QED  BY <3>1, ListOf DEF x
    <2>3. IsLanePlan(policy)
      BY Zenon DEF ServerPlans, policyFor
    <2>. HIDE DEF intent, policy, one
    <2>4. /\ DOMAIN q = RequestFields /\ q.intent = intent /\ q.policy = policy /\ q.stops = one /\ q.calm = req.calm /\ q.route = route
          /\ q.todo = req.todo /\ q.called = req.called /\ q.skipped = req.skipped /\ q.i = req.i
      BY <1>1 DEF Shape, RequestFields
    <2>5. req.i = 0 /\ req.called = <<>> /\ req.skipped = {}
      BY <2>1 DEF RequestInv
    <2>. HIDE DEF q
    <2>6. Shape(q)
      BY <1>1, <2>2, <2>3, <2>4 DEF Shape
    <2>7. CASE route.displaced # NoLane /\ route.displaced.p \in Registry(server)
      <3>1. IsList(two)
        BY <2>2, <2>4, AppendIs
      <3>. HIDE DEF two
      <3>2. /\ DOMAIN w = RequestFields /\ w.at = "displacing" /\ w.intent = q.intent /\ w.policy = q.policy /\ w.stops = two
            /\ w.calm = q.calm /\ w.route = q.route /\ w.todo = q.todo /\ w.called = q.called /\ w.skipped = q.skipped /\ w.i = q.i
        BY <2>6 DEF Shape, RequestFields
      <3>. HIDE DEF w
      <3>3. Shape(w)
        BY <2>6, <3>1, <3>2 DEF Shape
      <3>4. w.i = 0 /\ w.called = <<>> /\ w.skipped = {} /\ ~Direct(w) /\ w.policy = policyFor(server, w.intent)
        BY <2>4, <2>5, <2>7, <3>2 DEF Direct, policy
      <3>5. RequestInv(server, w)
        BY <3>2, <3>3, <3>4 DEF RequestInv, Walked
      <3>. QED  BY <2>1, <2>7, <3>5
    <2>8. CASE ~(route.displaced # NoLane /\ route.displaced.p \in Registry(server))
      <3>1. q.stops = <<PrimaryStop(server, q.route.primary, q.policy)>> /\ q.policy = policyFor(server, q.intent)
        BY <2>4, Zenon DEF one, policy
      <3>2. RequestInv(server, Expanded(q))
        BY <2>4, <2>5, <2>6, <3>1, ExpandedIs, Zenon DEF ServerPlans
      <3>. QED  BY <2>1, <2>8, <3>2
    <2>. QED  BY <2>7, <2>8
  <1>4. CASE Expand
    <2>1. req.at = "displacing" /\ req' = Expanded(req)
      BY <1>4 DEF Expand
    <2>2. ~Direct(req) /\ (req.calm => req.policy = policyFor(server, req.intent)) /\ req.i = 0 /\ req.called = <<>> /\ req.skipped = {}
      BY <2>1 DEF RequestInv
    <2>3. RequestInv(server, Expanded(req))
      BY <1>1, <2>2, ExpandedIs, Zenon DEF ServerPlans
    <2>. QED  BY <2>1, <2>3
  <1>5. CASE Resolve
    <2>1. req.at = "resolving" /\ req' = Proceed(req)
      BY <1>5 DEF Resolve
    <2>2. RequestInv(server, Proceed(req))
      BY <2>1, ProceedIs, Zenon DEF RequestInv
    <2>. QED  BY <2>1, <2>2
  <1>6. CASE Skip \/ Works \/ Fails \/ Refuses \/ RunsOut
    <2>1. req.at = "walking" /\ DOMAIN req = RequestFields
      BY <1>1, <1>6 DEF Skip, Works, Fails, Refuses, RunsOut, Walking, Shape
    <2>2. Aimed(server, req) /\ \E d : Walks(req, d)
      BY <2>1 DEF RequestInv, Walked
    <2>3. PICK d : Walks(req, d)
      BY <2>2
    <2>4. IsList(Append(req.called, Here.lane))
      BY <1>1, AppendIs DEF Shape
    <2>5. req.i \in Nat
      BY <1>1 DEF Shape
    <2>6. ASSUME req'.stops = req.stops, req'.route = req.route, req'.calm = req.calm, req'.max = req.max,
                 req'.ask = req.ask, req'.policy = req.policy, req'.todo = req.todo, DOMAIN req' = RequestFields,
                 req'.at \in Walked, IsList(req'.called), req'.i \in Nat, \E e : Walks(req', e)
          PROVE  RequestInv(server, req')
      <3>1. Shape(req')
        BY <1>1, <2>6 DEF Shape
      <3>2. Aimed(server, req')
        BY <2>2, <2>6, AimedStays, Zenon
      <3>3. req'.at \notin {"none", "routed", "displacing", "resolving", "refused"}
        BY <2>6 DEF Walked
      <3>. QED  BY <2>6, <3>1, <3>2, <3>3 DEF RequestInv
    <2>7. CASE Skip
      <3>1. /\ req'.stops = req.stops /\ req'.route = req.route /\ req'.calm = req.calm /\ req'.max = req.max
            /\ req'.ask = req.ask /\ req'.policy = req.policy /\ req'.todo = req.todo /\ DOMAIN req' = RequestFields
            /\ req'.called = req.called /\ req'.skipped = req.skipped \cup {req.stops[req.i].lane} /\ req'.i = req.i + 1
            /\ req'.at = (IF req.stops[req.i].terminal THEN "exhausted" ELSE "walking")
            /\ req.i <= Len(req.stops)
        BY <2>1, <2>7 DEF Skip, Here, Walking, RequestFields
      <3>2. Walks(req', d)
        BY <1>1, <2>1, <2>3, <3>1, SkipIs, Zenon
      <3>3. IsList(req'.called) /\ req'.i \in Nat /\ req'.at \in Walked
        BY <1>1, <2>5, <3>1 DEF Shape, Walked
      <3>. QED  BY <2>6, <3>1, <3>2, <3>3
    <2>8. CASE Works \/ Refuses \/ Fails
      <3>1. /\ req'.stops = req.stops /\ req'.route = req.route /\ req'.calm = req.calm /\ req'.max = req.max
            /\ req'.ask = req.ask /\ req'.policy = req.policy /\ req'.todo = req.todo /\ DOMAIN req' = RequestFields
            /\ req'.called = Append(req.called, req.stops[req.i].lane) /\ req'.skipped = req.skipped
            /\ req.i <= Len(req.stops)
        BY <2>1, <2>8 DEF Works, Refuses, Fails, Called, Here, Walking, RequestFields
      <3>2. \/ /\ req'.at \in {"answered", "rejected", "exhausted"} /\ req'.i = req.i
               /\ req'.at = "exhausted" => LastStop
            \/ req'.at = "walking" /\ req'.i = req.i + 1 /\ ~LastStop
        BY <2>1, <2>8 DEF Works, Refuses, Fails, Called, RequestFields
      <3>3. \/ /\ req'.at # "walking" /\ req'.i = req.i
               /\ req'.at = "exhausted" /\ req.max = Len(req.stops) => req.i = Len(req.stops) \/ req.stops[req.i].terminal
            \/ req'.at = "walking" /\ req'.i = req.i + 1 /\ ~req.stops[req.i].terminal
        <4>1. Len(req.stops) \in Nat
          BY <1>1, ListsAre DEF Shape
        <4>. QED  BY <3>1, <3>2, <4>1, <2>5 DEF LastStop, Here
      <3>4. \E e : Walks(req', e)
        BY <1>1, <2>1, <2>3, <3>1, <3>3, CallIs, Zenon
      <3>5. IsList(req'.called) /\ req'.i \in Nat /\ req'.at \in Walked
        BY <2>4, <2>5, <3>1, <3>2 DEF Here, Walked
      <3>. QED  BY <2>6, <3>1, <3>4, <3>5
    <2>9. CASE RunsOut
      <3>1. /\ req'.stops = req.stops /\ req'.route = req.route /\ req'.calm = req.calm /\ req'.max = req.max
            /\ req'.ask = req.ask /\ req'.policy = req.policy /\ req'.todo = req.todo /\ DOMAIN req' = RequestFields
            /\ req'.called = req.called /\ req'.skipped = req.skipped /\ req'.i = req.i /\ req'.at = "exhausted"
            /\ ~(req.i <= Len(req.stops) /\ req.i <= req.max)
        BY <2>1, <2>9 DEF RunsOut, Walking, RequestFields
      <3>2. Walks(req', d)
        BY <1>1, <2>1, <2>3, <3>1, RunsOutIs, Zenon
      <3>3. IsList(req'.called) /\ req'.i \in Nat /\ req'.at \in Walked
        BY <1>1, <2>5, <3>1 DEF Shape, Walked
      <3>. QED  BY <2>6, <3>1, <3>2, <3>3
    <2>. QED  BY <1>6, <2>7, <2>8, <2>9
  <1>7. CASE Forget
    BY <1>7, QuietIs DEF Forget
  <1>. QED  BY <1>2, <1>3, <1>4, <1>5, <1>6, <1>7 DEF Step

(* A walk calls none of its stops twice, none that bills for who asked for  *)
(* free lanes, and a cloud agent alone.                                     *)
LEMMA WalkersAre ==
    ASSUME RequestInv(server, req), TypeOK
    PROVE  WalkStaysInside /\ FreeNeverBills /\ CloudStaysPut
  <1>1. IsList(req.called) /\ IsList(req.stops)
    BY DEF RequestInv, Shape
  <1>2. /\ Len(req.stops) \in Nat /\ Len(req.called) \in Nat /\ req.called \in Seq(ToSet(req.called))
        /\ \A l \in ToSet(req.called) : \E k \in 1..Len(req.called) : req.called[k] = l
    BY <1>1, ListsAre
  <1>3. CASE req.at \in Walked
    <2>1. Aimed(server, req)
      BY <1>3 DEF RequestInv
    <2>2. PICK d : Walks(req, d)
      BY <1>3 DEF RequestInv
    <2>3. WalkStaysInside
      BY <2>2, <1>2 DEF WalkStaysInside, Walks
    <2>a. \A k \in 1..Len(req.called) : d[k] \in 1..Len(req.stops) /\ req.called[k] = req.stops[d[k]].lane
      BY <2>2 DEF Walks
    <2>4. \A l \in ToSet(req.called) : \E j \in 1..Len(req.stops) : req.stops[j].lane = l
      BY <2>a, <1>2
    <2>5. FreeNeverBills
      <3>. SUFFICES ASSUME req.route.free \/ (req.calm /\ server.policy # NoPolicy /\ server.policy.free) PROVE ToSet(req.called) \subseteq Free
        BY DEF FreeNeverBills
      <3>1. \A j \in 1..Len(req.stops) : req.stops[j].lane \in Free
        BY <2>1, Zenon DEF Aimed
      <3>. QED  BY <2>4, <3>1
    <2>6. CloudStaysPut
      <3>. SUFFICES ASSUME Undisplaced, NEW l \in ToSet(req.called), l.p = Cloud PROVE req.called = <<req.route.primary>>
        BY DEF CloudStaysPut
      <3>1. PICK k \in 1..Len(req.called) : req.called[k] = l
        BY <1>2
      <3>2. d[k] \in 1..Len(req.stops) /\ req.stops[d[k]].lane.p = Cloud
        BY <2>a, <3>1
      <3>3. Len(req.stops) = 1 /\ req.stops[1].lane = req.route.primary
        BY <2>1, <3>2, Zenon DEF Aimed, Undisplaced, Direct
      <3>4. Len(req.called) = 1
        <4>1. Len(req.called) <= Len(req.stops)
          BY <2>2 DEF Walks
        <4>. DEFINE n == Len(req.called)
                    m == Len(req.stops)
        <4>2. n \in Nat /\ n <= m /\ m = 1 /\ k \in 1..n
          BY <4>1, <1>2, <3>1, <3>3, Zenon
        <4>. HIDE DEF n, m
        <4>3. n = 1
          BY <4>2
        <4>. QED  BY <4>3 DEF n
      <3>5. req.called[1] = req.route.primary
        <4>1. d[1] \in 1..1 /\ req.called[1] = req.stops[d[1]].lane
          BY <2>a, <3>3, <3>4
        <4>. QED  BY <4>1, <3>3
      <3>. QED  BY <1>2, <3>4, <3>5
    <2>. QED  BY <2>3, <2>5, <2>6
  <1>4. CASE req.at \notin Walked
    <2>1. req.i = 0 /\ req.called = <<>>
      BY <1>4, Zenon DEF RequestInv, TypeOK, Walked
    <2>2. WalkStaysInside
      BY <2>1, <1>2 DEF WalkStaysInside
    <2>3. ToSet(req.called) = {}
      BY <2>1, <1>2
    <2>. QED  BY <2>2, <2>3 DEF FreeNeverBills, CloudStaysPut
  <1>. QED  BY <1>3, <1>4

(* The lanes a request called are those of its plan at the places e, in its *)
(* order; none but the last called ends a walk, and one that was skipped    *)
(* ended it if it does.                                                     *)
Follow(r, e) ==
    /\ \A k \in 1..Len(req.called) : e[k] \in 1..Len(r) /\ req.called[k] = r[e[k]].lane
    /\ \A k, l \in 1..Len(req.called) : k < l => e[k] < e[l] /\ ~r[e[k]].terminal
    /\ \A l \in req.skipped : \E x \in 1..Len(r) : r[x].lane = l /\ (r[x].terminal => req.at = "exhausted")

(* Whoever follows a plan calls its lanes in its order.                     *)
LEMMA CalledAre ==
    ASSUME RequestInv(server, req), Planned
    PROVE  \E e : Follow(PlanOf(server, req), e)
  <1>. DEFINE r == PlanOf(server, req)
              W == {x \in 1..Len(r) : /\ Keeps(server, req, r[x].lane) /\ Able(req, r[x].lane)
                                      /\ FreeOnly(server, req) => r[x].lane \in Free}
  <1>1. req.at \in Walked /\ Follows(req)
    BY DEF Planned, Walked, Follows, Direct, Undisplaced, Policy
  <1>2. Aimed(server, req) /\ \E d : Walks(req, d)
    BY <1>1 DEF RequestInv
  <1>3. PICK c : Picks(req.stops, r, W, c)
    BY <1>1, <1>2, Zenon DEF Aimed
  <1>4. PICK d : Walks(req, d)
    BY <1>2
  <1>5. Len(req.stops) \in Nat /\ Len(req.called) \in Nat /\ req.i \in Nat
    BY ListsAre DEF RequestInv, Shape
  <1>. DEFINE e == [k \in 1..Len(req.called) |-> c[d[k]]]
  <1>. HIDE DEF r, W
  <1>6. ASSUME NEW j \in 1..Len(req.stops) PROVE c[j] \in 1..Len(r) /\ req.stops[j] = r[c[j]]
    BY <1>3 DEF Picks
  <1>7. ASSUME NEW k \in 1..Len(req.called)
        PROVE  d[k] \in 1..Len(req.stops) /\ e[k] = c[d[k]] /\ e[k] \in 1..Len(r) /\ req.called[k] = r[e[k]].lane
    <2>1. d[k] \in 1..Len(req.stops) /\ req.called[k] = req.stops[d[k]].lane
      BY <1>4 DEF Walks
    <2>. QED  BY <2>1, <1>6
  <1>8. ASSUME NEW k \in 1..Len(req.called), NEW l \in 1..Len(req.called), k < l PROVE e[k] < e[l] /\ ~r[e[k]].terminal
    <2>1. d[k] < d[l] /\ d[l] <= req.i
      BY <1>4, <1>8 DEF Walks
    <2>2. e[k] < e[l]
      BY <1>3, <1>7, <2>1 DEF Picks
    <2>3. ~req.stops[d[k]].terminal
      <3>. DEFINE x == d[k]
                  y == d[l]
                  m == Len(req.stops)
                  i == req.i
      <3>0. x \in 1..m /\ y \in 1..m /\ x < y /\ y <= i /\ m \in Nat /\ i \in Nat
        BY <1>5, <1>7, <2>1
      <3>. HIDE DEF x, y, m, i
      <3>1. x \in 1..m /\ x < i
        BY <3>0
      <3>. USE DEF x, y, m, i
      <3>2. req.stops[d[k]].terminal => \A n \in 1..Len(req.called) : d[n] < d[k]
        BY <3>1, <1>4, Zenon DEF Walks
      <3>. QED  BY <3>1, <3>2
    <2>. QED  BY <1>6, <1>7, <2>2, <2>3
  <1>9. ASSUME NEW l \in req.skipped PROVE \E x \in 1..Len(r) : r[x].lane = l /\ (r[x].terminal => req.at = "exhausted")
    <2>1. PICK j \in 1..Len(req.stops) : j < req.i /\ req.stops[j].lane = l
      BY <1>4 DEF Walks
    <2>2. req.stops[j].terminal => req.at = "exhausted"
      BY <2>1, <1>4 DEF Walks
    <2>. QED  BY <2>1, <2>2, <1>6
  <1>. HIDE DEF e
  <1>10. Follow(r, e)
    BY <1>7, <1>8, <1>9, Zenon DEF Follow
  <1>. QED  BY <1>10 DEF r

(* It stops where the plan does, keeps to its order and stays under its cap.*)
LEMMA FollowersAre ==
    ASSUME RequestInv(server, req)
    PROVE  StopLanesStop /\ PlanOrder /\ ProviderCapHolds
  <1>. SUFFICES ASSUME Planned PROVE StopLanesStop /\ PlanOrder /\ ProviderCapHolds
    BY DEF StopLanesStop, PlanOrder, ProviderCapHolds
  <1>. DEFINE r == PlanOf(server, req)
  <1>1. PICK e : Follow(r, e)
    BY CalledAre
  <1>2. Shape(req) /\ req.policy # NoPolicy /\ Policy = req.policy
    BY DEF RequestInv, Planned, Policy
  <1>3. Resolves(r, req.policy, req.route.primary, server.source) /\ Len(r) \in Nat /\ DOMAIN r = 1..Len(r)
    BY <1>2, PlanResolves
  <1>4. /\ DOMAIN req.called = 1..Len(req.called) /\ Len(req.called) \in Nat
        /\ \A l \in ToSet(req.called) : \E k \in 1..Len(req.called) : req.called[k] = l
    BY <1>2, ListsAre DEF Shape
  <1>. HIDE DEF r
  <1>5. \A x \in 1..Len(r) : Marked(r[x].lane) <=> r[x].terminal
    BY <1>2, <1>3, Zenon DEF Marked, Resolves
  <1>6. ASSUME NEW k \in 1..Len(req.called) PROVE e[k] \in 1..Len(r) /\ req.called[k] = r[e[k]].lane
    BY <1>1 DEF Follow
  <1>7. ASSUME NEW k \in 1..Len(req.called), NEW l \in 1..Len(req.called), k < l PROVE e[k] < e[l] /\ ~r[e[k]].terminal
    BY <1>1, <1>7 DEF Follow
  <1>8. StopLanesStop
    <2>1. \A i, j \in 1..Len(req.called) : i < j => ~Marked(req.called[i])
      BY <1>5, <1>6, <1>7
    <2>2. ASSUME NEW l \in req.skipped, Marked(l) PROVE req.at = "exhausted"
      <3>1. PICK x \in 1..Len(r) : r[x].lane = l /\ (r[x].terminal => req.at = "exhausted")
        BY <1>1 DEF Follow
      <3>. QED  BY <3>1, <2>2, <1>5
    <2>. QED  BY <1>4, <2>1, <2>2, Zenon DEF StopLanesStop
  <1>9. PlanOrder
    <2>. SUFFICES ASSUME NEW i \in 1..Len(req.called), NEW j \in 1..Len(req.called), i < j
                  PROVE  /\ req.called[i] # req.called[j] /\ req.called[j] # req.route.primary
                         /\ req.called[j] \in LanesIn(req.policy.trusted) =>
                              req.called[i] \in LanesIn(req.policy.trusted) \cup {req.route.primary}
      BY <1>2, <1>4, Zenon DEF PlanOrder
    <2>1. e[i] < e[j] /\ e[i] \in 1..Len(r) /\ e[j] \in 1..Len(r) /\ req.called[i] = r[e[i]].lane /\ req.called[j] = r[e[j]].lane
      BY <1>6, <1>7
    <2>2. e[i] # e[j] /\ e[j] # 1 /\ 1 \in 1..Len(r)
      BY <1>3, <2>1
    <2>3. r[1].lane = req.route.primary /\ \A x, y \in 1..Len(r) : r[x].lane = r[y].lane => x = y
      BY <1>3, Zenon DEF Resolves
    <2>4. r[e[j]].lane \in LanesIn(req.policy.trusted) => r[e[i]].lane \in LanesIn(req.policy.trusted) \cup {req.route.primary}
      BY <1>3, <2>1, Zenon DEF Resolves
    <2>. QED  BY <2>1, <2>2, <2>3, <2>4, Zenon
  <1>10. ProviderCapHolds
    <2>. SUFFICES ASSUME req.policy.max # 0 PROVE Cardinality({l.p : l \in ToSet(req.called)}) <= req.policy.max
      BY <1>2, Zenon DEF ProviderCapHolds
    <2>. DEFINE P == ProvidersOf(r)
                Q == {l.p : l \in ToSet(req.called)}
                max == req.policy.max
    <2>1. IsFiniteSet(P) /\ Cardinality(P) <= max
      BY <1>3, Zenon DEF Resolves
    <2>2. Q \subseteq P
      <3>. SUFFICES ASSUME NEW l \in ToSet(req.called) PROVE l.p \in P
        OBVIOUS
      <3>1. PICK k \in 1..Len(req.called) : req.called[k] = l
        BY <1>4
      <3>. QED  BY <3>1, <1>3, <1>6 DEF ProvidersOf
    <2>3. max \in Nat
      BY <1>2, Zenon DEF Shape, IsLanePlan, IsLanePolicy
    <2>. HIDE DEF P, Q, max
    <2>4. Cardinality(Q) <= Cardinality(P) /\ Cardinality(Q) \in Nat /\ Cardinality(P) \in Nat
      BY <2>1, <2>2, FS_Subset, FS_CardinalityType
    <2>5. Cardinality(Q) <= max
      BY <2>1, <2>3, <2>4
    <2>. QED  BY <2>5 DEF Q, max
  <1>. QED  BY <1>8, <1>9, <1>10

(* A request that was not displaced has, of its plan, what can serve it.    *)
Serves(s, q, r) ==
    {x \in 1..Len(r) : Keeps(s, q, r[x].lane) /\ Able(q, r[x].lane) /\ (FreeOnly(s, q) => r[x].lane \in Free)}

LEMMA StopsServe ==
    ASSUME RequestInv(server, req), Planned
    PROVE  LET r == PlanOf(server, req)
           IN  /\ req.max = Len(req.stops) /\ \E c : Picks(req.stops, r, Serves(server, req, r), c)
               /\ Resolves(r, req.policy, req.route.primary, server.source)
               /\ r \in Seq(ToSet(r)) /\ Len(r) \in Nat /\ DOMAIN r = 1..Len(r)
  <1>. DEFINE r == PlanOf(server, req)
  <1>1. req.at \in Walked /\ Follows(req)
    BY DEF Planned, Walked, Follows, Direct, Undisplaced, Policy
  <1>2. Aimed(server, req) /\ Shape(req)
    BY <1>1 DEF RequestInv
  <1>3. req.max = Len(req.stops) /\ \E c : Picks(req.stops, r, Serves(server, req, r), c)
    BY <1>1, <1>2, Zenon DEF Aimed, Serves
  <1>4. /\ Resolves(r, req.policy, req.route.primary, server.source)
        /\ r \in Seq(ToSet(r)) /\ Len(r) \in Nat /\ DOMAIN r = 1..Len(r)
    BY <1>1, <1>2, PlanResolves, Zenon DEF Follows
  <1>. QED  BY <1>3, <1>4

(* It gives up when the plan is through.                                    *)
LEMMA ExhaustedAre ==
    ASSUME RequestInv(server, req)
    PROVE  ExhaustsThePlan
  <1>. SUFFICES ASSUME Planned, req.at = "exhausted", req.policy.max = 0, req.route.primary.p # Cloud,
                       NEW l \in LanesIn(PlanEntries(req.policy)), l.p \in server.source, l.p # Cloud, l.p \in Registry(server),
                       req.ask.tools => l.p \notin Toolless,
                       req.route.free \/ (server.policy # NoPolicy /\ server.policy.free) => l \in Free,
                       ~\E m \in ToSet(req.called) \cup req.skipped : Marked(m)
                PROVE  l \in ToSet(req.called) \cup req.skipped
    BY DEF ExhaustsThePlan, Policy
  <1>. DEFINE r == PlanOf(server, req)
  <1>1. /\ req.max = Len(req.stops) /\ Resolves(r, req.policy, req.route.primary, server.source) /\ Len(r) \in Nat
        /\ \E c : Picks(req.stops, r, Serves(server, req, r), c)
    BY StopsServe, Zenon
  <1>2. PICK c : Picks(req.stops, r, Serves(server, req, r), c)
    BY <1>1
  <1>3. \E d : Walks(req, d)
    BY DEF RequestInv, Walked
  <1>4. PICK d : Walks(req, d)
    BY <1>3
  <1>. HIDE DEF r
  <1>5. PICK x \in 1..Len(r) : r[x].lane = l
    BY <1>1, Zenon DEF Resolves
  <1>6. x \in Serves(server, req, r)
    <2>1. Keeps(server, req, l)
      BY DEF Keeps, Eligible
    <2>2. Able(req, l) /\ (FreeOnly(server, req) => l \in Free)
      BY DEF Able, FreeOnly
    <2>. QED  BY <1>5, <2>1, <2>2, Zenon DEF Serves
  <1>7. PICK k \in 1..Len(req.stops) : c[k] = x
    BY <1>2, <1>5, <1>6, Zenon DEF Picks
  <1>8. req.stops[k].lane = l
    BY <1>2, <1>5, <1>7 DEF Picks
  <1>9. ASSUME NEW j \in 1..Len(req.stops), req.stops[j].terminal PROVE Marked(req.stops[j].lane)
    <2>1. c[j] \in 1..Len(r) /\ req.stops[j] = r[c[j]]
      BY <1>2, Zenon DEF Picks
    <2>2. r[c[j]].terminal => Marked(r[c[j]].lane)
      BY <1>1, <2>1, Zenon DEF Resolves, Marked, Policy
    <2>. QED  BY <1>9, <2>1, <2>2, Zenon
  <1>10. \/ \A j \in 1..Len(req.stops) : req.stops[j].lane \in ToSet(req.called) \cup req.skipped
         \/ \E j \in 1..Len(req.stops) : req.stops[j].terminal /\ req.stops[j].lane \in ToSet(req.called) \cup req.skipped
    BY <1>1, <1>4, Zenon DEF Walks
  <1>. QED  BY <1>7, <1>8, <1>9, <1>10, Zenon

(* The library's client would walk the same lanes.                          *)
LEMMA ClientAgrees ==
    ASSUME RequestInv(server, req)
    PROVE  SameLanesAsClient
  <1>. DEFINE r == PlanOf(server, req)
              able == requireCapableTargets(failoverTargets(server, req.route.primary, req.policy), req)
              V == {i \in DOMAIN able : able[i].lane = req.route.primary
                                          \/ (able[i].lane.p # Cloud /\ able[i].lane.p \in Registry(server))}
              lanes == Those(able, V)
  <1>. SUFFICES ASSUME Planned, req.at = "walking", ~FreeOnly(server, req), req.route.primary.p # Cloud
                PROVE  req.stops = lanes
    BY DEF SameLanesAsClient, FreeOnly, Policy
  <1>. DEFINE S == ToSet(r)
              Y == {x \in DOMAIN r : req.ask.tools /\ req.route.primary.p # Cloud => r[x].lane.p \notin Toolless}
              Z == {x \in 1..Len(r) : Keeps(server, req, r[x].lane)}
              W == Serves(server, req, r)
  <1>1. r \in Seq(S) /\ Len(r) \in Nat /\ DOMAIN r = 1..Len(r) /\ \E c : Picks(req.stops, r, W, c)
    BY StopsServe, Zenon
  <1>2. PICK c : Picks(req.stops, r, W, c)
    BY <1>1
  <1>3. able = Those(r, Y)
    BY DEF requireCapableTargets, failoverTargets, PlanOf, Planned, Policy
  <1>4. req.stops \in Seq(ToSet(req.stops))
    BY ListsAre DEF RequestInv, Shape
  <1>. HIDE DEF r, S, Y, able, W
  <1>5. able \in Seq(S) /\ \E a : Picks(able, r, Y, a)
    BY <1>1, <1>3, ThoseAre
  <1>6. PICK a : Picks(able, r, Y, a)
    BY <1>5
  <1>. HIDE DEF V, lanes, Z
  <1>7. lanes \in Seq(S) /\ \E b : Picks(lanes, able, V, b)
    BY <1>5, ThoseAre DEF lanes
  <1>8. PICK b : Picks(lanes, able, V, b)
    BY <1>7
  <1>9. ASSUME NEW i \in 1..Len(able) PROVE i \in V <=> a[i] \in Z
    <2>1. a[i] \in 1..Len(r) /\ able[i] = r[a[i]] /\ i \in DOMAIN able
      BY <1>5, <1>6 DEF Picks
    <2>2. Keeps(server, req, able[i].lane) <=> able[i].lane = req.route.primary
                                          \/ (able[i].lane.p # Cloud /\ able[i].lane.p \in Registry(server))
      BY DEF Keeps, Eligible
    <2>. QED  BY <2>1, <2>2, Zenon DEF V, Z
  <1>10. PICK e : Picks(lanes, r, Y \cap Z, e)
    BY <1>1, <1>5, <1>6, <1>7, <1>8, <1>9, PicksOfPicks, Zenon
  <1>11. \A x \in 1..Len(r) : x \in Y \cap Z <=> x \in W
    BY <1>1, Zenon DEF Y, Z, W, Serves, Able
  <1>12. Picks(lanes, r, W, e)
    BY <1>10, <1>11, PicksAtSame, Zenon
  <1>. DEFINE T == ToSet(req.stops)
              u == req.stops
  <1>13. u \in Seq(T) /\ lanes \in Seq(S) /\ Picks(u, r, W, c) /\ Picks(lanes, r, W, e)
    BY <1>2, <1>4, <1>7, <1>12, Zenon
  <1>. HIDE DEF T, u
  <1>14. u = lanes
    BY <1>13, PicksAgree
  <1>. QED  BY <1>14 DEF u

(* The lanes published of a plan are lanes of its entries.                  *)
LEMMA PublishedAre ==
    ASSUME NEW s, NEW policy, IsLanePolicy(policy), NEW l \in ToSet(policyPlanLanes(s, policy))
    PROVE  l = Lane(l.p, l.m) /\ IsModel(l.m)
  <1>. DEFINE all     == PlanEntries(policy)
              known   == {i \in DOMAIN all : all[i].models # <<>> \/ all[i].p \in s.source}
              entries == Those(all, known)
              ss      == [i \in DOMAIN entries |-> EntryStops(entries[i])]
              stops   == FlattenSeq(ss)
              lanes   == [i \in DOMAIN stops |-> stops[i].lane]
              places  == {i \in FirstPlaces(stops) : lanes[i].p \in Registry(s)}
              S == UNION {ToSet(EntryStops(all[i])) : i \in 1..Len(all)}
              L == {t.lane : t \in S}
  <1>1. IsList(all) /\ \A i \in 1..Len(all) : IsEntry(all[i])
    <2>1. IsList(all) /\ Len(all) = Len(policy.trusted) + Len(policy.fallback) /\ \A i \in 1..Len(policy.trusted) + Len(policy.fallback) : IsEntry(all[i])
      BY EntriesAre, Zenon
    <2>. HIDE DEF all
    <2>. QED  BY <2>1
  <1>2. l \in ToSet(Those(lanes, places))
    BY DEF policyPlanLanes
  <1>. HIDE DEF all, known, places
  <1>3. all \in Seq(ToSet(all)) /\ Len(all) \in Nat
    BY <1>1, ListsAre
  <1>4. entries \in Seq(ToSet(all)) /\ \E a : Picks(entries, all, known, a)
    BY <1>3, ThoseAre
  <1>5. PICK a : Picks(entries, all, known, a)
    BY <1>4
  <1>6. Len(entries) \in Nat /\ DOMAIN entries = 1..Len(entries)
    BY <1>4
  <1>7. \A i \in 1..Len(entries) : a[i] \in 1..Len(all) /\ entries[i] = all[a[i]]
    BY <1>5 DEF Picks
  <1>. HIDE DEF entries
  <1>8. \A i \in 1..Len(entries) : ss[i] = EntryStops(entries[i])
    BY <1>6
  <1>9. ss \in [1..Len(entries) -> Seq(S)]
    <2>1. ASSUME NEW i \in 1..Len(entries) PROVE ss[i] \in Seq(S)
      <3>1. a[i] \in 1..Len(all) /\ ss[i] = EntryStops(all[a[i]])
        BY <1>7, <1>8
      <3>. DEFINE u == EntryStops(all[a[i]])
      <3>2. IsList(u)
        BY <1>1, <3>1, EntryStopsAre
      <3>3. ToSet(u) \subseteq S
        BY <3>1
      <3>. HIDE DEF u, S
      <3>4. u \in Seq(ToSet(u)) /\ Len(u) \in Nat /\ \A n \in 1..Len(u) : u[n] \in ToSet(u)
        BY <3>2, ListsAre
      <3>5. u \in [1..Len(u) -> S]
        BY <3>3, <3>4
      <3>6. u \in Seq(S)
        BY <3>4, <3>5
      <3>. QED  BY <3>1, <3>6 DEF u
    <2>. HIDE DEF S
    <2>. QED  BY <1>6, <2>1
  <1>. HIDE DEF S, ss
  <1>10. ss \in Seq(Seq(S))
    BY <1>6, <1>9
  <1>11. stops \in Seq(S)
    BY <1>10, FlatIs
  <1>. HIDE DEF stops
  <1>12. lanes \in Seq(L)
    <2>1. Len(stops) \in Nat /\ DOMAIN stops = 1..Len(stops) /\ \A i \in 1..Len(stops) : stops[i] \in S
      BY <1>11
    <2>2. \A i \in 1..Len(stops) : stops[i].lane \in L
      BY <2>1
    <2>. HIDE DEF L
    <2>3. lanes \in [1..Len(stops) -> L]
      BY <2>1, <2>2
    <2>. HIDE DEF lanes
    <2>. QED  BY <2>1, <2>3
  <1>. HIDE DEF lanes, L
  <1>13. Those(lanes, places) \in Seq(L)
    BY <1>12, ThoseAre
  <1>14. l \in L
    <2>. DEFINE t == Those(lanes, places)
    <2>. HIDE DEF t
    <2>1. t \in Seq(L) /\ l \in ToSet(t)
      BY <1>2, <1>13 DEF t
    <2>. QED  BY <2>1 DEF ToSet
  <1>15. PICK t \in S : t.lane = l
    BY <1>14 DEF L
  <1>16. PICK i \in 1..Len(all) : t \in ToSet(EntryStops(all[i]))
    BY <1>15 DEF S
  <1>17. t.lane = Lane(all[i].p, t.lane.m) /\ t.lane.p = all[i].p /\ IsModel(t.lane.m)
    BY <1>1, <1>16, EntryStopsAre, Zenon
  <1>. QED  BY <1>15, <1>17

(* The id published for a lane is routed to it.                             *)
LEMMA PublishedLead ==
    ASSUME ServerPlans(server)
    PROVE  PickedLaneLeads
  <1>. SUFFICES ASSUME NEW policy \in {server.policy, server.intents.coding} \ {NoPolicy}, NEW l \in ToSet(policyPlanLanes(server, policy)),
                       l.p \in ToSet(server.providers), ~(Len(l.m) > 1 /\ Head(l.m) = l.p)
                PROVE  routeModel(server, publishedRoute(server, l)) = l
    BY DEF PickedLaneLeads
  <1>. DEFINE providers == server.providers
              m == l.m
              id == publishedRoute(server, l)
              other == \E i \in DOMAIN providers : providers[i] # l.p /\ Len(m) > 1 /\ m[1] = providers[i]
  <1>1. l = Lane(l.p, m) /\ IsModel(m)
    <2>1. IsLanePolicy(policy)
      <3>1. policy # NoPolicy /\ (policy = server.policy \/ policy = server.intents.coding)
        OBVIOUS
      <3>2. IsLanePlan(policy)
        BY <3>1 DEF ServerPlans
      <3>. QED  BY <3>1, <3>2 DEF IsLanePlan
    <2>. QED  BY <2>1, PublishedAre
  <1>2. m \in Seq(ToSet(m)) /\ Len(m) \in Nat /\ m # <<>>
    BY <1>1, ListsAre DEF IsModel, NoModel
  <1>3. \A p : Contains(providers, p) <=> \E i \in DOMAIN providers : providers[i] = p
    <2>1. DOMAIN providers = 1..Len(providers)
      BY ListsAre DEF ServerPlans
    <2>. QED  BY <2>1 DEF Contains
  <1>4. Contains(providers, l.p)
    <2>1. \E i \in DOMAIN providers : providers[i] = l.p
      BY DEF ToSet
    <2>. QED  BY <2>1, <1>3
  <1>5. CASE l.p = server.default /\ ~other
    <2>1. id = m
      BY <1>5 DEF publishedRoute
    <2>2. defaultProvider(server) = l.p
      BY <1>4, <1>5 DEF defaultProvider
    <2>3. ~(Len(m) > 1 /\ Contains(providers, Head(m)))
      BY <1>2, <1>3, <1>5
    <2>. QED  BY <1>1, <1>2, <2>1, <2>2, <2>3, Zenon DEF routeModel, NoModel
  <1>6. CASE ~(l.p = server.default /\ ~other)
    <2>. DEFINE prefixed == <<l.p>> \o m
    <2>1. id = prefixed
      BY <1>6 DEF publishedRoute
    <2>2. Len(prefixed) > 1 /\ Head(prefixed) = l.p /\ Tail(prefixed) = m
      <3>. DEFINE p == l.p
                  S == ToSet(m) \cup {p}
      <3>1. m \in Seq(S) /\ p \in S /\ Len(m) >= 1
        <4>1. m \in [1..Len(m) -> S]
          BY <1>2
        <4>. HIDE DEF S, m
        <4>. QED  BY <1>2, <4>1 DEF S
      <3>. HIDE DEF S, m, p
      <3>2. Len(<<p>> \o m) = Len(m) + 1 /\ Head(<<p>> \o m) = p /\ Tail(<<p>> \o m) = m
        BY <3>1, ConsIs, Zenon
      <3>3. Len(<<p>> \o m) > 1
        BY <1>2, <3>1, <3>2
      <3>. QED  BY <3>2, <3>3, Zenon DEF p
    <2>. QED  BY <1>1, <1>4, <2>1, <2>2, Zenon DEF routeModel
  <1>. QED  BY <1>5, <1>6

(* The configuration is whole and its plans are what the check of a         *)
(* document lets pass; the handler is where its plan says.                  *)
PlannedInv == RoutesIInv /\ ServerPlans(server) /\ RequestInv(server, req)

LEMMA PlannedInitially == Init => PlannedInv
  <1>. SUFFICES ASSUME Init PROVE PlannedInv
    OBVIOUS
  <1>1. PICK o \in Options : server = Constructed(o, 1)
    BY DEF Init
  <1>2. ServerPlans(server)
    BY <1>1, ConstructedPlans
  <1>3. RequestInv(server, req)
    BY QuietIs DEF Init
  <1>. QED  BY <1>2, <1>3, RoutesInitially DEF PlannedInv

LEMMA PlannedStep == PlannedInv /\ [Next]_vars => PlannedInv'
  <1>. SUFFICES ASSUME PlannedInv, [Next]_vars PROVE PlannedInv'
    OBVIOUS
  <1>1. RoutesIInv /\ ServerPlans(server) /\ RequestInv(server, req)
    BY DEF PlannedInv
  <1>2. RoutesIInv'
    BY <1>1, RoutesStep
  <1>3. CASE (\E ask \in Asks : Arrive(ask)) \/ Step \/ Forget
    <2>1. RequestInv(server, req')
      BY <1>1, <1>3, RequestStep
    <2>2. server' = server
      BY <1>3 DEF Arrive, Step, Plan, Expand, Resolve, Skip, Works, Fails, Refuses, RunsOut, Forget
    <2>3. RequestInv(server', req') /\ ServerPlans(server')
      BY <1>1, <2>1, <2>2
    <2>. QED  BY <1>2, <2>3 DEF PlannedInv
  <1>4. CASE \E q \in Partials : Reconfigure(q)
    <2>1. PICK q \in Partials : Reconfigure(q)
      BY <1>4
    <2>2. server' = Reconfigured(server, q, reconfigures + 2).to
          /\ req' = IF req.at = "none" THEN req ELSE [req EXCEPT !.calm = FALSE]
      BY <2>1 DEF Reconfigure
    <2>3. ServerPlans(server')
      <3>1. ConfigFields \subseteq DOMAIN server
        BY <1>1 DEF RoutesIInv
      <3>2. IsList(server'.providers) /\ IsLanePlan(server'.policy) /\ IsLanePlan(server'.intents.coding)
        BY <1>1, <2>2, <3>1, ReconfiguredPlans
      <3>3. server'.auto \in BOOLEAN
        BY <1>2 DEF RoutesIInv, ConfigurationIsWhole, TypeOK
      <3>. QED  BY <3>2, <3>3 DEF ServerPlans
    <2>4. RequestInv(server', req')
      <3>1. CASE req.at = "none"
        <4>1. req = Quiet
          BY <1>1, <3>1 DEF RequestInv
        <4>. QED  BY <2>2, <3>1, <4>1, QuietIs
      <3>2. CASE req.at # "none"
        BY <1>1, <2>2, <3>2, DisturbedIs
      <3>. QED  BY <3>1, <3>2
    <2>. QED  BY <1>2, <2>3, <2>4 DEF PlannedInv
  <1>5. CASE UNCHANGED vars
    <2>1. RequestInv(server', req') /\ ServerPlans(server')
      BY <1>1, <1>5 DEF vars
    <2>. QED  BY <1>2, <2>1 DEF PlannedInv
  <1>. QED  BY <1>3, <1>4, <1>5 DEF Next

LEMMA PlannedGo == PlannedInv => RequestsGoAsPlanned
  <1>. SUFFICES ASSUME PlannedInv PROVE RequestsGoAsPlanned
    OBVIOUS
  <1>1. RequestInv(server, req) /\ ServerPlans(server) /\ TypeOK
    BY DEF PlannedInv, RoutesIInv, ConfigurationIsWhole
  <1>. QED  BY <1>1, WalkersAre, FollowersAre, ExhaustedAre, ClientAgrees, PublishedLead DEF RequestsGoAsPlanned

(* For any providers, plans, models and requests, and however often the     *)
(* bridge is reconfigured: a walk ends and calls no stop twice, whoever     *)
(* asked for free lanes is billed nowhere, a cloud agent keeps to itself,   *)
(* a published id leads to its lane, and a request that no reconfigure      *)
(* disturbed walks the lanes of its plan that can serve it, as the          *)
(* library's client would, in order, under the cap, up to a stop lane and   *)
(* to the end (resolvePolicyLanes, lanesForRoute, callWithFailover).        *)
THEOREM RequestsAreServedAsPlanned == Spec => []RequestsGoAsPlanned
  BY PlannedInitially, PlannedStep, PlannedGo, PTL DEF Spec

-----------------------------------------------------------------------------
(* The settings                                                             *)

DocumentFields == {"form", "keys", "service", "local"}
FormFields == {"policy", "default", "model", "catalog", "byok", "custom", "chat", "cloud"}
Stages == {"idle", "listing", "warming"}

(* Whatever is passed around is a document, and only a running bridge has a *)
(* job under way.                                                           *)
SettingsShape ==
    /\ IsDocument(file)
    /\ running => IsDocument(memory) /\ \A k \in KeyIds : memory.keys[k] = Unset => Env[k] = Unset
    /\ terminal # Nothing => IsDocument(terminal)
    /\ command # Nothing => IsDocument(command)
    /\ DOMAIN pages = Pages
    /\ \A p \in Pages : pages[p] # Nothing =>
          /\ DOMAIN pages[p] = {"masked", "rows", "inputs", "service"} /\ pages[p].inputs \in KeyTables
          /\ \A k \in KeyIds \ pages[p].masked : Env[k] = Unset
    /\ DOMAIN jobs = Callers
    /\ \A c \in Callers : jobs[c].at \in Stages /\ (jobs[c] # Idle => running)
    /\ account \in Accounts \cup {NoAccount}

(* What a bridge has read of the file: its keys and service keys.           *)
MemoryIsFresh == running /\ ~unread => memory.keys = keysFromEnv(file.keys) /\ memory.service = file.service
MemoryIsTyped == running /\ lost \subseteq Pages => \A k \in KeyIds : memory.keys[k] \in {typed[k], Env[k]}

(* Who is not behind would write what the file says of them already.        *)
TerminalIsFresh ==
    terminal # Nothing /\ "terminal" \notin behind => terminal.keys = file.keys /\ terminal.service = file.service
CommandIsFresh == command # Nothing /\ Command \notin behind => command.keys = file.keys /\ command.service = file.service
PageIsFresh(p) ==
    pages[p] # Nothing /\ p \notin behind =>
      /\ ~unread /\ pages[p].service = file.service
      /\ \A k \in KeyIds \ pages[p].masked : pages[p].inputs[k] = Unset => keysFromEnv(file.keys)[k] = Unset

KeysInv ==
    /\ MemoryIsFresh /\ MemoryIsTyped
    /\ TerminalIsFresh /\ CommandIsFresh /\ \A p \in Pages : PageIsFresh(p)
    /\ KeysOutlive /\ ServiceKeysOutlive

-----------------------------------------------------------------------------
LEMMA FromEnvTyped ==
    ASSUME NEW keys \in KeyTables
    PROVE  /\ keysFromEnv(keys) \in KeyTables
           /\ \A k \in KeyIds : keysFromEnv(keys)[k] = IF keys[k] = Unset THEN Env[k] ELSE keys[k]
           /\ \A k \in KeyIds : keysFromEnv(keys)[k] = Unset => Env[k] = Unset
  BY DocumentsAssumption DEF keysFromEnv, KeyTables

LEMMA ClearedIsDocument ==
    ASSUME NEW doc, NEW old, IsDocument(doc), IsDocument(old)
    PROVE  LET new == Cleared(doc, old)
           IN  /\ IsDocument(new) /\ new.keys = keysFromEnv(doc.keys) /\ new.service = doc.service
               /\ new.local = IF doc.local = "unsaid" THEN old.local ELSE doc.local
               /\ \A f \in FormFields \ {"policy"} : new.form[f] = doc.form[f]
               /\ new.form.policy = IF doc.form.policy = NoPolicy THEN old.form.policy ELSE doc.form.policy
  <1>. DEFINE new == Cleared(doc, old)
  <1>1. /\ new.keys = keysFromEnv(doc.keys) /\ new.service = doc.service
        /\ new.local = IF doc.local = "unsaid" THEN old.local ELSE doc.local
        /\ new.form = [doc.form EXCEPT !.policy = IF @ = NoPolicy THEN old.form.policy ELSE @]
        /\ DOMAIN new = DOMAIN doc
    BY DEF Cleared, IsDocument
  <1>. HIDE DEF new
  <1>2. /\ DOMAIN new.form = DOMAIN doc.form
        /\ \A f \in FormFields \ {"policy"} : new.form[f] = doc.form[f]
        /\ new.form.policy = IF doc.form.policy = NoPolicy THEN old.form.policy ELSE doc.form.policy
    BY <1>1 DEF IsDocument, IsForm, FormFields
  <1>3. IsForm(new.form)
    BY <1>2 DEF IsDocument, IsForm, FormFields
  <1>4. IsDocument(new)
    <2>1. new.keys \in KeyTables
      BY <1>1, FromEnvTyped DEF IsDocument
    <2>. QED  BY <2>1, <1>1, <1>3 DEF IsDocument
  <1>. QED  BY <1>1, <1>2, <1>4 DEF new

LEMMA ApplyKeepsJobs ==
    ASSUME DOMAIN jobs = Callers, NEW c \in Callers, NEW wants, NEW doc, NEW models, ApplyConfig(c, wants, doc, models)
    PROVE  /\ DOMAIN jobs' = Callers /\ jobs'[c].at \in Stages
           /\ \A d \in Callers \ {c} : jobs'[d] = jobs[d]
  BY DEF ApplyConfig, Stages, Idle

LEMMA PutKeepsJobs ==
    ASSUME DOMAIN jobs = Callers, NEW c \in Callers, NEW doc, updateConfig(c, doc)
    PROVE  /\ DOMAIN jobs' = Callers /\ jobs'[c].at \in Stages
           /\ \A d \in Callers \ {c} : jobs'[d] = jobs[d]
  <1>1. CASE doc.form.chat.models # <<>>
    BY <1>1, ApplyKeepsJobs DEF updateConfig
  <1>2. CASE doc.form.chat.models = <<>>
    BY <1>2 DEF updateConfig, Stages
  <1>. QED  BY <1>1, <1>2

LEMMA PageAssembles ==
    ASSUME NEW page, NEW form \in Forms, running, IsDocument(memory), page.inputs \in KeyTables
    PROVE  LET doc == assemble(page, form)
           IN  /\ IsDocument(doc) /\ doc.service = page.service /\ doc.form = form
               /\ \A k \in KeyIds : doc.keys[k] = IF k \notin RowsOf(page, form) THEN Unset
                                                  ELSE IF page.inputs[k] # Unset THEN page.inputs[k]
                                                  ELSE IF k \in page.masked THEN memory.keys[k] ELSE Unset
  <1>1. Unmasked(page, form) \in KeyTables
    BY DEF Unmasked, KeyTables, IsDocument
  <1>. QED  BY <1>1, DocumentsAssumption DEF assemble, IsDocument, Unmasked

-----------------------------------------------------------------------------
LEMMA SettingsInitially == SettingsInit => SettingsShape /\ KeysInv
  <1>. SUFFICES ASSUME SettingsInit PROVE SettingsShape /\ KeysInv
    OBVIOUS
  <1>1. IsDocument(file)
    BY DocumentsAssumption DEF SettingsInit
  <1>2. SettingsShape
    BY <1>1 DEF SettingsInit, SettingsShape, Idle, Stages
  <1>3. KeysOutlive /\ ServiceKeysOutlive
    BY DEF SettingsInit, KeysOutlive, ServiceKeysOutlive
  <1>. QED  BY <1>2, <1>3 DEF SettingsInit, KeysInv, MemoryIsFresh, MemoryIsTyped, TerminalIsFresh, CommandIsFresh, PageIsFresh

(* A document is put by somebody who is not another's caller.               *)
LEMMA PutShape ==
    ASSUME SettingsShape, NEW c \in Callers, NEW doc, IsDocument(doc), updateConfig(c, doc), running' = running
    PROVE  /\ file' = doc /\ running /\ unread' = FALSE
           /\ IsDocument(file') /\ memory' = Cleared(doc, memory) /\ IsDocument(memory')
           /\ \A k \in KeyIds : memory'.keys[k] = Unset => Env[k] = Unset
           /\ memory'.keys = keysFromEnv(doc.keys) /\ memory'.service = doc.service
           /\ DOMAIN jobs' = Callers
           /\ \A d \in Callers : jobs'[d].at \in Stages /\ (jobs'[d] # Idle => running')
  <1>1. file' = doc /\ running /\ unread' = FALSE /\ memory' = Cleared(doc, memory)
    BY DEF updateConfig
  <1>2. IsDocument(memory') /\ memory'.keys = keysFromEnv(doc.keys) /\ memory'.service = doc.service
    BY <1>1, ClearedIsDocument DEF SettingsShape
  <1>3. \A k \in KeyIds : memory'.keys[k] = Unset => Env[k] = Unset
    BY <1>2, FromEnvTyped DEF IsDocument
  <1>. QED  BY <1>1, <1>2, <1>3, PutKeepsJobs DEF SettingsShape

LEMMA PageAppliesShape ==
    ASSUME SettingsShape, NEW p \in Pages, NEW form \in Forms, NEW inputs \in Inputs, PageApplies(p, form, inputs)
    PROVE  LET doc == assemble(Typed(p, inputs), form)
           IN  /\ SettingsShape' /\ running /\ IsDocument(memory) /\ file' = doc /\ IsDocument(doc) /\ unread' = FALSE
               /\ memory'.keys = keysFromEnv(doc.keys) /\ memory'.service = doc.service
               /\ doc.service = pages[p].service
               /\ \A k \in KeyIds : doc.keys[k] = IF k \notin RowsOf(pages[p], form) THEN Unset
                                                  ELSE IF inputs[k] # Unset THEN inputs[k]
                                                  ELSE IF k \in pages[p].masked THEN memory.keys[k] ELSE Unset
  <1>. DEFINE page == Typed(p, inputs)
              doc == assemble(page, form)
  <1>1. /\ page.inputs = inputs /\ page.service = pages[p].service /\ page.masked = pages[p].masked /\ page.rows = pages[p].rows
        /\ DOMAIN page = {"masked", "rows", "inputs", "service"} /\ inputs \in KeyTables
    BY DocumentsAssumption DEF PageApplies, SettingsShape, Typed
  <1>2. RowsOf(page, form) = RowsOf(pages[p], form)
    BY <1>1 DEF RowsOf
  <1>3. running /\ IsDocument(memory) /\ p \in Callers /\ running' = running
    BY DEF PageApplies, updateConfig, SettingsShape, Callers
  <1>. HIDE DEF page
  <1>4. /\ IsDocument(doc) /\ doc.service = pages[p].service
        /\ \A k \in KeyIds : doc.keys[k] = IF k \notin RowsOf(pages[p], form) THEN Unset
                                           ELSE IF inputs[k] # Unset THEN inputs[k]
                                           ELSE IF k \in pages[p].masked THEN memory.keys[k] ELSE Unset
    BY <1>1, <1>2, <1>3, PageAssembles
  <1>. HIDE DEF doc
  <1>5. updateConfig(p, doc)
    BY DEF PageApplies, page, doc
  <1>6. pages' = [pages EXCEPT ![p] = IF jobs'[p] = Idle THEN Nothing ELSE page] /\ UNCHANGED <<account, terminal, command>>
    BY DEF PageApplies, page
  <1>7. /\ DOMAIN pages' = Pages
        /\ \A q \in Pages : pages'[q] # Nothing =>
              /\ DOMAIN pages'[q] = {"masked", "rows", "inputs", "service"} /\ pages'[q].inputs \in KeyTables
              /\ \A k \in KeyIds \ pages'[q].masked : Env[k] = Unset
    <2>1. pages[p] # Nothing
      BY DEF PageApplies
    <2>. QED  BY <1>1, <1>6, <2>1 DEF SettingsShape
  <1>8. SettingsShape'
    BY <1>3, <1>4, <1>5, <1>6, <1>7, PutShape DEF SettingsShape
  <1>9. file' = doc /\ unread' = FALSE /\ memory'.keys = keysFromEnv(doc.keys) /\ memory'.service = doc.service
    BY <1>3, <1>4, <1>5, PutShape
  <1>. QED  BY <1>3, <1>4, <1>8, <1>9 DEF doc, page

(* What a caller's job waits for comes, or not.                             *)
JobStep ==
    \/ \E c \in Callers : (\E ok \in BOOLEAN : ModelsListed(c, ok)) \/ CatalogWarmed(c) \/ CatalogFails(c)
    \/ \E a \in Accounts \cup {NoAccount} : AccountChanges(a)
    \/ \E ok \in BOOLEAN : AccountListed(ok)

LEMMA ReloadsShape ==
    ASSUME SettingsShape, NEW c \in Callers, Reloads(c)
    PROVE  /\ DOMAIN pages' = Pages
           /\ \A p \in Pages : pages'[p] = pages[p] \/ pages'[p] = Nothing
  BY DEF Reloads, SettingsShape

LEMMA JobStepKeeps ==
    ASSUME SettingsShape, JobStep
    PROVE  /\ SettingsShape'
           /\ UNCHANGED <<file, memory, terminal, command, running, typed, issued, behind, lost, unread>>
           /\ \A p \in Pages : pages'[p] = pages[p] \/ pages'[p] = Nothing
  <1>. DEFINE Kept == /\ UNCHANGED <<file, memory, terminal, command, running, typed, issued, behind, lost, unread>>
                      /\ account' \in Accounts \cup {NoAccount}
                      /\ DOMAIN pages' = Pages /\ \A p \in Pages : pages'[p] = pages[p] \/ pages'[p] = Nothing
                      /\ DOMAIN jobs' = Callers
                      /\ \A d \in Callers : jobs'[d].at \in Stages /\ (jobs'[d] # Idle => running)
  <1>1. ASSUME NEW c \in Callers, NEW ok \in BOOLEAN, ModelsListed(c, ok) PROVE Kept
    <2>1. jobs[c] # Idle /\ running
      BY <1>1 DEF ModelsListed, SettingsShape, Idle
    <2>2. ApplyConfig(c, jobs[c].wants, memory, listed')
      BY <1>1 DEF ModelsListed
    <2>3. /\ DOMAIN jobs' = Callers /\ jobs'[c].at \in Stages
          /\ \A d \in Callers \ {c} : jobs'[d] = jobs[d]
      BY <2>2, ApplyKeepsJobs DEF SettingsShape
    <2>4. Reloads(c) /\ UNCHANGED <<file, memory, account, terminal, command, running, typed, issued, behind, lost, unread>>
      BY <1>1 DEF ModelsListed
    <2>. QED  BY <2>1, <2>3, <2>4, ReloadsShape DEF SettingsShape
  <1>2. ASSUME NEW c \in Callers, CatalogWarmed(c) PROVE Kept
    <2>1. Reloads(c) /\ jobs' = [jobs EXCEPT ![c] = Idle]
          /\ UNCHANGED <<file, memory, account, terminal, command, running, typed, issued, behind, lost, unread>>
      BY <1>2 DEF CatalogWarmed, ghostVars
    <2>. QED  BY <2>1, ReloadsShape DEF SettingsShape, Idle, Stages
  <1>3. ASSUME NEW c \in Callers, CatalogFails(c) PROVE Kept
    BY <1>3 DEF CatalogFails, SettingsShape, Idle, Stages
  <1>4. ASSUME NEW a \in Accounts \cup {NoAccount}, AccountChanges(a) PROVE Kept
    BY <1>4 DEF AccountChanges, SettingsShape, Idle, Stages, Callers
  <1>5. ASSUME NEW ok \in BOOLEAN, AccountListed(ok) PROVE Kept
    BY <1>5 DEF AccountListed, SettingsShape, Idle, Stages
  <1>6. Kept
    BY <1>1, <1>2, <1>3, <1>4, <1>5 DEF JobStep
  <1>. HIDE DEF Kept
  <1>7. SettingsShape'
    BY <1>6 DEF SettingsShape, Kept
  <1>. QED  BY <1>6, <1>7 DEF Kept

LEMMA StartShape ==
    ASSUME SettingsShape, NEW pin, BridgeStarts(pin)
    PROVE  /\ SettingsShape' /\ memory'.keys = keysFromEnv(file.keys)
           /\ memory'.service = file.service /\ memory'.local = file.local /\ memory'.form = file.form
  <1>1. memory' = [file EXCEPT !.keys = keysFromEnv(@)]
    BY DEF BridgeStarts, Started
  <1>2. /\ IsDocument(memory') /\ memory'.keys = keysFromEnv(file.keys)
        /\ memory'.service = file.service /\ memory'.local = file.local /\ memory'.form = file.form
    BY <1>1, FromEnvTyped DEF SettingsShape, IsDocument
  <1>3. \A k \in KeyIds : memory'.keys[k] = Unset => Env[k] = Unset
    BY <1>2, FromEnvTyped DEF SettingsShape, IsDocument
  <1>4. running' /\ UNCHANGED <<file, jobs, account, pages, terminal, command>>
    BY DEF BridgeStarts
  <1>5. SettingsShape'
    BY <1>2, <1>3, <1>4 DEF SettingsShape
  <1>. QED  BY <1>2, <1>5

LEMMA SavedShape ==
    ASSUME SettingsShape, NEW edit \in Edits, TerminalSaves(edit)
    PROVE  /\ SettingsShape' /\ file'.keys = terminal.keys /\ file'.service = terminal.service
  <1>1. /\ terminal # Nothing /\ IsDocument(terminal)
        /\ file' = [terminal EXCEPT !.form.policy = edit.policy, !.form.default = edit.default, !.form.model = edit.model]
    BY DEF TerminalSaves, SettingsShape
  <1>2. /\ DOMAIN file' = DOMAIN terminal /\ file'.keys = terminal.keys /\ file'.service = terminal.service
        /\ file'.form = [terminal.form EXCEPT !.policy = edit.policy, !.default = edit.default, !.model = edit.model]
    BY <1>1 DEF IsDocument
  <1>3. IsForm(file'.form)
    BY <1>1, <1>2, DocumentsAssumption DEF IsDocument, IsForm
  <1>4. IsDocument(file')
    BY <1>1, <1>2, <1>3 DEF IsDocument
  <1>5. SettingsShape'
    BY <1>4 DEF SettingsShape, TerminalSaves, bridgeVars
  <1>. QED  BY <1>2, <1>5

LEMMA CommandShape ==
    ASSUME SettingsShape, NEW k \in ServiceIds, NEW word, KeyCommand(k, word)
    PROVE  /\ SettingsShape' /\ file'.keys = file.keys /\ file'.service = [file.service EXCEPT ![k] = word]
  <1>1. /\ DOMAIN file' = DOMAIN file /\ file'.keys = file.keys /\ file'.form = file.form
        /\ file'.service = [file.service EXCEPT ![k] = word]
    BY DEF KeyCommand, SettingsShape, IsDocument
  <1>2. IsDocument(file')
    BY <1>1 DEF SettingsShape, IsDocument
  <1>3. SettingsShape'
    BY <1>2 DEF SettingsShape, KeyCommand, bridgeVars
  <1>. QED  BY <1>1, <1>3

LEMMA CommandPutsShape ==
    ASSUME SettingsShape, CommandPuts
    PROVE  /\ SettingsShape' /\ file' = command /\ unread' = FALSE /\ running
           /\ memory'.keys = keysFromEnv(command.keys) /\ memory'.service = command.service
           /\ memory' = Cleared(command, memory) /\ IsDocument(command)
  <1>1. /\ command # Nothing /\ command' = Nothing /\ IsDocument(command) /\ Command \in Callers
        /\ updateConfig(Command, command) /\ UNCHANGED <<account, pages, terminal, running>>
    BY DEF CommandPuts, SettingsShape, Callers
  <1>2. /\ file' = command /\ unread' = FALSE /\ running
        /\ IsDocument(file') /\ memory' = Cleared(command, memory) /\ IsDocument(memory')
    BY <1>1, PutShape
  <1>a. memory'.keys = keysFromEnv(command.keys) /\ memory'.service = command.service
    BY <1>1, PutShape
  <1>b. \A k \in KeyIds : memory'.keys[k] = Unset => Env[k] = Unset
    BY <1>1, PutShape
  <1>c. DOMAIN jobs' = Callers
    BY <1>1, PutShape
  <1>d. \A d \in Callers : jobs'[d].at \in Stages /\ (jobs'[d] # Idle => running')
    BY <1>1, PutShape
  <1>3. SettingsShape'
    BY <1>1, <1>2, <1>b, <1>c, <1>d DEF SettingsShape
  <1>. QED  BY <1>1, <1>2, <1>a, <1>3

LEMMA LoadShape ==
    ASSUME SettingsShape, NEW p \in Pages, PageLoads(p)
    PROVE  /\ SettingsShape' /\ running
           /\ pages'[p].service = memory.service
           /\ \A k \in KeyIds : pages'[p].inputs[k] = Unset /\ (k \notin pages'[p].masked => memory.keys[k] = Unset)
           /\ \A q \in Pages \ {p} : pages'[q] = pages[q]
  <1>1. /\ running
        /\ pages' = [pages EXCEPT ![p] = [masked  |-> {k \in KeyIds : memory.keys[k] # Unset},
                                          rows    |-> Registry(live.server),
                                          inputs  |-> [k \in KeyIds |-> Unset],
                                          service |-> memory.service]]
    BY DEF PageLoads
  <1>2. [k \in KeyIds |-> Unset] \in KeyTables
    BY DEF KeyTables
  <1>3. UNCHANGED <<file, memory, jobs, account, terminal, command, running>>
    BY DEF PageLoads, bridgeVars
  <1>4. SettingsShape'
    BY <1>1, <1>2, <1>3 DEF SettingsShape
  <1>. QED  BY <1>1, <1>4 DEF SettingsShape

-----------------------------------------------------------------------------
(* The keys.                                                                *)

LEMMA PageAppliesKeys ==
    ASSUME SettingsShape, KeysInv, NEW p \in Pages, NEW form \in Forms, NEW inputs \in Inputs, PageApplies(p, form, inputs)
    PROVE  KeysInv'
  <1>. DEFINE doc == assemble(Typed(p, inputs), form)
              rows == RowsOf(pages[p], form)
  <1>1. /\ SettingsShape' /\ running /\ IsDocument(memory) /\ file' = doc /\ IsDocument(doc) /\ unread' = FALSE
        /\ memory'.keys = keysFromEnv(doc.keys) /\ memory'.service = doc.service
        /\ doc.service = pages[p].service
        /\ \A k \in KeyIds : doc.keys[k] = IF k \notin rows THEN Unset
                                           ELSE IF inputs[k] # Unset THEN inputs[k]
                                           ELSE IF k \in pages[p].masked THEN memory.keys[k] ELSE Unset
    BY PageAppliesShape
  <1>. HIDE DEF doc, rows
  <1>2. /\ pages[p] # Nothing
        /\ \A k \in KeyIds : pages[p].inputs[k] # Unset => inputs[k] = pages[p].inputs[k]
        /\ \A k \in KeyIds : inputs[k] # Unset => k \in rows
        /\ pages' = [pages EXCEPT ![p] = IF jobs'[p] = Idle THEN Nothing ELSE Typed(p, inputs)]
        /\ typed' = [k \in KeyIds |-> IF inputs[k] # Unset THEN inputs[k] ELSE IF k \in rows THEN typed[k] ELSE Env[k]]
        /\ lost' = (IF p \in behind THEN lost \cup {p} ELSE lost) /\ behind' = (behind \cup Holders) \ {p}
        /\ UNCHANGED <<account, terminal, command, running, issued>>
    BY DEF PageApplies, Writes, rows
  <1>3. /\ Typed(p, inputs).inputs = inputs /\ Typed(p, inputs).service = pages[p].service
        /\ Typed(p, inputs).masked = pages[p].masked
    BY <1>2 DEF Typed, SettingsShape
  <1>4. \A k \in KeyIds : keysFromEnv(doc.keys)[k] = IF doc.keys[k] = Unset THEN Env[k] ELSE doc.keys[k]
    BY <1>1, FromEnvTyped DEF IsDocument
  <1>5. \A k \in KeyIds \ pages[p].masked : Env[k] = Unset
    BY <1>2 DEF SettingsShape
  <1>6. DOMAIN typed' = KeyIds /\ DOMAIN keysFromEnv(doc.keys) = KeyIds
    BY <1>2 DEF keysFromEnv
  \* A page that is not behind sends what the file says, and what was typed.
  <1>7. ASSUME p \notin behind, lost = {} PROVE keysFromEnv(doc.keys) = typed' /\ doc.service = issued
    <2>1. ~unread /\ pages[p].service = file.service /\ memory.keys = keysFromEnv(file.keys) /\ keysFromEnv(file.keys) = typed
          /\ file.service = issued
      BY <1>1, <1>2, <1>7 DEF KeysInv, PageIsFresh, MemoryIsFresh, KeysOutlive, ServiceKeysOutlive
    <2>2. ASSUME NEW k \in KeyIds PROVE keysFromEnv(doc.keys)[k] = typed'[k]
      <3>1. pages[p].inputs[k] = Unset /\ k \notin pages[p].masked => typed[k] = Unset
        BY <1>2, <1>7, <2>1 DEF KeysInv, PageIsFresh
      <3>2. typed[k] = Unset => Env[k] = Unset
        BY <2>1 DEF SettingsShape, IsDocument, keysFromEnv
      <3>. QED  BY <1>1, <1>2, <1>4, <1>5, <2>1, <3>1, <3>2
    <2>3. typed' = keysFromEnv(doc.keys)
      BY <1>2, <1>6, <2>2 DEF keysFromEnv
    <2>. QED  BY <2>1, <2>3, <1>1
  \* One that is behind sends what was typed, or nothing.
  <1>8. lost' \subseteq Pages => \A k \in KeyIds : keysFromEnv(doc.keys)[k] \in {typed'[k], Env[k]}
    <2>1. lost' \subseteq Pages => \A k \in KeyIds : memory.keys[k] \in {typed[k], Env[k]}
      BY <1>1, <1>2 DEF KeysInv, MemoryIsTyped
    <2>. QED  BY <1>1, <1>2, <1>4, <2>1
  <1>9. (KeysOutlive /\ ServiceKeysOutlive)'
    BY <1>1, <1>2, <1>7, <1>8 DEF KeysOutlive, ServiceKeysOutlive, keysFromEnv
  <1>10. (MemoryIsFresh /\ MemoryIsTyped)'
    BY <1>1, <1>8 DEF MemoryIsFresh, MemoryIsTyped, keysFromEnv
  <1>11. (TerminalIsFresh /\ CommandIsFresh)'
    BY <1>2, SettingsAssumption DEF TerminalIsFresh, CommandIsFresh, Holders
  <1>12. ASSUME NEW q \in Pages PROVE PageIsFresh(q)'
    <2>1. CASE q = p
      <3>1. pages'[q] # Nothing => pages'[q] = Typed(p, inputs)
        BY <1>2, <2>1 DEF SettingsShape
      <3>2. \A k \in KeyIds \ pages[p].masked : inputs[k] = Unset => keysFromEnv(doc.keys)[k] = Unset
        BY <1>1, <1>4, <1>5
      <3>3. pages'[q] # Nothing =>
              /\ pages'[q].service = doc.service
              /\ \A k \in KeyIds \ pages'[q].masked : pages'[q].inputs[k] = Unset => keysFromEnv(doc.keys)[k] = Unset
        BY <1>1, <1>3, <3>1, <3>2
      <3>. QED  BY <1>1, <3>3 DEF PageIsFresh, keysFromEnv
    <2>2. CASE q # p
      BY <1>2, <2>2 DEF PageIsFresh, Holders, SettingsShape
    <2>. QED  BY <2>1, <2>2
  <1>. QED  BY <1>9, <1>10, <1>11, <1>12 DEF KeysInv

LEMMA CommandPutsKeys ==
    ASSUME SettingsShape, KeysInv, CommandPuts
    PROVE  KeysInv'
  <1>1. /\ SettingsShape' /\ file' = command /\ unread' = FALSE /\ running
        /\ memory'.keys = keysFromEnv(command.keys) /\ memory'.service = command.service /\ IsDocument(command)
    BY CommandPutsShape
  <1>2. /\ command # Nothing /\ command' = Nothing
        /\ lost' = (IF Command \in behind THEN lost \cup {Command} ELSE lost) /\ behind' = (behind \cup Holders) \ {Command}
        /\ UNCHANGED <<pages, terminal, running, typed, issued>>
    BY DEF CommandPuts, Writes
  <1>3. lost' \subseteq Pages => Command \notin behind /\ lost' = lost /\ command.keys = file.keys /\ command.service = file.service
    BY <1>2, SettingsAssumption DEF KeysInv, CommandIsFresh
  <1>4. (KeysOutlive /\ ServiceKeysOutlive)'
    BY <1>1, <1>2, <1>3 DEF KeysInv, KeysOutlive, ServiceKeysOutlive, keysFromEnv
  <1>5. (MemoryIsFresh /\ MemoryIsTyped)'
    BY <1>1, <1>2, <1>3 DEF KeysInv, KeysOutlive, MemoryIsFresh, MemoryIsTyped, keysFromEnv
  <1>6. (TerminalIsFresh /\ CommandIsFresh)' /\ \A q \in Pages : PageIsFresh(q)'
    BY <1>2, SettingsAssumption DEF TerminalIsFresh, CommandIsFresh, PageIsFresh, Holders
  <1>. QED  BY <1>4, <1>5, <1>6 DEF KeysInv

LEMMA FileKeys ==
    ASSUME SettingsShape, KeysInv,
           (\E edit \in Edits : TerminalSaves(edit)) \/ (\E k \in ServiceIds, word \in {"active", "rotated", "revoked"} : KeyCommand(k, word))
    PROVE  KeysInv'
  <1>1. ASSUME NEW edit \in Edits, TerminalSaves(edit) PROVE KeysInv'
    <2>1. file'.keys = terminal.keys /\ file'.service = terminal.service
      BY <1>1, SavedShape
    <2>2. /\ terminal # Nothing /\ unread' = TRUE
          /\ lost' = (IF "terminal" \in behind THEN lost \cup {"terminal"} ELSE lost)
          /\ behind' = (behind \cup Holders) \ {"terminal"}
          /\ UNCHANGED <<memory, pages, terminal, command, running, typed, issued>>
      BY <1>1 DEF TerminalSaves, Writes, bridgeVars
    <2>3. lost' \subseteq Pages => lost' = lost /\ terminal.keys = file.keys /\ terminal.service = file.service
      BY <2>2, SettingsAssumption DEF KeysInv, TerminalIsFresh
    <2>4. (KeysOutlive /\ ServiceKeysOutlive)'
      BY <2>1, <2>2, <2>3 DEF KeysInv, KeysOutlive, ServiceKeysOutlive, keysFromEnv
    <2>5. (MemoryIsFresh /\ MemoryIsTyped)'
      BY <2>2, <2>3 DEF KeysInv, MemoryIsFresh, MemoryIsTyped
    <2>6. (TerminalIsFresh /\ CommandIsFresh)' /\ \A q \in Pages : PageIsFresh(q)'
      BY <2>1, <2>2, SettingsAssumption DEF TerminalIsFresh, CommandIsFresh, PageIsFresh, Holders
    <2>. QED  BY <2>4, <2>5, <2>6 DEF KeysInv
  <1>2. ASSUME NEW k \in ServiceIds, NEW word, KeyCommand(k, word) PROVE KeysInv'
    <2>1. file'.keys = file.keys /\ file'.service = [file.service EXCEPT ![k] = word]
      BY <1>2, CommandShape
    <2>2. /\ command' = file' /\ unread' = TRUE /\ issued' = [issued EXCEPT ![k] = word]
          /\ lost' = (IF Command \in behind THEN lost \cup {Command} ELSE lost) /\ behind' = (behind \cup Holders) \ {Command}
          /\ UNCHANGED <<memory, pages, terminal, running, typed>>
      BY <1>2 DEF KeyCommand, Writes, bridgeVars
    <2>3. lost' \subseteq Pages => lost' = lost
      BY <2>2, SettingsAssumption
    <2>4. (KeysOutlive /\ ServiceKeysOutlive)'
      BY <2>1, <2>2, <2>3 DEF KeysInv, KeysOutlive, ServiceKeysOutlive, keysFromEnv
    <2>5. (MemoryIsFresh /\ MemoryIsTyped)'
      BY <2>2, <2>3 DEF KeysInv, MemoryIsFresh, MemoryIsTyped
    <2>6. (TerminalIsFresh /\ CommandIsFresh)' /\ \A q \in Pages : PageIsFresh(q)'
      BY <2>1, <2>2, SettingsAssumption DEF TerminalIsFresh, CommandIsFresh, PageIsFresh, Holders
    <2>. QED  BY <2>4, <2>5, <2>6 DEF KeysInv
  <1>. QED  BY <1>1, <1>2

LEMMA OtherKeys ==
    ASSUME SettingsShape, KeysInv,
           \/ \E p \in Pages : PageLoads(p)
           \/ JobStep \/ BridgeStops \/ (\E pin \in Pins \cup {NoPin} : BridgeStarts(pin))
           \/ TerminalOpens \/ CommandGivesUp \/ UNCHANGED settingsVars
    PROVE  SettingsShape' /\ KeysInv'
  <1>1. ASSUME NEW p \in Pages, PageLoads(p) PROVE SettingsShape' /\ KeysInv'
    <2>1. /\ SettingsShape' /\ running /\ pages'[p].service = memory.service
          /\ \A k \in KeyIds : pages'[p].inputs[k] = Unset /\ (k \notin pages'[p].masked => memory.keys[k] = Unset)
          /\ \A q \in Pages \ {p} : pages'[q] = pages[q]
      BY <1>1, LoadShape
    <2>2. /\ behind' = (IF unread THEN behind \cup {p} ELSE behind \ {p})
          /\ UNCHANGED <<file, memory, terminal, command, running, typed, issued, lost, unread>>
      BY <1>1 DEF PageLoads, bridgeVars
    <2>3. (MemoryIsFresh /\ MemoryIsTyped /\ KeysOutlive /\ ServiceKeysOutlive)'
      BY <2>2 DEF KeysInv, MemoryIsFresh, MemoryIsTyped, KeysOutlive, ServiceKeysOutlive, keysFromEnv
    <2>4. (TerminalIsFresh /\ CommandIsFresh)'
      BY <2>2, SettingsAssumption DEF KeysInv, TerminalIsFresh, CommandIsFresh
    <2>5. ASSUME NEW q \in Pages PROVE PageIsFresh(q)'
      <3>1. CASE q = p
        BY <2>1, <2>2, <3>1 DEF KeysInv, MemoryIsFresh, PageIsFresh, keysFromEnv
      <3>2. CASE q # p
        BY <2>1, <2>2, <3>2 DEF KeysInv, PageIsFresh, keysFromEnv
      <3>. QED  BY <3>1, <3>2
    <2>. QED  BY <2>1, <2>3, <2>4, <2>5 DEF KeysInv
  <1>2. CASE JobStep
    <2>1. /\ SettingsShape'
          /\ UNCHANGED <<file, memory, terminal, command, running, typed, issued, behind, lost, unread>>
          /\ \A p \in Pages : pages'[p] = pages[p] \/ pages'[p] = Nothing
      BY <1>2, JobStepKeeps
    <2>2. (MemoryIsFresh /\ MemoryIsTyped /\ KeysOutlive /\ ServiceKeysOutlive /\ TerminalIsFresh /\ CommandIsFresh)'
      BY <2>1 DEF KeysInv, MemoryIsFresh, MemoryIsTyped, KeysOutlive, ServiceKeysOutlive, TerminalIsFresh, CommandIsFresh, keysFromEnv
    <2>3. ASSUME NEW q \in Pages PROVE PageIsFresh(q)'
      BY <2>1 DEF KeysInv, PageIsFresh, keysFromEnv
    <2>. QED  BY <2>1, <2>2, <2>3 DEF KeysInv
  <1>3. CASE BridgeStops
    <2>1. SettingsShape'
      BY <1>3 DEF BridgeStops, SettingsShape, Idle, Stages
    <2>2. UNCHANGED <<file, pages, terminal, command, typed, issued, behind, lost, unread>> /\ ~running'
      BY <1>3 DEF BridgeStops, ghostVars
    <2>. QED  BY <2>1, <2>2 DEF KeysInv, MemoryIsFresh, MemoryIsTyped, KeysOutlive, ServiceKeysOutlive, TerminalIsFresh,
                                CommandIsFresh, PageIsFresh, keysFromEnv
  <1>4. ASSUME NEW pin, BridgeStarts(pin) PROVE SettingsShape' /\ KeysInv'
    <2>1. SettingsShape' /\ memory'.keys = keysFromEnv(file.keys) /\ memory'.service = file.service
      BY <1>4, StartShape
    <2>2. UNCHANGED <<file, pages, terminal, command, typed, issued, behind, lost>> /\ running' /\ unread' = FALSE
      BY <1>4 DEF BridgeStarts
    <2>. QED  BY <2>1, <2>2 DEF KeysInv, MemoryIsFresh, MemoryIsTyped, KeysOutlive, ServiceKeysOutlive, TerminalIsFresh,
                                CommandIsFresh, PageIsFresh, keysFromEnv
  <1>5. CASE TerminalOpens
    <2>1. UNCHANGED <<file, memory, jobs, account, pages, command, running, typed, issued, behind, lost, unread>> /\ terminal' = file
      BY <1>5 DEF TerminalOpens, bridgeVars, ghostVars
    <2>2. SettingsShape'
      BY <2>1 DEF SettingsShape
    <2>. QED  BY <2>1, <2>2 DEF KeysInv, MemoryIsFresh, MemoryIsTyped, KeysOutlive, ServiceKeysOutlive, TerminalIsFresh,
                                CommandIsFresh, PageIsFresh, keysFromEnv
  <1>6. CASE CommandGivesUp
    <2>1. /\ UNCHANGED <<file, memory, jobs, account, pages, terminal, running, typed, issued, lost, unread>>
          /\ command' = Nothing /\ behind' = behind \ {Command}
      BY <1>6 DEF CommandGivesUp, bridgeVars
    <2>2. SettingsShape'
      BY <2>1 DEF SettingsShape
    <2>3. (TerminalIsFresh /\ CommandIsFresh)' /\ \A p \in Pages : PageIsFresh(p)'
      BY <2>1, SettingsAssumption DEF KeysInv, TerminalIsFresh, CommandIsFresh, PageIsFresh, keysFromEnv
    <2>. QED  BY <2>1, <2>2, <2>3 DEF KeysInv, MemoryIsFresh, MemoryIsTyped, KeysOutlive, ServiceKeysOutlive, keysFromEnv
  <1>7. CASE UNCHANGED settingsVars
    <2>1. UNCHANGED <<file, memory, jobs, account, pages, terminal, command, running, typed, issued, behind, lost, unread>>
      BY <1>7 DEF settingsVars, bridgeVars, ghostVars
    <2>2. SettingsShape'
      BY <2>1 DEF SettingsShape
    <2>. QED  BY <2>1, <2>2 DEF KeysInv, MemoryIsFresh, MemoryIsTyped, KeysOutlive, ServiceKeysOutlive, TerminalIsFresh,
                                CommandIsFresh, PageIsFresh, keysFromEnv
  <1>. QED  BY <1>1, <1>2, <1>3, <1>4, <1>5, <1>6, <1>7

LEMMA SettingsKeysStep == SettingsShape /\ KeysInv /\ [SettingsNext]_settingsVars => SettingsShape' /\ KeysInv'
  <1>. SUFFICES ASSUME SettingsShape, KeysInv, [SettingsNext]_settingsVars PROVE SettingsShape' /\ KeysInv'
    OBVIOUS
  <1>1. ASSUME NEW p \in Pages, NEW form \in Forms, NEW i \in Inputs, PageApplies(p, form, i) PROVE SettingsShape' /\ KeysInv'
    BY <1>1, PageAppliesShape, PageAppliesKeys
  <1>2. CASE \E edit \in Edits : TerminalSaves(edit)
    BY <1>2, SavedShape, FileKeys
  <1>3. CASE \E k \in ServiceIds, word \in {"active", "rotated", "revoked"} : KeyCommand(k, word)
    BY <1>3, CommandShape, FileKeys
  <1>4. CASE CommandPuts
    BY <1>4, CommandPutsShape, CommandPutsKeys
  <1>5. CASE \/ \E p \in Pages : PageLoads(p)
             \/ JobStep \/ BridgeStops \/ (\E pin \in Pins \cup {NoPin} : BridgeStarts(pin))
             \/ TerminalOpens \/ CommandGivesUp \/ UNCHANGED settingsVars
    BY <1>5, OtherKeys
  <1>. QED  BY <1>1, <1>2, <1>3, <1>4, <1>5 DEF SettingsNext, JobStep

-----------------------------------------------------------------------------
(* Plans                                                                    *)

IsPlan(plan) == DOMAIN plan = {"policy", "default", "model"} /\ IsPolicy(plan.policy)
(* Two plans that lead to the same default, and the first has a policy.     *)
SameLead(P, Q) == P.default = Q.default /\ P.model = Q.model
SameButPolicy(f, g) == \A x \in FormFields \ {"policy"} : f[x] = g[x]

LEMMA LeadingIsPlan ==
    ASSUME NEW P, IsPlan(P), NEW entries, NEW p, NEW model
    PROVE  LET L == Leading(P, entries, p, model)
           IN  IsPlan(L) /\ L.default = p /\ L.model = model /\ L.policy # NoPolicy
  <1>1. {"trusted", "fallback"} \subseteq DOMAIN Without(P.policy)
    BY DEF IsPlan, IsPolicy, Without
  <1>2. {"trusted", "fallback"} \subseteq DOMAIN [Without(P.policy) EXCEPT !.trusted = entries \o @]
    BY <1>1
  <1>3. "fallback" \notin DOMAIN NoPolicy
    BY DEF NoPolicy
  <1>. QED  BY <1>2, <1>3 DEF Leading, IsPlan, IsPolicy

LEMMA TrailingIsPlan ==
    ASSUME NEW P, IsPlan(P), NEW entries
    PROVE  LET T == Trailing(P, entries)
           IN  IsPlan(T) /\ T.default = P.default /\ T.model = P.model /\ T.policy # NoPolicy
  <1>1. {"trusted", "fallback"} \subseteq DOMAIN Without(P.policy)
    BY DEF IsPlan, IsPolicy, Without
  <1>2. {"trusted", "fallback"} \subseteq DOMAIN [Without(P.policy) EXCEPT !.fallback = @ \o entries]
    BY <1>1
  <1>3. "fallback" \notin DOMAIN NoPolicy
    BY DEF NoPolicy
  <1>. QED  BY <1>2, <1>3 DEF Trailing, IsPlan, IsPolicy

LEMMA ByokLayer ==
    ASSUME NEW P, IsPlan(P), NEW Q, IsPlan(Q), SameLead(P, Q), NEW byok
    PROVE  LET A == applyOpenCodeByokPlan(byok, P)
               B == applyOpenCodeByokPlan(byok, Q)
           IN  IsPlan(A) /\ IsPlan(B) /\ SameLead(A, B) /\ (P.policy # NoPolicy => A.policy # NoPolicy)
  <1>1. \/ applyOpenCodeByokPlan(byok, P) = P /\ applyOpenCodeByokPlan(byok, Q) = Q
        \/ \E entries, p, model : /\ applyOpenCodeByokPlan(byok, P) = Leading(P, entries, p, model)
                                  /\ applyOpenCodeByokPlan(byok, Q) = Leading(Q, entries, p, model)
    BY Zenon DEF applyOpenCodeByokPlan
  <1>. QED  BY <1>1, LeadingIsPlan DEF SameLead

LEMMA CustomLayer ==
    ASSUME NEW P, IsPlan(P), NEW Q, IsPlan(Q), SameLead(P, Q), NEW custom
    PROVE  LET A == applyCustomLanesPlan(custom, P)
               B == applyCustomLanesPlan(custom, Q)
           IN  IsPlan(A) /\ IsPlan(B) /\ SameLead(A, B) /\ (P.policy # NoPolicy => A.policy # NoPolicy)
  <1>1. \/ applyCustomLanesPlan(custom, P) = P /\ applyCustomLanesPlan(custom, Q) = Q
        \/ \E entries, p, model : /\ applyCustomLanesPlan(custom, P) = Leading(P, entries, p, model)
                                  /\ applyCustomLanesPlan(custom, Q) = Leading(Q, entries, p, model)
        \/ \E entries : /\ applyCustomLanesPlan(custom, P) = Trailing(P, entries)
                        /\ applyCustomLanesPlan(custom, Q) = Trailing(Q, entries)
    BY Zenon DEF applyCustomLanesPlan
  <1>. QED  BY <1>1, LeadingIsPlan, TrailingIsPlan DEF SameLead

LEMMA ChatLayer ==
    ASSUME NEW P, IsPlan(P), NEW Q, IsPlan(Q), SameLead(P, Q), NEW chat, NEW listedP, NEW listedQ,
           resolveChatGptPlan(chat, listedP) = resolveChatGptPlan(chat, listedQ)
    PROVE  LET A == applyChatGptPlanPlan(chat, listedP, P)
               B == applyChatGptPlanPlan(chat, listedQ, Q)
           IN  IsPlan(A) /\ IsPlan(B) /\ SameLead(A, B) /\ (P.policy # NoPolicy => A.policy # NoPolicy)
  <1>1. \/ applyChatGptPlanPlan(chat, listedP, P) = P /\ applyChatGptPlanPlan(chat, listedQ, Q) = Q
        \/ \E entries, p, model : /\ applyChatGptPlanPlan(chat, listedP, P) = Leading(P, entries, p, model)
                                  /\ applyChatGptPlanPlan(chat, listedQ, Q) = Leading(Q, entries, p, model)
        \/ \E entries : /\ applyChatGptPlanPlan(chat, listedP, P) = Trailing(P, entries)
                        /\ applyChatGptPlanPlan(chat, listedQ, Q) = Trailing(Q, entries)
    BY Zenon DEF applyChatGptPlanPlan
  <1>. QED  BY <1>1, LeadingIsPlan, TrailingIsPlan DEF SameLead

(* What a form plans depends on its policy in nothing but the policy.       *)
LEMMA PlansLead ==
    ASSUME NEW f, NEW g, IsForm(f), IsForm(g), SameButPolicy(f, g), NEW l, NEW m,
           resolveChatGptPlan(f.chat, l) = resolveChatGptPlan(f.chat, m)
    PROVE  /\ IsPlan(composePlan(f, l)) /\ IsPlan(composePlan(g, m)) /\ SameLead(composePlan(f, l), composePlan(g, m))
           /\ f.policy # NoPolicy => composePlan(f, l).policy # NoPolicy
           /\ f.policy = g.policy => composePlan(f, l) = composePlan(g, m)
  <1>. DEFINE P1 == [policy |-> f.policy, default |-> f.default, model |-> f.model]
              Q1 == [policy |-> g.policy, default |-> g.default, model |-> g.model]
              P2 == applyOpenCodeByokPlan(f.byok, P1)
              Q2 == applyOpenCodeByokPlan(g.byok, Q1)
              P3 == applyCustomLanesPlan(f.custom, P2)
              Q3 == applyCustomLanesPlan(g.custom, Q2)
              P4 == applyChatGptPlanPlan(f.chat, l, P3)
              Q4 == applyChatGptPlanPlan(g.chat, m, Q3)
  <1>1. /\ f.default = g.default /\ f.model = g.model /\ f.byok = g.byok /\ f.custom = g.custom /\ f.chat = g.chat
        /\ f.cloud = g.cloud
    BY DEF SameButPolicy, FormFields
  <1>2. IsPlan(P1) /\ IsPlan(Q1) /\ SameLead(P1, Q1) /\ P1.policy = f.policy
    BY <1>1 DEF IsForm, IsPlan, SameLead
  <1>3. f.policy = g.policy => P1 = Q1
    BY <1>1
  <1>. HIDE DEF P1, Q1
  <1>4. IsPlan(P2) /\ IsPlan(Q2) /\ SameLead(P2, Q2) /\ (P1.policy # NoPolicy => P2.policy # NoPolicy) /\ (P1 = Q1 => P2 = Q2)
    BY <1>1, <1>2, ByokLayer
  <1>. HIDE DEF P2, Q2
  <1>5. IsPlan(P3) /\ IsPlan(Q3) /\ SameLead(P3, Q3) /\ (P2.policy # NoPolicy => P3.policy # NoPolicy) /\ (P2 = Q2 => P3 = Q3)
    BY <1>1, <1>4, CustomLayer
  <1>. HIDE DEF P3, Q3
  <1>6. IsPlan(P4) /\ IsPlan(Q4) /\ SameLead(P4, Q4) /\ (P3.policy # NoPolicy => P4.policy # NoPolicy)
    BY <1>1, <1>5, ChatLayer
  <1>7. P3 = Q3 => P4 = Q4
    BY <1>1 DEF applyChatGptPlanPlan
  <1>8. composePlan(f, l) = P4 /\ composePlan(g, m) = Q4
    BY DEF composePlan, P1, P2, P3, P4, Q1, Q2, Q3, Q4
  <1>. QED  BY <1>2, <1>3, <1>4, <1>5, <1>6, <1>7, <1>8

LEMMA ProvidersAlike ==
    ASSUME NEW c, NEW d, SameButPolicy(c.form, d.form), NEW l, NEW m, NEW catalog,
           resolveChatGptPlan(c.form.chat, l) = resolveChatGptPlan(c.form.chat, m)
    PROVE  Providers(c, l, catalog) = Providers(d, m, catalog)
  <1>1. /\ c.form.byok = d.form.byok /\ c.form.custom = d.form.custom /\ c.form.chat = d.form.chat
        /\ c.form.cloud = d.form.cloud
    BY DEF SameButPolicy, FormFields
  <1>. QED  BY <1>1 DEF Providers, bridgeProviders, LanesOf

(* A partial configuration carries what a plan says, and nothing else.      *)
LEMMA RoutesSay ==
    ASSUME NEW doc, NEW plan, NEW pin
    PROVE  LET R == RouteDefaults(doc, plan, pin)
               model == IF pin = NoPin /\ plan.model # NoModel THEN plan.model ELSE doc.form.model
               first == IF pin # NoPin THEN pin ELSE plan.default
           IN  /\ DOMAIN R \subseteq {"policy", "default", "model"}
               /\ "policy" \in DOMAIN R <=> plan.policy # NoPolicy
               /\ "model" \in DOMAIN R <=> model # NoModel
               /\ "default" \in DOMAIN R <=> first # NoPin
               /\ "policy" \in DOMAIN R => R.policy = plan.policy
               /\ "model" \in DOMAIN R => R.model = model
               /\ "default" \in DOMAIN R => R.default = first
  BY DEF RouteDefaults

(* The server takes a partial configuration of providers, of what a plan    *)
(* says, and perhaps of a catalog.                                          *)
LEMMA ServerReplans ==
    ASSUME NEW s, ConfigFields \subseteq DOMAIN s, ~s.auto, s.source = Registry(s),
           NEW q, DOMAIN q \subseteq {"policy", "default", "model", "providers", "catalog"}, "providers" \in DOMAIN q,
           "catalog" \in DOMAIN q => q.catalog # NoCatalog,
           NEW t, t = Reconfigured(s, q, 1).to
    PROVE  /\ ConfigFields \subseteq DOMAIN t /\ ~t.auto /\ t.source = Registry(t)
           /\ t.pin = s.pin
           /\ t.catalog = IF "catalog" \in DOMAIN q THEN q.catalog ELSE s.catalog
           /\ \A f \in DOMAIN q : t[f] = q[f]
  <1>. DEFINE catalog == IF "catalog" \in DOMAIN q THEN q.catalog ELSE s.catalog
              served  == [s EXCEPT !.providers = Given(q, "providers", @), !.catalog = Given(q, "catalog", @),
                             !.source = IF "catalog" \in DOMAIN q THEN q.catalog
                                        ELSE IF "providers" \in DOMAIN q /\ s.catalog = NoCatalog THEN ToSet(q.providers)
                                        ELSE @]
              planned == [served EXCEPT !.policy = Given(q, "policy", @), !.intents = Given(q, "intents", @),
                                  !.auto = @ /\ "policy" \notin DOMAIN q]
              renewed == Says(q, "cooldown") \/ "policy" \in DOMAIN q \/ Given(q, "intents", NoIntents) # NoIntents
              done == [planned EXCEPT !.auto = Given(q, "auto", @), !.engine = IF renewed THEN 1 ELSE @,
                                     !.default = Given(q, "default", @), !.model = Given(q, "model", @),
                                     !.pin = Given(q, "pin", @)]
  <1>1. "auto" \notin DOMAIN q /\ "pin" \notin DOMAIN q /\ "intents" \notin DOMAIN q
    OBVIOUS
  <1>2. t = done
    <2>1. ~("policy" \in DOMAIN q /\ s.auto) /\ ~(Says(q, "auto") /\ planned.policy # NoPolicy)
      BY <1>1, Zenon DEF Says
    <2>. QED  BY <2>1 DEF Reconfigured, done, planned, served, renewed
  <1>3. /\ ConfigFields \subseteq DOMAIN served /\ ~served.auto /\ served.providers = q.providers
        /\ served.catalog = catalog /\ served.pin = s.pin /\ served.policy = s.policy /\ served.source = Registry(served)
        /\ served.default = s.default /\ served.model = s.model
    BY <1>1 DEF ConfigFields, Given, Registry
  <1>. HIDE DEF served, renewed, catalog
  <1>4. /\ ConfigFields \subseteq DOMAIN planned /\ ~planned.auto /\ planned.providers = q.providers
        /\ planned.catalog = catalog /\ planned.pin = s.pin /\ planned.policy = Given(q, "policy", s.policy)
        /\ planned.source = served.source
    BY <1>3 DEF ConfigFields
  <1>. HIDE DEF planned
  <1>5. /\ ConfigFields \subseteq DOMAIN done /\ ~done.auto /\ done.providers = q.providers
        /\ done.catalog = catalog /\ done.pin = s.pin /\ done.source = planned.source /\ done.policy = planned.policy
        /\ done.default = Given(q, "default", planned.default) /\ done.model = Given(q, "model", planned.model)
    BY <1>1, <1>4 DEF ConfigFields, Given
  <1>6. ASSUME NEW f \in DOMAIN q PROVE done[f] = q[f]
    <2>1. CASE f = "providers"
      BY <1>5, <2>1
    <2>2. CASE f = "catalog"
      BY <1>5, <2>2 DEF catalog
    <2>3. CASE f = "policy"
      BY <1>4, <1>5, <2>3 DEF Given
    <2>4. CASE f = "default"
      BY <1>5, <2>4 DEF Given
    <2>5. CASE f = "model"
      BY <1>5, <2>5 DEF Given
    <2>. QED  BY <2>1, <2>2, <2>3, <2>4, <2>5
  <1>7. done.source = Registry(done)
    BY <1>3, <1>4, <1>5 DEF Registry
  <1>. HIDE DEF done
  <1>. QED  BY <1>2, <1>5, <1>6, <1>7 DEF catalog

-----------------------------------------------------------------------------
(* What the bridge serves.                                                  *)

(* What it has read of the file's other fields.                             *)
FormIsFresh ==
    running /\ ~unread =>
      /\ SameButPolicy(memory.form, file.form)
      /\ file.form.policy # NoPolicy => memory.form.policy = file.form.policy
      /\ file.local # "unsaid" => memory.local = file.local

ServerShape ==
    running =>
      /\ DOMAIN live = {"server", "keys", "service", "local"} /\ ConfigFields \subseteq DOMAIN live.server
      /\ ~live.server.auto /\ live.server.source = Registry(live.server)
      /\ source # NoCatalog => source \in Catalogs /\ live.server.catalog = ToSet(CatalogProviders(source))

PlanFields == {"policy", "default", "model"}
JobsShape ==
    \A c \in Callers :
      /\ jobs[c].at = "listing" /\ c # Account => jobs[c].wants \in Catalogs
      /\ jobs[c].at = "warming" => /\ c # Account /\ jobs[c].wants \in Catalogs \ {NoCatalog}
                                   /\ DOMAIN jobs[c].partial \subseteq PlanFields

OneJob == ~apart => \A c, d \in Callers : jobs[c] # Idle /\ jobs[d] # Idle => c = d

(* The bridge serves the document it has in memory: its keys and its local  *)
(* lane, a catalog if it names one, and its providers and plan.             *)
Routes == RouteDefaults(memory, composePlan(memory.form, listed), live.server.pin)
ModelsAreKnown == ~memory.form.chat.on \/ memory.form.chat.models # <<>> \/ listed = AccountModels[account]
HeldIsServed ==
    /\ live.keys = memory.keys /\ live.service = memory.service /\ (memory.local # "unsaid" => live.local = memory.local)
    /\ source = NoCatalog => memory.form.catalog = NoCatalog
PlanIsServed ==
    /\ live.server.providers = Providers(memory, listed, source)
    /\ \A f \in DOMAIN Routes : live.server[f] = Routes[f]

(* Unless jobs overlapped or failed, it does so at rest, and a job that     *)
(* waits has what it takes to get there.                                    *)
Serving ==
    running /\ ~apart =>
      /\ AtRest => ModelsAreKnown /\ HeldIsServed /\ PlanIsServed
      /\ jobs[Account] # Idle => jobs[Account].asked = account /\ HeldIsServed
      /\ \A c \in Callers \ {Account} :
            /\ jobs[c].at = "listing" => jobs[c].asked = account /\ jobs[c].wants = memory.form.catalog
            /\ jobs[c].at = "warming" => /\ jobs[c].wants = memory.form.catalog /\ jobs[c].held = Held(memory)
                                         /\ jobs[c].partial = Routes /\ ModelsAreKnown

ServingInv == FormIsFresh /\ ServerShape /\ JobsShape /\ OneJob /\ Serving

-----------------------------------------------------------------------------
LEMMA RoutesFields ==
    ASSUME NEW doc, NEW plan, NEW pin
    PROVE  DOMAIN RouteDefaults(doc, plan, pin) \subseteq PlanFields
  BY RoutesSay DEF PlanFields

LEMMA WithFields ==
    ASSUME NEW R, DOMAIN R \subseteq PlanFields, NEW providers
    PROVE  /\ DOMAIN With(R, providers) = DOMAIN R \cup {"providers"} /\ With(R, providers).providers = providers
           /\ \A f \in DOMAIN R : With(R, providers)[f] = R[f]
  BY DEF With, PlanFields

LEMMA WithCatalogFields ==
    ASSUME NEW q, "catalog" \notin DOMAIN q, NEW catalog \in Catalogs \ {NoCatalog}
    PROVE  /\ DOMAIN WithCatalog(q, catalog) = DOMAIN q \cup {"catalog"}
           /\ WithCatalog(q, catalog).catalog = ToSet(CatalogProviders(catalog)) /\ ToSet(CatalogProviders(catalog)) # NoCatalog
           /\ \A f \in DOMAIN q : WithCatalog(q, catalog)[f] = q[f]
  BY DocumentsAssumption DEF WithCatalog, NoCatalog

LEMMA PlanTaken ==
    ASSUME NEW s, ConfigFields \subseteq DOMAIN s, ~s.auto, s.source = Registry(s),
           NEW R, DOMAIN R \subseteq PlanFields, NEW providers,
           NEW t, t = Reconfigured(s, With(R, providers), 1).to
    PROVE  /\ ConfigFields \subseteq DOMAIN t /\ ~t.auto /\ t.source = Registry(t)
           /\ t.providers = providers /\ t.catalog = s.catalog /\ t.pin = s.pin
           /\ \A f \in DOMAIN R : t[f] = R[f]
  <1>1. PICK q : q = With(R, providers)
    OBVIOUS
  <1>2. /\ DOMAIN q = DOMAIN R \cup {"providers"} /\ q.providers = providers
        /\ \A f \in DOMAIN R : q[f] = R[f]
    BY <1>1, WithFields
  <1>3. /\ DOMAIN q \subseteq {"policy", "default", "model", "providers", "catalog"} /\ "providers" \in DOMAIN q
        /\ "catalog" \notin DOMAIN q
    BY <1>2 DEF PlanFields
  <1>4. t = Reconfigured(s, q, 1).to
    BY <1>1
  <1>5. /\ ConfigFields \subseteq DOMAIN t /\ ~t.auto /\ t.source = Registry(t) /\ t.pin = s.pin
        /\ t.catalog = s.catalog /\ \A f \in DOMAIN q : t[f] = q[f]
    BY <1>3, <1>4, ServerReplans
  <1>. QED  BY <1>2, <1>5

LEMMA CatalogTaken ==
    ASSUME NEW s, ConfigFields \subseteq DOMAIN s, ~s.auto, s.source = Registry(s),
           NEW R, DOMAIN R \subseteq PlanFields, NEW providers, NEW catalog \in Catalogs \ {NoCatalog},
           NEW t, t = Reconfigured(s, WithCatalog(With(R, providers), catalog), 1).to
    PROVE  /\ ConfigFields \subseteq DOMAIN t /\ ~t.auto /\ t.source = Registry(t)
           /\ t.providers = providers /\ t.pin = s.pin /\ t.catalog = ToSet(CatalogProviders(catalog))
           /\ \A f \in DOMAIN R : t[f] = R[f]
  <1>1. PICK w : w = With(R, providers)
    OBVIOUS
  <1>2. /\ DOMAIN w = DOMAIN R \cup {"providers"} /\ w.providers = providers
        /\ \A f \in DOMAIN R : w[f] = R[f]
    BY <1>1, WithFields
  <1>3. "catalog" \notin DOMAIN w
    BY <1>2 DEF PlanFields
  <1>4. PICK q : q = WithCatalog(w, catalog)
    OBVIOUS
  <1>5. /\ DOMAIN q = DOMAIN w \cup {"catalog"} /\ q.catalog = ToSet(CatalogProviders(catalog))
        /\ q.catalog # NoCatalog /\ \A f \in DOMAIN w : q[f] = w[f]
    BY <1>3, <1>4, WithCatalogFields
  <1>6. /\ DOMAIN q \subseteq {"policy", "default", "model", "providers", "catalog"} /\ "providers" \in DOMAIN q
        /\ "catalog" \in DOMAIN q
    BY <1>2, <1>5 DEF PlanFields
  <1>7. t = Reconfigured(s, q, 1).to
    BY <1>1, <1>4
  <1>8. /\ ConfigFields \subseteq DOMAIN t /\ ~t.auto /\ t.source = Registry(t) /\ t.pin = s.pin
        /\ t.catalog = q.catalog /\ \A f \in DOMAIN q : t[f] = q[f]
    BY <1>5, <1>6, <1>7, ServerReplans
  <1>. QED  BY <1>2, <1>5, <1>8

(* A job gives the server what the document came to, or waits for the       *)
(* catalog.                                                                 *)
LEMMA Applied ==
    ASSUME ServerShape, running, running', DOMAIN jobs = Callers, NEW c \in Callers, NEW wants, NEW doc, NEW models,
           memory' = doc, listed' = models, ApplyConfig(c, wants, doc, models)
    PROVE  /\ ServerShape'
           /\ \/ /\ jobs'[c] = Idle /\ live'.server.providers = Providers(doc, models, source')
                 /\ \A f \in DOMAIN Routes' : live'.server[f] = Routes'[f]
                 /\ live'.keys = doc.keys /\ live'.service = doc.service /\ (doc.local # "unsaid" => live'.local = doc.local)
                 /\ source' = NoCatalog => wants = NoCatalog
              \/ /\ jobs'[c].at = "warming" /\ jobs'[c].wants = wants /\ wants # NoCatalog
                 /\ jobs'[c].held = Held(doc) /\ jobs'[c].partial = Routes' /\ DOMAIN jobs'[c].partial \subseteq PlanFields
  <1>. DEFINE R == RouteDefaults(doc, composePlan(doc.form, models), live.server.pin)
  <1>1. DOMAIN R \subseteq PlanFields
    BY RoutesFields
  <1>2. live'.server.pin = live.server.pin => Routes' = R
    BY DEF Routes
  <1>3. CASE wants # NoCatalog /\ source = NoCatalog
    <2>1. /\ jobs' = [jobs EXCEPT ![c] = [at |-> "warming", wants |-> wants, partial |-> R, held |-> Held(doc)]]
          /\ live' = live /\ source' = source
      BY <1>3 DEF ApplyConfig
    <2>2. jobs'[c] = [at |-> "warming", wants |-> wants, partial |-> R, held |-> Held(doc)]
      BY <2>1
    <2>. HIDE DEF R
    <2>3. /\ jobs'[c].at = "warming" /\ jobs'[c].wants = wants /\ jobs'[c].partial = R /\ jobs'[c].held = Held(doc)
      BY <2>2
    <2>4. ServerShape'
      BY <2>1 DEF ServerShape, Registry
    <2>. QED  BY <1>1, <1>2, <1>3, <2>1, <2>3, <2>4
  <1>4. CASE ~(wants # NoCatalog /\ source = NoCatalog)
    <2>. DEFINE providers == Providers(doc, models, source')
                t == Reconfigured(live.server, With(R, providers), 1).to
    <2>1. /\ source' = (IF wants = NoCatalog THEN NoCatalog ELSE source)
          /\ live' = [server |-> t, keys |-> Held(doc).keys, service |-> Held(doc).service,
                      local |-> IF Held(doc).local = "unsaid" THEN live.local ELSE Held(doc).local]
          /\ jobs' = [jobs EXCEPT ![c] = Idle]
      BY <1>4 DEF ApplyConfig, ServerTakes
    <2>2. Held(doc).keys = doc.keys /\ Held(doc).service = doc.service /\ Held(doc).local = doc.local
      BY DEF Held
    <2>3. ConfigFields \subseteq DOMAIN live.server /\ ~live.server.auto /\ live.server.source = Registry(live.server)
      BY DEF ServerShape
    <2>. HIDE DEF R, providers
    <2>4. /\ ConfigFields \subseteq DOMAIN t /\ ~t.auto /\ t.source = Registry(t)
          /\ t.providers = providers /\ t.catalog = live.server.catalog /\ t.pin = live.server.pin
          /\ \A f \in DOMAIN R : t[f] = R[f]
      BY <1>1, <2>3, PlanTaken
    <2>. HIDE DEF t
    <2>5. /\ live'.server = t /\ live'.keys = doc.keys /\ live'.service = doc.service
          /\ DOMAIN live' = {"server", "keys", "service", "local"} /\ (doc.local # "unsaid" => live'.local = doc.local)
      BY <2>1, <2>2
    <2>6. Routes' = R
      BY <1>2, <2>4, <2>5
    <2>7. ServerShape'
      BY <2>1, <2>4, <2>5 DEF ServerShape, Registry
    <2>8. jobs'[c] = Idle /\ (source' = NoCatalog => wants = NoCatalog)
      BY <1>4, <2>1
    <2>. QED  BY <2>4, <2>5, <2>6, <2>7, <2>8 DEF providers
  <1>. QED  BY <1>3, <1>4

-----------------------------------------------------------------------------
LEMMA ServingInitially == SettingsInit => ServingInv
  BY DEF SettingsInit, ServingInv, FormIsFresh, ServerShape, JobsShape, OneJob, Serving, Idle, Callers

(* A document is put, by a page or by the command.                          *)
LEMMA PutServes ==
    ASSUME SettingsShape, ServingInv, NEW c \in Callers \ {Account}, NEW doc, IsDocument(doc), updateConfig(c, doc),
           UNCHANGED <<running, account>>
    PROVE  ServingInv'
  <1>1. /\ file' = doc /\ running /\ running' /\ memory' = Cleared(doc, memory) /\ IsDocument(memory)
        /\ jobs[c] = Idle /\ apart' = Overlapping(c) /\ DOMAIN jobs = Callers
    BY DEF updateConfig, SettingsShape
  <1>2. /\ IsDocument(memory')
        /\ memory'.local = IF doc.local = "unsaid" THEN memory.local ELSE doc.local
        /\ \A f \in FormFields \ {"policy"} : memory'.form[f] = doc.form[f]
        /\ memory'.form.policy = IF doc.form.policy = NoPolicy THEN memory.form.policy ELSE doc.form.policy
    BY <1>1, ClearedIsDocument
  <1>3. FormIsFresh'
    BY <1>1, <1>2 DEF FormIsFresh, SameButPolicy
  <1>4. memory'.form.catalog = doc.form.catalog /\ memory'.form.chat = doc.form.chat /\ doc.form.catalog \in Catalogs
    BY <1>2 DEF FormFields, IsDocument, IsForm
  <1>5. ServerShape /\ JobsShape
    BY DEF ServingInv
  <1>6. /\ DOMAIN jobs' = Callers /\ \A d \in Callers \ {c} : jobs'[d] = jobs[d]
    BY <1>1, PutKeepsJobs
  <1>7. ~apart' => \A d \in Callers \ {c} : jobs'[d] = Idle
    BY <1>1, <1>6 DEF Overlapping
  <1>8. OneJob'
    BY <1>7 DEF OneJob, Callers
  <1>9. c # Account /\ Account \in Callers /\ Idle.at = "idle"
    BY DEF Callers, Idle
  <1>10. CASE doc.form.chat.models # <<>>
    <2>1. /\ listed' = <<>> /\ ApplyConfig(c, doc.form.catalog, memory', <<>>)
      BY <1>10 DEF updateConfig
    <2>2. PICK new : new = memory'
      OBVIOUS
    <2>3. ApplyConfig(c, doc.form.catalog, new, <<>>)
      BY <2>1, <2>2
    <2>4. /\ ServerShape'
          /\ \/ /\ jobs'[c] = Idle /\ live'.server.providers = Providers(new, <<>>, source')
                /\ \A f \in DOMAIN Routes' : live'.server[f] = Routes'[f]
                /\ live'.keys = new.keys /\ live'.service = new.service /\ (new.local # "unsaid" => live'.local = new.local)
                /\ source' = NoCatalog => doc.form.catalog = NoCatalog
             \/ /\ jobs'[c].at = "warming" /\ jobs'[c].wants = doc.form.catalog /\ doc.form.catalog # NoCatalog
                /\ jobs'[c].held = Held(new) /\ jobs'[c].partial = Routes' /\ DOMAIN jobs'[c].partial \subseteq PlanFields
      BY <1>1, <1>5, <2>1, <2>2, <2>3, Applied
    <2>5. JobsShape'
      BY <1>4, <1>5, <1>6, <1>9, <2>4 DEF JobsShape
    <2>6. ModelsAreKnown'
      BY <1>4, <1>10 DEF ModelsAreKnown
    <2>7. CASE jobs'[c] = Idle
      <3>1. HeldIsServed' /\ PlanIsServed'
        BY <1>4, <1>9, <2>1, <2>2, <2>4, <2>7 DEF HeldIsServed, PlanIsServed
      <3>2. Serving'
        BY <1>7, <1>9, <2>6, <2>7, <3>1 DEF Serving
      <3>. QED  BY <1>3, <1>8, <2>4, <2>5, <3>2 DEF ServingInv
    <2>8. CASE jobs'[c].at = "warming"
      <3>1. Serving'
        BY <1>4, <1>7, <1>9, <2>2, <2>4, <2>6, <2>8 DEF Serving, AtRest
      <3>. QED  BY <1>3, <1>8, <2>4, <2>5, <3>1 DEF ServingInv
    <2>. QED  BY <2>4, <2>7, <2>8
  <1>11. CASE doc.form.chat.models = <<>>
    <2>1. /\ jobs' = [jobs EXCEPT ![c] = [at |-> "listing", asked |-> account, wants |-> doc.form.catalog]]
          /\ UNCHANGED <<listed, live, source>>
      BY <1>11 DEF updateConfig
    <2>2. jobs'[c] = [at |-> "listing", asked |-> account, wants |-> doc.form.catalog]
      BY <1>1, <2>1
    <2>3. jobs'[c].at = "listing" /\ jobs'[c].asked = account /\ jobs'[c].wants = doc.form.catalog
      BY <2>2
    <2>4. ServerShape'
      BY <1>1, <1>5, <2>1 DEF ServerShape, Registry
    <2>5. JobsShape'
      BY <1>4, <1>5, <1>6, <2>3 DEF JobsShape
    <2>6. Serving'
      BY <1>4, <1>7, <1>9, <2>3 DEF Serving, AtRest
    <2>. QED  BY <1>3, <1>8, <2>4, <2>5, <2>6 DEF ServingInv
  <1>. QED  BY <1>10, <1>11

LEMMA PutsServe ==
    ASSUME SettingsShape, ServingInv,
           CommandPuts \/ (\E p \in Pages, form \in Forms, i \in Inputs : PageApplies(p, form, i))
    PROVE  ServingInv'
  <1>1. CASE CommandPuts
    <2>1. updateConfig(Command, command) /\ IsDocument(command) /\ UNCHANGED <<running, account>>
      BY <1>1, CommandPutsShape DEF CommandPuts
    <2>. QED  BY <2>1, PutServes, SettingsAssumption DEF Callers
  <1>2. ASSUME NEW p \in Pages, NEW form \in Forms, NEW i \in Inputs, PageApplies(p, form, i) PROVE ServingInv'
    <2>1. IsDocument(assemble(Typed(p, i), form))
      BY <1>2, PageAppliesShape
    <2>2. updateConfig(p, assemble(Typed(p, i), form)) /\ UNCHANGED <<running, account>>
      BY <1>2 DEF PageApplies
    <2>. QED  BY <2>1, <2>2, PutServes, SettingsAssumption DEF Callers
  <1>. QED  BY <1>1, <1>2

(* A job goes on.                                                           *)
LEMMA ListedServes ==
    ASSUME SettingsShape, ServingInv, NEW c \in Callers, NEW ok \in BOOLEAN, ModelsListed(c, ok)
    PROVE  ServingInv'
  <1>1. /\ c # Account /\ jobs[c].at = "listing" /\ apart' = (apart \/ ~ok)
        /\ listed' = (IF ok THEN AccountModels[jobs[c].asked] ELSE <<>>)
        /\ UNCHANGED <<file, memory, account, running, unread>>
    BY DEF ModelsListed
  <1>2. jobs[c] # Idle /\ running /\ running' /\ DOMAIN jobs = Callers /\ Account \in Callers /\ Idle.at = "idle"
    BY <1>1 DEF SettingsShape, Idle, Callers
  <1>3. ServerShape /\ JobsShape /\ jobs[c].wants \in Catalogs
    BY <1>1 DEF ServingInv, JobsShape
  <1>4. PICK wants, models : wants = jobs[c].wants /\ models = listed'
    OBVIOUS
  <1>5. ApplyConfig(c, wants, memory, models)
    BY <1>4 DEF ModelsListed
  <1>6. DOMAIN jobs' = Callers /\ \A d \in Callers \ {c} : jobs'[d] = jobs[d]
    BY <1>2, <1>5, ApplyKeepsJobs
  <1>7. /\ ServerShape'
        /\ \/ /\ jobs'[c] = Idle /\ live'.server.providers = Providers(memory, models, source')
              /\ \A f \in DOMAIN Routes' : live'.server[f] = Routes'[f]
              /\ live'.keys = memory.keys /\ live'.service = memory.service
              /\ memory.local # "unsaid" => live'.local = memory.local
              /\ source' = NoCatalog => wants = NoCatalog
           \/ /\ jobs'[c].at = "warming" /\ jobs'[c].wants = wants /\ wants # NoCatalog
              /\ jobs'[c].held = Held(memory) /\ jobs'[c].partial = Routes' /\ DOMAIN jobs'[c].partial \subseteq PlanFields
    BY <1>1, <1>2, <1>3, <1>4, <1>5, Applied
  <1>8. JobsShape'
    BY <1>1, <1>2, <1>3, <1>4, <1>6, <1>7 DEF JobsShape
  <1>9. FormIsFresh'
    BY <1>1 DEF ServingInv, FormIsFresh
  <1>10. ~apart' => ~apart /\ ok /\ \A d \in Callers \ {c} : jobs'[d] = Idle
    BY <1>1, <1>2, <1>6 DEF ServingInv, OneJob
  <1>11. OneJob'
    BY <1>10 DEF OneJob, Callers
  <1>12. ~apart' => ModelsAreKnown' /\ wants = memory.form.catalog
    BY <1>1, <1>2, <1>4, <1>10 DEF ServingInv, Serving, ModelsAreKnown
  <1>13. CASE jobs'[c] = Idle
    <2>1. ~apart' => HeldIsServed' /\ PlanIsServed'
      BY <1>1, <1>4, <1>7, <1>12, <1>13, <1>2 DEF HeldIsServed, PlanIsServed
    <2>2. Serving'
      BY <1>2, <1>10, <1>12, <1>13, <2>1 DEF Serving
    <2>. QED  BY <1>7, <1>8, <1>9, <1>11, <2>2 DEF ServingInv
  <1>14. CASE jobs'[c].at = "warming"
    <2>1. Serving'
      BY <1>1, <1>2, <1>7, <1>10, <1>12, <1>14 DEF Serving, AtRest
    <2>. QED  BY <1>7, <1>8, <1>9, <1>11, <2>1 DEF ServingInv
  <1>. QED  BY <1>7, <1>13, <1>14

LEMMA WarmedServes ==
    ASSUME SettingsShape, ServingInv, NEW c \in Callers, CatalogWarmed(c)
    PROVE  ServingInv'
  <1>. DEFINE R == jobs[c].partial
              catalog == jobs[c].wants
              providers == Providers(memory, listed, catalog)
              held == [jobs[c].held EXCEPT !.local = memory.local]
              t == Reconfigured(live.server, WithCatalog(With(R, providers), catalog), 1).to
  <1>1. /\ jobs[c].at = "warming" /\ source' = catalog /\ jobs' = [jobs EXCEPT ![c] = Idle]
        /\ UNCHANGED <<file, memory, listed, account, running, unread, apart>>
    BY DEF CatalogWarmed, ghostVars
  <1>2. live' = [server |-> t, keys |-> held.keys, service |-> held.service,
                 local |-> IF held.local = "unsaid" THEN live.local ELSE held.local]
    BY <1>1 DEF CatalogWarmed, ServerTakes
  <1>3. jobs[c] # Idle /\ running /\ running' /\ DOMAIN jobs = Callers /\ Account \in Callers /\ Idle.at = "idle"
    BY <1>1 DEF SettingsShape, Idle, Callers
  <1>4. c # Account /\ catalog \in Catalogs \ {NoCatalog} /\ DOMAIN R \subseteq PlanFields
    BY <1>1 DEF ServingInv, JobsShape
  <1>5. ConfigFields \subseteq DOMAIN live.server /\ ~live.server.auto /\ live.server.source = Registry(live.server)
    BY <1>3 DEF ServingInv, ServerShape
  <1>. HIDE DEF R, catalog, providers, held
  <1>6. /\ ConfigFields \subseteq DOMAIN t /\ ~t.auto /\ t.source = Registry(t)
        /\ t.providers = providers /\ t.pin = live.server.pin /\ t.catalog = ToSet(CatalogProviders(catalog))
        /\ \A f \in DOMAIN R : t[f] = R[f]
    BY <1>4, <1>5, CatalogTaken
  <1>. HIDE DEF t
  <1>7. /\ live'.server = t /\ live'.keys = held.keys /\ live'.service = held.service
        /\ live'.local = (IF held.local = "unsaid" THEN live.local ELSE held.local)
        /\ DOMAIN live' = {"server", "keys", "service", "local"}
    BY <1>2
  <1>8. ServerShape'
    BY <1>1, <1>4, <1>6, <1>7 DEF ServerShape, Registry
  <1>9. JobsShape'
    BY <1>1, <1>3 DEF ServingInv, JobsShape
  <1>10. FormIsFresh'
    BY <1>1 DEF ServingInv, FormIsFresh
  <1>11. ~apart' => \A d \in Callers : jobs'[d] = Idle
    BY <1>1, <1>3 DEF ServingInv, OneJob
  <1>12. OneJob'
    BY <1>11 DEF OneJob, Callers
  <1>13. ASSUME ~apart' PROVE ModelsAreKnown' /\ HeldIsServed' /\ PlanIsServed'
    <2>1. catalog = memory.form.catalog /\ jobs[c].held = Held(memory) /\ R = Routes /\ ModelsAreKnown
      BY <1>1, <1>3, <1>4, <1>13 DEF ServingInv, Serving, R, catalog
    <2>2. held.keys = memory.keys /\ held.service = memory.service /\ held.local = memory.local
      BY <2>1 DEF held, Held
    <2>3. Routes' = Routes
      BY <1>1, <1>6, <1>7 DEF Routes
    <2>4. PlanIsServed'
      BY <1>1, <1>6, <1>7, <2>1, <2>3 DEF PlanIsServed, providers
    <2>5. HeldIsServed'
      BY <1>1, <1>4, <1>7, <2>2 DEF HeldIsServed
    <2>6. ModelsAreKnown'
      BY <1>1, <2>1 DEF ModelsAreKnown
    <2>. QED  BY <2>4, <2>5, <2>6
  <1>14. Serving'
    BY <1>3, <1>11, <1>13 DEF Serving
  <1>. QED  BY <1>8, <1>9, <1>10, <1>12, <1>14 DEF ServingInv

(* The account changes, or has its models.                                  *)
LEMMA Replanned ==
    ASSUME ServerShape, running, NEW models, Replan(models), listed' = models, UNCHANGED <<memory, source, running>>
    PROVE  /\ ServerShape' /\ PlanIsServed' /\ UNCHANGED <<live.keys, live.service, live.local>>
  <1>. DEFINE R == RouteDefaults(memory, composePlan(memory.form, models), live.server.pin)
              providers == Providers(memory, models, source)
              t == Reconfigured(live.server, With(R, providers), 1).to
  <1>1. DOMAIN R \subseteq PlanFields
    BY RoutesFields
  <1>2. ConfigFields \subseteq DOMAIN live.server /\ ~live.server.auto /\ live.server.source = Registry(live.server)
    BY DEF ServerShape
  <1>3. live' = [live EXCEPT !.server = t]
    BY DEF Replan
  <1>. HIDE DEF R, providers
  <1>4. /\ ConfigFields \subseteq DOMAIN t /\ ~t.auto /\ t.source = Registry(t)
        /\ t.providers = providers /\ t.catalog = live.server.catalog /\ t.pin = live.server.pin
        /\ \A f \in DOMAIN R : t[f] = R[f]
    BY <1>1, <1>2, PlanTaken
  <1>. HIDE DEF t
  <1>5. live'.server = t /\ DOMAIN live' = DOMAIN live /\ UNCHANGED <<live.keys, live.service, live.local>>
    BY <1>3 DEF ServerShape
  <1>6. Routes' = R
    BY <1>4, <1>5 DEF Routes, R
  <1>7. ServerShape'
    BY <1>4, <1>5 DEF ServerShape, Registry
  <1>8. PlanIsServed'
    BY <1>4, <1>5, <1>6 DEF PlanIsServed, providers
  <1>. QED  BY <1>5, <1>7, <1>8

LEMMA AccountServes ==
    ASSUME SettingsShape, ServingInv,
           (\E a \in Accounts \cup {NoAccount} : AccountChanges(a)) \/ (\E ok \in BOOLEAN : AccountListed(ok))
    PROVE  ServingInv'
  <1>0. Account \in Callers /\ Idle.at = "idle" /\ DOMAIN jobs = Callers
    BY DEF Callers, Idle, SettingsShape
  <1>1. ASSUME NEW a, AccountChanges(a) PROVE ServingInv'
    <2>1. /\ running /\ account' = a /\ jobs[Account] = Idle /\ apart' = (apart \/ Overlapping(Account))
          /\ UNCHANGED <<file, memory, source, running, unread>>
      BY <1>1 DEF AccountChanges
    <2>2. FormIsFresh'
      BY <2>1 DEF ServingInv, FormIsFresh
    <2>3. ~apart' => ~apart /\ \A d \in Callers : jobs[d] = Idle
      BY <2>1 DEF Overlapping
    <2>4. ~apart' => HeldIsServed
      BY <2>1, <2>3 DEF ServingInv, Serving, AtRest
    <2>5. CASE memory.form.chat.models # <<>>
      <3>1. listed' = <<>> /\ Replan(<<>>) /\ jobs' = jobs
        BY <1>1, <2>5 DEF AccountChanges
      <3>2. ServerShape' /\ PlanIsServed' /\ UNCHANGED <<live.keys, live.service, live.local>>
        BY <2>1, <3>1, Replanned DEF ServingInv
      <3>3. JobsShape' /\ OneJob'
        BY <2>3, <3>1 DEF ServingInv, JobsShape, OneJob, Callers
      <3>4. ~apart' => HeldIsServed'
        BY <2>1, <2>4, <3>2 DEF HeldIsServed
      <3>5. ModelsAreKnown'
        BY <2>1, <2>5 DEF ModelsAreKnown
      <3>6. Serving'
        BY <1>0, <2>3, <3>1, <3>2, <3>4, <3>5 DEF Serving
      <3>. QED  BY <2>2, <3>2, <3>3, <3>6 DEF ServingInv
    <2>6. CASE memory.form.chat.models = <<>>
      <3>1. jobs' = [jobs EXCEPT ![Account] = [at |-> "listing", asked |-> a]] /\ UNCHANGED <<listed, live>>
        BY <1>1, <2>6 DEF AccountChanges
      <3>2. jobs'[Account] = [at |-> "listing", asked |-> a] /\ \A d \in Callers \ {Account} : jobs'[d] = jobs[d]
        BY <1>0, <3>1
      <3>3. jobs'[Account].at = "listing" /\ jobs'[Account].asked = a
        BY <3>2
      <3>4. ServerShape'
        BY <2>1, <3>1 DEF ServingInv, ServerShape, Registry
      <3>5. JobsShape'
        BY <3>2, <3>3 DEF ServingInv, JobsShape
      <3>6. OneJob'
        BY <2>3, <3>2 DEF OneJob, Callers
      <3>7. ~apart' => HeldIsServed'
        BY <2>1, <2>4, <3>1 DEF HeldIsServed
      <3>8. Serving'
        BY <1>0, <2>1, <2>3, <3>2, <3>3, <3>7 DEF Serving, AtRest
      <3>. QED  BY <2>2, <3>4, <3>5, <3>6, <3>8 DEF ServingInv
    <2>. QED  BY <2>5, <2>6
  <1>2. ASSUME NEW ok \in BOOLEAN, AccountListed(ok) PROVE ServingInv'
    <2>1. /\ jobs[Account].at = "listing" /\ listed' = (IF ok THEN AccountModels[jobs[Account].asked] ELSE <<>>)
          /\ Replan(listed') /\ jobs' = [jobs EXCEPT ![Account] = Idle] /\ apart' = (apart \/ ~ok)
          /\ UNCHANGED <<file, memory, source, account, running, unread>>
      BY <1>2 DEF AccountListed
    <2>2. jobs[Account] # Idle /\ running
      BY <1>0, <2>1 DEF SettingsShape
    <2>3. FormIsFresh'
      BY <2>1 DEF ServingInv, FormIsFresh
    <2>4. PICK models : models = listed'
      OBVIOUS
    <2>5. Replan(models)
      BY <2>1, <2>4
    <2>6. ServerShape' /\ PlanIsServed' /\ UNCHANGED <<live.keys, live.service, live.local>>
      BY <2>1, <2>2, <2>4, <2>5, Replanned DEF ServingInv
    <2>7. JobsShape'
      BY <1>0, <2>1 DEF ServingInv, JobsShape
    <2>8. ~apart' => ~apart /\ ok /\ \A d \in Callers : jobs'[d] = Idle
      BY <1>0, <2>1, <2>2 DEF ServingInv, OneJob
    <2>9. OneJob'
      BY <2>8 DEF OneJob, Callers
    <2>10. ~apart' => jobs[Account].asked = account /\ HeldIsServed
      BY <2>2, <2>8 DEF ServingInv, Serving
    <2>11. ~apart' => HeldIsServed' /\ ModelsAreKnown'
      BY <2>1, <2>6, <2>8, <2>10 DEF HeldIsServed, ModelsAreKnown
    <2>12. Serving'
      BY <1>0, <2>6, <2>8, <2>11 DEF Serving
    <2>. QED  BY <2>3, <2>6, <2>7, <2>9, <2>12 DEF ServingInv
  <1>. QED  BY <1>1, <1>2

(* A bridge starts from the file.                                           *)
LEMMA StartServes ==
    ASSUME SettingsShape, NEW pin, BridgeStarts(pin)
    PROVE  ServingInv'
  <1>. DEFINE models == IF file.form.chat.on THEN refreshModels(file.form, account) ELSE <<>>
              plan == composePlan(file.form, models)
              R == RouteDefaults(file, plan, pin)
              o == [providers |-> Providers(file, models, file.form.catalog),
                    catalog |-> IF file.form.catalog = NoCatalog THEN NoCatalog ELSE ToSet(CatalogProviders(file.form.catalog)),
                    source |-> {}, policy |-> plan.policy, intents |-> NoIntents, auto |-> FALSE,
                    engine |-> 0, pin |-> pin, default |-> Given(R, "default", Head(Built)),
                    model |-> Given(R, "model", NoModel)]
              t == Constructed(o, 1)
  <1>1. /\ ~running /\ running' /\ apart' = FALSE /\ unread' = FALSE
        /\ UNCHANGED <<file, jobs, account>>
        /\ memory' = [file EXCEPT !.keys = keysFromEnv(@)] /\ listed' = models /\ source' = file.form.catalog
        /\ live' = [server |-> t, keys |-> memory'.keys, service |-> file.service, local |-> file.local]
    BY DEF BridgeStarts, Started
  <1>2. /\ memory'.keys = keysFromEnv(file.keys) /\ memory'.service = file.service /\ memory'.local = file.local
        /\ memory'.form = file.form /\ file.form.catalog \in Catalogs
    BY StartShape DEF SettingsShape, IsDocument, IsForm
  <1>3. \A c \in Callers : jobs'[c] = Idle
    BY <1>1 DEF SettingsShape
  <1>4. Account \in Callers /\ Idle.at = "idle"
    BY DEF Callers, Idle
  <1>. HIDE DEF models, plan
  <1>5. /\ ConfigFields \subseteq DOMAIN t /\ ~t.auto /\ t.source = Registry(t)
        /\ t.providers = Providers(file, models, file.form.catalog) /\ t.policy = plan.policy
        /\ t.catalog = (IF file.form.catalog = NoCatalog THEN NoCatalog ELSE ToSet(CatalogProviders(file.form.catalog)))
        /\ t.default = Given(R, "default", Head(Built)) /\ t.model = Given(R, "model", NoModel) /\ t.pin = pin
    <2>. HIDE DEF R
    <2>. QED  BY DEF Constructed, ConfigFields, Registry
  <1>6. \A f \in DOMAIN R : t[f] = R[f]
    <2>1. DOMAIN R \subseteq PlanFields /\ ("policy" \in DOMAIN R => R.policy = plan.policy)
      BY RoutesSay, RoutesFields
    <2>. HIDE DEF R, t
    <2>. QED  BY <1>5, <2>1 DEF PlanFields, Given
  <1>. HIDE DEF t
  <1>7. /\ live'.server = t /\ live'.keys = memory'.keys /\ live'.service = file.service /\ live'.local = file.local
        /\ DOMAIN live' = {"server", "keys", "service", "local"}
    BY <1>1
  <1>8. Routes' = R
    BY <1>1, <1>2, <1>5, <1>7 DEF Routes, RouteDefaults, plan
  <1>. HIDE DEF R
  <1>9. ServerShape'
    BY <1>1, <1>2, <1>5, <1>7 DEF ServerShape, Registry
  <1>10. FormIsFresh'
    BY <1>1, <1>2 DEF FormIsFresh, SameButPolicy
  <1>11. JobsShape' /\ OneJob'
    BY <1>3, <1>4 DEF JobsShape, OneJob, Callers
  <1>12. PlanIsServed'
    <2>1. Providers(memory', listed', source') = Providers(file, models, file.form.catalog)
      BY <1>1, <1>2 DEF Providers
    <2>. QED  BY <1>5, <1>6, <1>7, <1>8, <2>1 DEF PlanIsServed
  <1>13. HeldIsServed'
    BY <1>1, <1>2, <1>7 DEF HeldIsServed
  <1>14. ModelsAreKnown'
    BY <1>1, <1>2 DEF ModelsAreKnown, refreshModels, models
  <1>15. Serving'
    BY <1>3, <1>4, <1>12, <1>13, <1>14 DEF Serving
  <1>. QED  BY <1>9, <1>10, <1>11, <1>15 DEF ServingInv

(* Nothing else touches what is served; who writes the file past the bridge *)
(* leaves it unread.                                                        *)
LEMMA OtherServes ==
    ASSUME SettingsShape, ServingInv,
           \/ \E p \in Pages : PageLoads(p)
           \/ \E c \in Callers : CatalogFails(c)
           \/ BridgeStops \/ TerminalOpens \/ CommandGivesUp \/ UNCHANGED settingsVars
           \/ \E edit \in Edits : TerminalSaves(edit)
           \/ \E k \in ServiceIds, word \in {"active", "rotated", "revoked"} : KeyCommand(k, word)
    PROVE  ServingInv'
  <1>0. Account \in Callers /\ Idle.at = "idle" /\ DOMAIN jobs = Callers
    BY DEF Callers, Idle, SettingsShape
  <1>1. CASE /\ UNCHANGED <<memory, live, source, listed, jobs, account, running, apart>>
             /\ UNCHANGED <<file, unread>> \/ unread'
    <2>1. FormIsFresh'
      BY <1>1 DEF ServingInv, FormIsFresh
    <2>2. ServerShape' /\ JobsShape' /\ OneJob'
      BY <1>1 DEF ServingInv, ServerShape, JobsShape, OneJob, Registry, Callers
    <2>3. Routes' = Routes
      BY <1>1 DEF Routes
    <2>4. ModelsAreKnown' = ModelsAreKnown /\ HeldIsServed' = HeldIsServed /\ PlanIsServed' = PlanIsServed
      BY <1>1, <2>3 DEF ModelsAreKnown, HeldIsServed, PlanIsServed
    <2>5. Serving'
      BY <1>1, <2>3, <2>4 DEF ServingInv, Serving, AtRest, Callers
    <2>. QED  BY <2>1, <2>2, <2>5 DEF ServingInv
  <1>2. ASSUME NEW c \in Callers, CatalogFails(c) PROVE ServingInv'
    <2>1. /\ apart' = TRUE /\ jobs' = [jobs EXCEPT ![c] = Idle]
          /\ UNCHANGED <<file, memory, live, source, running, unread>>
      BY <1>2 DEF CatalogFails
    <2>2. FormIsFresh' /\ ServerShape'
      BY <2>1 DEF ServingInv, FormIsFresh, ServerShape, Registry
    <2>3. JobsShape' /\ OneJob' /\ Serving'
      BY <1>0, <2>1 DEF ServingInv, JobsShape, OneJob, Serving
    <2>. QED  BY <2>2, <2>3 DEF ServingInv
  <1>3. CASE BridgeStops
    <2>1. ~running' /\ \A c \in Callers : jobs'[c] = Idle
      BY <1>3 DEF BridgeStops
    <2>. QED  BY <1>0, <2>1 DEF ServingInv, FormIsFresh, ServerShape, JobsShape, OneJob, Serving, Callers
  <1>4. ASSUME NEW p \in Pages, PageLoads(p) PROVE ServingInv'
    BY <1>1, <1>4 DEF PageLoads, bridgeVars
  <1>5. CASE TerminalOpens
    BY <1>1, <1>5 DEF TerminalOpens, bridgeVars, ghostVars
  <1>6. CASE CommandGivesUp
    BY <1>1, <1>6 DEF CommandGivesUp, bridgeVars
  <1>7. CASE UNCHANGED settingsVars
    BY <1>1, <1>7 DEF settingsVars, bridgeVars, ghostVars
  <1>8. ASSUME NEW edit \in Edits, TerminalSaves(edit) PROVE ServingInv'
    BY <1>1, <1>8 DEF TerminalSaves, bridgeVars
  <1>9. ASSUME NEW k, NEW word, KeyCommand(k, word) PROVE ServingInv'
    BY <1>1, <1>9 DEF KeyCommand, bridgeVars
  <1>. QED  BY <1>2, <1>3, <1>4, <1>5, <1>6, <1>7, <1>8, <1>9

LEMMA ServingStep == SettingsShape /\ ServingInv /\ [SettingsNext]_settingsVars => ServingInv'
  <1>. SUFFICES ASSUME SettingsShape, ServingInv, [SettingsNext]_settingsVars PROVE ServingInv'
    OBVIOUS
  <1>1. CASE CommandPuts \/ (\E p \in Pages, form \in Forms, i \in Inputs : PageApplies(p, form, i))
    BY <1>1, PutsServe
  <1>2. CASE \E c \in Callers : (\E ok \in BOOLEAN : ModelsListed(c, ok)) \/ CatalogWarmed(c)
    BY <1>2, ListedServes, WarmedServes
  <1>3. CASE (\E a \in Accounts \cup {NoAccount} : AccountChanges(a)) \/ (\E ok \in BOOLEAN : AccountListed(ok))
    BY <1>3, AccountServes
  <1>4. CASE \E pin \in Pins \cup {NoPin} : BridgeStarts(pin)
    BY <1>4, StartServes
  <1>5. CASE \/ \E p \in Pages : PageLoads(p)
             \/ \E c \in Callers : CatalogFails(c)
             \/ BridgeStops \/ TerminalOpens \/ CommandGivesUp \/ UNCHANGED settingsVars
             \/ \E edit \in Edits : TerminalSaves(edit)
             \/ \E k \in ServiceIds, word \in {"active", "rotated", "revoked"} : KeyCommand(k, word)
    BY <1>5, OtherServes
  <1>. QED  BY <1>1, <1>2, <1>3, <1>4, <1>5 DEF SettingsNext

-----------------------------------------------------------------------------
(* What is served at rest is what a bridge started now would serve.         *)
LEMMA ServedAsStarted == SettingsShape /\ KeysInv /\ ServingInv => RestartIsInvisible
  <1>. SUFFICES ASSUME SettingsShape, KeysInv, ServingInv, running, AtRest, ~unread, ~apart
                PROVE  LET s    == Started(file, account, live.server.pin).live
                           plan == composePlan(file.form, Started(file, account, live.server.pin).listed)
                       IN  /\ live.keys = s.keys /\ live.service = s.service
                           /\ file.local # "unsaid" => live.local = file.local
                           /\ (live.server.catalog \in {NoCatalog, s.server.catalog}) =>
                                 /\ live.server.providers = s.server.providers
                                 /\ live.server.catalog = s.server.catalog /\ live.server.source = s.server.source
                           /\ file.form.policy # NoPolicy => live.server.policy = plan.policy
                           /\ plan.default # NoPin => live.server.default = s.server.default
                           /\ s.server.model # NoModel => live.server.model = s.server.model
    BY DEF RestartIsInvisible
  <1>. DEFINE pin == live.server.pin
              models == IF file.form.chat.on THEN refreshModels(file.form, account) ELSE <<>>
              plan == composePlan(file.form, models)
              R == RouteDefaults(file, plan, pin)
              o == [providers |-> Providers(file, models, file.form.catalog),
                    catalog |-> IF file.form.catalog = NoCatalog THEN NoCatalog ELSE ToSet(CatalogProviders(file.form.catalog)),
                    source |-> {}, policy |-> plan.policy, intents |-> NoIntents, auto |-> FALSE,
                    engine |-> 0, pin |-> pin, default |-> Given(R, "default", Head(Built)),
                    model |-> Given(R, "model", NoModel)]
              t == Constructed(o, 1)
              now == composePlan(memory.form, listed)
              S == Started(file, account, live.server.pin)
  <1>1. /\ IsDocument(file) /\ IsDocument(memory) /\ IsForm(file.form) /\ IsForm(memory.form)
        /\ file.form.catalog \in Catalogs
    BY DEF SettingsShape, IsDocument, IsForm
  <1>2. /\ memory.keys = keysFromEnv(file.keys) /\ memory.service = file.service
        /\ SameButPolicy(memory.form, file.form)
        /\ file.form.policy # NoPolicy => memory.form.policy = file.form.policy
        /\ file.local # "unsaid" => memory.local = file.local
    BY DEF KeysInv, MemoryIsFresh, ServingInv, FormIsFresh
  <1>3. ModelsAreKnown /\ HeldIsServed /\ PlanIsServed
    BY DEF ServingInv, Serving
  <1>4. /\ live.server.source = Registry(live.server)
        /\ source # NoCatalog => source \in Catalogs /\ live.server.catalog = ToSet(CatalogProviders(source))
    BY DEF ServingInv, ServerShape
  <1>5. /\ S.listed = models
        /\ S.live = [server |-> t, keys |-> [file EXCEPT !.keys = keysFromEnv(@)].keys, service |-> file.service, local |-> file.local]
    BY DEF Started
  <1>6. [file EXCEPT !.keys = keysFromEnv(@)].keys = keysFromEnv(file.keys)
    BY <1>1 DEF IsDocument
  <1>7. memory.form.catalog = file.form.catalog /\ memory.form.chat = file.form.chat /\ memory.form.model = file.form.model
    BY <1>2 DEF SameButPolicy, FormFields
  <1>8. resolveChatGptPlan(memory.form.chat, listed) = resolveChatGptPlan(memory.form.chat, models)
    BY <1>3, <1>7 DEF ModelsAreKnown, resolveChatGptPlan, refreshModels
  <1>9. /\ IsPlan(now) /\ IsPlan(plan) /\ SameLead(now, plan)
        /\ memory.form.policy # NoPolicy => now.policy # NoPolicy
        /\ memory.form.policy = file.form.policy => now = plan
    BY <1>1, <1>2, <1>8, PlansLead
  <1>10. \A c : Providers(memory, listed, c) = Providers(file, models, c)
    BY <1>2, <1>8, ProvidersAlike
  <1>. HIDE DEF models, plan, now, S
  <1>11. /\ t.providers = Providers(file, models, file.form.catalog)
         /\ t.catalog = (IF file.form.catalog = NoCatalog THEN NoCatalog ELSE ToSet(CatalogProviders(file.form.catalog)))
         /\ t.default = Given(R, "default", Head(Built)) /\ t.model = Given(R, "model", NoModel) /\ t.source = Registry(t)
    <2>. HIDE DEF R
    <2>. QED  BY DEF Constructed, Registry
  <1>. HIDE DEF t, o
  <1>12. S.live.server = t /\ S.live.keys = keysFromEnv(file.keys) /\ S.live.service = file.service
    BY <1>5, <1>6
  <1>13. live.keys = S.live.keys /\ live.service = S.live.service /\ (file.local # "unsaid" => live.local = file.local)
    BY <1>2, <1>3, <1>12 DEF HeldIsServed
  <1>14. ASSUME live.server.catalog \in {NoCatalog, t.catalog}
         PROVE  live.server.providers = t.providers /\ live.server.catalog = t.catalog /\ live.server.source = t.source
    <2>1. Providers(file, models, source) = Providers(file, models, file.form.catalog) /\ live.server.catalog = t.catalog
      <3>1. CASE source = NoCatalog
        BY <1>3, <1>7, <1>11, <1>14, <3>1 DEF HeldIsServed
      <3>2. CASE source # NoCatalog
        <4>1. /\ source \in Catalogs \ {NoCatalog} /\ live.server.catalog = ToSet(CatalogProviders(source))
              /\ ToSet(CatalogProviders(source)) # {}
          BY <1>4, <3>2, DocumentsAssumption
        <4>2. live.server.catalog = t.catalog /\ t.catalog # NoCatalog
          BY <1>14, <4>1 DEF NoCatalog
        <4>3. file.form.catalog # NoCatalog /\ ToSet(CatalogProviders(source)) = ToSet(CatalogProviders(file.form.catalog))
          BY <1>11, <4>1, <4>2
        <4>4. CatalogProviders(source) = CatalogProviders(file.form.catalog)
          BY <1>1, <4>1, <4>3, DocumentsAssumption
        <4>. QED  BY <3>2, <4>2, <4>3, <4>4 DEF Providers, BaseProviders
      <3>. QED  BY <3>1, <3>2
    <2>2. live.server.providers = t.providers
      BY <1>3, <1>10, <1>11, <2>1 DEF PlanIsServed
    <2>. QED  BY <1>4, <1>11, <2>1, <2>2 DEF Registry
  <1>15. LET model == IF pin = NoPin /\ now.model # NoModel THEN now.model ELSE memory.form.model
             first == IF pin # NoPin THEN pin ELSE now.default
         IN  /\ now.policy # NoPolicy => live.server.policy = now.policy
             /\ model # NoModel => live.server.model = model
             /\ first # NoPin => live.server.default = first
    <2>1. Routes = RouteDefaults(memory, now, pin)
      BY DEF Routes, now
    <2>. HIDE DEF pin
    <2>. QED  BY <1>3, <2>1, RoutesSay DEF PlanIsServed
  <1>16. LET model == IF pin = NoPin /\ plan.model # NoModel THEN plan.model ELSE file.form.model
             first == IF pin # NoPin THEN pin ELSE plan.default
         IN  /\ t.model # NoModel => model # NoModel /\ t.model = model
             /\ first # NoPin => t.default = first
    <2>. HIDE DEF pin
    <2>1. LET model == IF pin = NoPin /\ plan.model # NoModel THEN plan.model ELSE file.form.model
              first == IF pin # NoPin THEN pin ELSE plan.default
          IN  /\ "model" \in DOMAIN R <=> model # NoModel
              /\ "default" \in DOMAIN R <=> first # NoPin
              /\ "model" \in DOMAIN R => R.model = model
              /\ "default" \in DOMAIN R => R.default = first
      BY RoutesSay
    <2>. HIDE DEF R
    <2>. QED  BY <1>11, <2>1 DEF Given
  <1>17. /\ file.form.policy # NoPolicy => live.server.policy = plan.policy
         /\ plan.default # NoPin => live.server.default = t.default
         /\ t.model # NoModel => live.server.model = t.model
    BY <1>2, <1>7, <1>9, <1>15, <1>16 DEF SameLead
  <1>. QED  BY <1>5, <1>12, <1>13, <1>14, <1>17 DEF S, plan

SettingsIInv == SettingsShape /\ KeysInv /\ ServingInv

LEMMA SettingsStay == SettingsSpec => []SettingsIInv
  <1>1. SettingsInit => SettingsIInv
    BY SettingsInitially, ServingInitially DEF SettingsIInv
  <1>2. SettingsIInv /\ [SettingsNext]_settingsVars => SettingsIInv'
    BY SettingsKeysStep, ServingStep DEF SettingsIInv
  <1>. QED  BY <1>1, <1>2, PTL DEF SettingsSpec

(* No interleaving of pages, terminal, key commands, account changes, jobs  *)
(* and restarts, of any number, loses a key that nobody's stale document    *)
(* wrote over, or leaves a bridge at rest serving something else than what  *)
(* one started from its file would (updateConfig, the settings page, `key`  *)
(* and `settings`).                                                         *)
THEOREM SettingsOutliveEdits == SettingsSpec => []SettingsOutlive
  <1>1. SettingsIInv => SettingsOutlive
    <2>. SUFFICES ASSUME SettingsIInv PROVE SettingsOutlive
      OBVIOUS
    <2>1. RestartIsInvisible
      BY ServedAsStarted DEF SettingsIInv
    <2>2. SettingsTypeOK
      BY DEF SettingsIInv, SettingsShape, SettingsTypeOK, IsDocument, Stages
    <2>3. KeysOutlive /\ ServiceKeysOutlive
      BY DEF SettingsIInv, KeysInv
    <2>. QED  BY <2>1, <2>2, <2>3 DEF SettingsOutlive, NothingIsLost
  <1>. QED  BY <1>1, SettingsStay, PTL
=============================================================================
