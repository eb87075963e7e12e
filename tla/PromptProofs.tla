----------------------------- MODULE PromptProofs -----------------------------
(***************************************************************************)
(* Proofs about Prompt, for every size of messages and every budget.       *)
(*                                                                         *)
(* Sums and walks are functions defined by recursion on a number: that     *)
(* they exist and how one value follows from the other is a case of module *)
(* Recursion, what they come to is proved by induction (SetInduction).     *)
(***************************************************************************)
EXTENDS Prompt, Recursion, TLAPS

-----------------------------------------------------------------------------
(* Sums.                                                                   *)

Adds(ns) == [p \in (1 .. Len(ns)) \X Nat |-> p[2] + ns[Len(ns) + 1 - p[1]]]

LEMMA SumsFollow ==
  ASSUME NEW ns \in Seq(Nat)
  PROVE  /\ Sums(ns) \in [0 .. Len(ns) -> Nat]
         /\ Follows(Sums(ns), Len(ns), 0, Adds(ns))
<1> DEFINE n == Len(ns)
           next(f) == [i \in 0 .. n |-> IF i = 0 THEN 0 ELSE f[i - 1] + ns[n + 1 - i]]
<1>1. n \in Nat /\ Adds(ns) \in [(1 .. n) \X Nat -> Nat]
  BY DEF Adds
<1>2. PICK f \in [0 .. n -> Nat] : Follows(f, n, 0, Adds(ns))
  BY <1>1, RecursionExists
<1>3. f = next(f)
  <2>1. ASSUME NEW i \in 1 .. n PROVE f[i] = f[i - 1] + ns[n + 1 - i]
    <3>1. f[i] = Adds(ns)[<<i, f[i - 1]>>]
      BY <1>2 DEF Follows
    <3>2. <<i, f[i - 1]>> \in (1 .. n) \X Nat
      <4>1. i - 1 \in 0 .. n
        BY <1>1
      <4>2. f[i - 1] \in Nat
        BY <1>2, <4>1
      <4> QED
        BY <4>2
    <3> QED
      BY <3>1, <3>2 DEF Adds
  <2>2. f[0] = 0
    BY <1>2 DEF Follows
  <2>3. \A i \in 0 .. n : f[i] = next(f)[i]
    BY <2>1, <2>2
  <2> QED
    BY <1>2, <2>3
<1>4. PICK sum : sum = Sums(ns)
  OBVIOUS
<1>5. sum = next(sum)
  BY <1>3, <1>4, Zenon DEF Sums
<1>6. sum[0] = 0 /\ \A i \in 1 .. n : sum[i] = sum[i - 1] + ns[n + 1 - i]
  <2>1. /\ 0 \in 0 .. n /\ \A i \in 1 .. n : i \in 0 .. n /\ i # 0
    BY <1>1
  <2>2. \A i \in 0 .. n : sum[i] = IF i = 0 THEN 0 ELSE sum[i - 1] + ns[n + 1 - i]
    BY <1>5, Zenon
  <2> QED
    BY <2>1, <2>2
<1>7. \A i \in 0 .. n : sum[i] \in Nat
  <2> DEFINE S == {m \in Nat : m <= n => sum[m] \in Nat}
  <2>1. 0 \in S
    BY <1>6
  <2>2. ASSUME NEW m \in Nat, m \in S PROVE m + 1 \in S
    <3> SUFFICES ASSUME m + 1 <= n PROVE sum[m + 1] \in Nat
      OBVIOUS
    <3>1. sum[m] \in Nat /\ m + 1 \in 1 .. n /\ (m + 1) - 1 = m
      BY <2>2
    <3>2. ns[n + 1 - (m + 1)] \in Nat
      OBVIOUS
    <3> QED
      BY <1>6, <3>1, <3>2
  <2>3. Nat \subseteq S
    BY <2>1, <2>2, SetInduction
  <2> QED
    BY <2>3
<1>8. sum \in [0 .. n -> Nat]
  <2>1. sum = [i \in 0 .. n |-> sum[i]]
    BY <1>5, Zenon
  <2> QED
    BY <1>7, <2>1
<1>9. Follows(sum, n, 0, Adds(ns))
  <2>1. ASSUME NEW i \in 1 .. n PROVE sum[i] = Adds(ns)[<<i, sum[i - 1]>>]
    <3>1. <<i, sum[i - 1]>> \in (1 .. n) \X Nat
      BY <1>1, <1>7
    <3> QED
      BY <1>6, <3>1 DEF Adds
  <2> QED
    BY <1>6, <2>1 DEF Follows
<1> QED
  BY <1>4, <1>8, <1>9

(* What a sum is made of, without its making.                              *)
LEMMA SumsStep ==
  ASSUME NEW ns \in Seq(Nat)
  PROVE  /\ \A i \in 0 .. Len(ns) : Sums(ns)[i] \in Nat
         /\ Sums(ns)[0] = 0
         /\ \A i \in 1 .. Len(ns) :
              /\ Sums(ns)[i] = Sums(ns)[i - 1] + ns[Len(ns) + 1 - i]
              /\ Sums(ns)[i - 1] <= Sums(ns)[i]
<1>1. \A i \in 0 .. Len(ns) : Sums(ns)[i] \in Nat
  BY SumsFollow
<1>2. Sums(ns)[0] = 0
  BY SumsFollow DEF Follows
<1>3. ASSUME NEW i \in 1 .. Len(ns)
      PROVE  /\ Sums(ns)[i] = Sums(ns)[i - 1] + ns[Len(ns) + 1 - i]
             /\ Sums(ns)[i - 1] <= Sums(ns)[i]
  <2>1. i \in 0 .. Len(ns) /\ i - 1 \in 0 .. Len(ns) /\ ns[Len(ns) + 1 - i] \in Nat
    OBVIOUS
  <2>2. <<i, Sums(ns)[i - 1]>> \in (1 .. Len(ns)) \X Nat
    BY <1>1, <2>1
  <2>3. Sums(ns)[i] = Adds(ns)[<<i, Sums(ns)[i - 1]>>]
    BY SumsFollow DEF Follows
  <2>4. Sums(ns)[i] = Sums(ns)[i - 1] + ns[Len(ns) + 1 - i]
    BY <2>2, <2>3 DEF Adds
  <2> QED
    BY <1>1, <2>1, <2>4
<1> QED
  BY <1>1, <1>2, <1>3

LEMMA SumsGrow ==
  ASSUME NEW ns \in Seq(Nat), NEW i \in 0 .. Len(ns), NEW j \in 0 .. Len(ns), i <= j
  PROVE  Sums(ns)[i] <= Sums(ns)[j]
<1> DEFINE S == {m \in Nat : i + m <= Len(ns) => Sums(ns)[i] <= Sums(ns)[i + m]}
<1>1. 0 \in S
  BY SumsStep
<1>2. ASSUME NEW m \in Nat, m \in S PROVE m + 1 \in S
  <2> SUFFICES ASSUME i + (m + 1) <= Len(ns)
               PROVE  Sums(ns)[i] <= Sums(ns)[i + (m + 1)]
    OBVIOUS
  <2>1. PICK k \in 1 .. Len(ns) : k = i + (m + 1) /\ k - 1 = i + m
    OBVIOUS
  <2>2. Sums(ns)[i] <= Sums(ns)[k - 1]
    BY <1>2, <2>1
  <2>3. /\ Sums(ns)[k - 1] <= Sums(ns)[k]
        /\ Sums(ns)[i] \in Nat /\ Sums(ns)[k - 1] \in Nat /\ Sums(ns)[k] \in Nat
    <3>1. k \in 0 .. Len(ns) /\ k - 1 \in 0 .. Len(ns)
      OBVIOUS
    <3> QED
      BY <3>1, SumsStep
  <2> QED
    BY <2>1, <2>2, <2>3
<1>3. Nat \subseteq S
  BY <1>1, <1>2, SetInduction
<1>4. j - i \in Nat /\ i + (j - i) = j /\ i + (j - i) <= Len(ns)
  OBVIOUS
<1>5. Sums(ns)[i] <= Sums(ns)[i + (j - i)]
  BY <1>3, <1>4
<1> QED
  BY <1>4, <1>5

(* The end of a history is a history, of the same sizes.                   *)
LEMMA SuffixFacts ==
  ASSUME NEW h \in Seq(Messages), NEW k \in 0 .. Len(h)
  PROVE  /\ Suffix(h, k) \in Seq(Messages) /\ Len(Suffix(h, k)) = k
         /\ \A i \in 1 .. k : Suffix(h, k)[i] = h[Len(h) - k + i]
  BY DEF Suffix

LEMMA SizesOfFacts ==
  ASSUME NEW h \in Seq(Messages)
  PROVE  /\ SizesOf(h) \in Seq(Nat) /\ Len(SizesOf(h)) = Len(h)
         /\ \A i \in 1 .. Len(h) : SizesOf(h)[i] = h[i].size
<1>1. ASSUME NEW i \in 1 .. Len(h) PROVE h[i].size \in Nat
  <2>1. h[i] \in Messages
    OBVIOUS
  <2> QED
    BY <2>1 DEF Messages
<1> QED
  BY <1>1 DEF SizesOf

(* What the last k messages come to is one of the sums of the whole.       *)
LEMMA TokensOfSuffix ==
  ASSUME NEW h \in Seq(Messages), NEW k \in 0 .. Len(h)
  PROVE  Tokens(Suffix(h, k)) = Sums(SizesOf(h))[k]
<1>1. PICK e \in Seq(Messages) : e = Suffix(h, k)
  BY SuffixFacts
<1>2. Len(e) = k /\ \A i \in 1 .. k : e[i] = h[Len(h) - k + i]
  BY <1>1, SuffixFacts
<1>3. PICK a \in Seq(Nat) : a = SizesOf(h)
  BY SizesOfFacts
<1>4. PICK b \in Seq(Nat) : b = SizesOf(e)
  BY SizesOfFacts
<1>5. Len(a) = Len(h) /\ Len(b) = k
  BY <1>2, <1>3, <1>4, SizesOfFacts
<1>6. ASSUME NEW i \in 1 .. k PROVE b[k + 1 - i] = a[Len(h) + 1 - i]
  <2>1. k + 1 - i \in 1 .. k /\ Len(h) + 1 - i \in 1 .. Len(h)
        /\ Len(h) - k + (k + 1 - i) = Len(h) + 1 - i
    OBVIOUS
  <2>2. e[k + 1 - i] = h[Len(h) + 1 - i]
    BY <1>2, <2>1
  <2> QED
    BY <1>2, <1>3, <1>4, <2>1, <2>2, SizesOfFacts
<1> DEFINE S == {m \in Nat : m <= k => Sums(b)[m] = Sums(a)[m]}
<1>7. 0 \in S
  BY SumsStep
<1>8. ASSUME NEW m \in Nat, m \in S PROVE m + 1 \in S
  <2> SUFFICES ASSUME m + 1 <= k PROVE Sums(b)[m + 1] = Sums(a)[m + 1]
    OBVIOUS
  <2>1. PICK i \in 1 .. k : i = m + 1 /\ i - 1 = m
    OBVIOUS
  <2>2. i \in 1 .. Len(a) /\ i \in 1 .. Len(b)
    BY <1>5
  <2>3. /\ Sums(b)[i] = Sums(b)[i - 1] + b[k + 1 - i]
        /\ Sums(a)[i] = Sums(a)[i - 1] + a[Len(h) + 1 - i]
    BY <1>5, <2>2, SumsStep
  <2>4. Sums(b)[i - 1] = Sums(a)[i - 1]
    BY <1>8, <2>1
  <2>5. b[k + 1 - i] = a[Len(h) + 1 - i]
    BY <1>6
  <2> QED
    BY <2>1, <2>3, <2>4, <2>5
<1>9. Nat \subseteq S
  BY <1>7, <1>8, SetInduction
<1>10. Sums(b)[k] = Sums(a)[k]
  BY <1>9
<1> QED
  BY <1>1, <1>3, <1>4, <1>5, <1>10 DEF Tokens, Total

-----------------------------------------------------------------------------
(* Windows.                                                                *)

Walks == [kept : Seq(Messages), used : Nat, full : BOOLEAN]
Start0 == [kept |-> <<>>, used |-> 0, full |-> FALSE]

(* What a step of the walk makes of it.                                    *)
LEMMA KeepFacts ==
  ASSUME NEW w \in Walks, NEW m \in Messages, NEW budget \in Nat
  PROVE  /\ Keep(w, m, budget) \in Walks
         /\ w.full \/ (w.kept # <<>> /\ w.used + m.size > budget) =>
              /\ Keep(w, m, budget).full
              /\ Keep(w, m, budget).kept = w.kept
              /\ Keep(w, m, budget).used = w.used
         /\ ~(w.full \/ (w.kept # <<>> /\ w.used + m.size > budget)) =>
              /\ ~Keep(w, m, budget).full
              /\ Keep(w, m, budget).kept = <<m>> \o w.kept
              /\ Keep(w, m, budget).used = w.used + m.size
<1>1. m.size \in Nat /\ w.used + m.size \in Nat /\ <<m>> \o w.kept \in Seq(Messages)
  BY DEF Messages, Walks
<1>2. CASE w.full \/ (w.kept # <<>> /\ w.used + m.size > budget)
  <2>1. Keep(w, m, budget) = [w EXCEPT !.full = TRUE]
    BY <1>2 DEF Keep
  <2> QED
    BY <1>2, <2>1 DEF Walks
<1>3. CASE ~(w.full \/ (w.kept # <<>> /\ w.used + m.size > budget))
  <2>1. Keep(w, m, budget) =
          [w EXCEPT !.kept = <<m>> \o @, !.used = @ + m.size]
    BY <1>3 DEF Keep
  <2> QED
    BY <1>1, <1>3, <2>1 DEF Walks
<1> QED
  BY <1>2, <1>3

Keeps(h, budget) ==
  [p \in (1 .. Len(h)) \X Walks |-> Keep(p[2], h[Len(h) + 1 - p[1]], budget)]

LEMMA WalkFollows ==
  ASSUME NEW h \in Seq(Messages), NEW budget \in Nat
  PROVE  /\ \A i \in 0 .. Len(h) : Walk(h, budget)[i] \in Walks
         /\ Walk(h, budget)[0] = Start0
         /\ \A i \in 1 .. Len(h) :
              Walk(h, budget)[i] =
                Keep(Walk(h, budget)[i - 1], h[Len(h) + 1 - i], budget)
<1> DEFINE n == Len(h)
           next(f) == [i \in 0 .. n |->
                         IF i = 0 THEN Start0
                                  ELSE Keep(f[i - 1], h[n + 1 - i], budget)]
<1>1. n \in Nat /\ Start0 \in Walks
  BY DEF Start0, Walks
<1>2. \A i \in 1 .. n : n + 1 - i \in 1 .. n /\ h[n + 1 - i] \in Messages
  OBVIOUS
<1>3. Keeps(h, budget) \in [(1 .. n) \X Walks -> Walks]
  <2>1. ASSUME NEW p \in (1 .. n) \X Walks
        PROVE  Keep(p[2], h[n + 1 - p[1]], budget) \in Walks
    BY <1>2, KeepFacts
  <2> QED
    BY <2>1 DEF Keeps
<1>4. PICK f \in [0 .. n -> Walks] : Follows(f, n, Start0, Keeps(h, budget))
  BY <1>1, <1>3, RecursionExists
<1>5. f = next(f)
  <2>1. ASSUME NEW i \in 1 .. n PROVE f[i] = Keep(f[i - 1], h[n + 1 - i], budget)
    <3>1. f[i] = Keeps(h, budget)[<<i, f[i - 1]>>]
      BY <1>4 DEF Follows
    <3>2. i - 1 \in 0 .. n
      BY <1>1
    <3>3. <<i, f[i - 1]>> \in (1 .. n) \X Walks
      BY <1>4, <3>2
    <3> QED
      BY <3>1, <3>3 DEF Keeps
  <2>2. f[0] = Start0
    BY <1>4 DEF Follows
  <2>3. \A i \in 0 .. n : f[i] = next(f)[i]
    BY <2>1, <2>2
  <2> QED
    BY <1>4, <2>3
<1>6. PICK walk : walk = Walk(h, budget)
  OBVIOUS
<1>7. walk = next(walk)
  BY <1>5, <1>6, Zenon DEF Walk, Start0
<1>8. /\ walk[0] = Start0
      /\ \A i \in 1 .. n : walk[i] = Keep(walk[i - 1], h[n + 1 - i], budget)
  <2>1. 0 \in 0 .. n /\ \A i \in 1 .. n : i \in 0 .. n /\ i # 0
    BY <1>1
  <2>2. \A i \in 0 .. n : walk[i] = IF i = 0 THEN Start0
                                    ELSE Keep(walk[i - 1], h[n + 1 - i], budget)
    BY <1>7, Zenon
  <2> QED
    BY <2>1, <2>2
<1>9. \A i \in 0 .. n : walk[i] \in Walks
  <2> DEFINE S == {m \in Nat : m <= n => walk[m] \in Walks}
  <2>1. 0 \in S
    BY <1>1, <1>8
  <2>2. ASSUME NEW m \in Nat, m \in S PROVE m + 1 \in S
    <3> SUFFICES ASSUME m + 1 <= n PROVE walk[m + 1] \in Walks
      OBVIOUS
    <3>1. PICK i \in 1 .. n : i = m + 1 /\ i - 1 = m
      OBVIOUS
    <3>2. walk[i - 1] \in Walks
      BY <2>2, <3>1
    <3>3. Keep(walk[i - 1], h[n + 1 - i], budget) \in Walks
      BY <1>2, <3>2, KeepFacts
    <3> QED
      BY <1>8, <3>1, <3>3
  <2>3. Nat \subseteq S
    BY <2>1, <2>2, SetInduction
  <2> QED
    BY <2>3
<1> QED
  BY <1>6, <1>8, <1>9

LEMMA SuffixLonger ==
  ASSUME NEW h \in Seq(Messages), NEW k \in 0 .. Len(h) - 1
  PROVE  <<h[Len(h) - k]>> \o Suffix(h, k) = Suffix(h, k + 1)
<1> DEFINE a == <<h[Len(h) - k]>> \o Suffix(h, k)
           b == Suffix(h, k + 1)
<1>1. k \in 0 .. Len(h) /\ k + 1 \in 0 .. Len(h) /\ h[Len(h) - k] \in Messages
  OBVIOUS
<1>2. /\ Suffix(h, k) \in Seq(Messages) /\ Len(Suffix(h, k)) = k
      /\ \A i \in 1 .. k : Suffix(h, k)[i] = h[Len(h) - k + i]
      /\ b \in Seq(Messages) /\ Len(b) = k + 1
      /\ \A i \in 1 .. k + 1 : b[i] = h[Len(h) - (k + 1) + i]
  BY <1>1, SuffixFacts
<1>3. PICK s \in Seq(Messages) : s = Suffix(h, k)
  BY <1>2
<1>4. PICK m \in Messages : m = h[Len(h) - k]
  BY <1>1
<1>5. a = <<m>> \o s
  BY <1>3, <1>4
<1>6. a \in Seq(Messages) /\ Len(a) = k + 1
      /\ a[1] = m /\ \A i \in 2 .. k + 1 : a[i] = s[i - 1]
  BY <1>2, <1>3, <1>5
<1> HIDE DEF a, b
<1>7. ASSUME NEW i \in 1 .. k + 1 PROVE a[i] = b[i]
  <2>1. CASE i = 1
    <3>1. Len(h) - (k + 1) + 1 = Len(h) - k
      BY <1>1
    <3> QED
      BY <1>2, <1>4, <1>6, <2>1, <3>1
  <2>2. CASE i \in 2 .. k + 1
    <3>1. i - 1 \in 1 .. k /\ Len(h) - k + (i - 1) = Len(h) - (k + 1) + i
      BY <1>1, <2>2
    <3> QED
      BY <1>2, <1>3, <1>6, <2>2, <3>1
  <2> QED
    BY <2>1, <2>2
<1>8. a = b
  BY <1>2, <1>6, <1>7
<1> QED
  BY <1>8 DEF a, b

(* After i messages the walk holds the last k of them. It went past them   *)
(* all, or it stopped at one that did not fit.                             *)
Reached(h, budget, w, i, k) ==
  /\ w.kept = Suffix(h, k) /\ w.used = Sums(SizesOf(h))[k]
  /\ k > 1 => Sums(SizesOf(h))[k] <= budget
  /\ w.full => k >= 1 /\ k < i /\ Sums(SizesOf(h))[k + 1] > budget
  /\ ~w.full => k = i

LEMMA WalkReaches ==
  ASSUME NEW h \in Seq(Messages), NEW budget \in Nat, NEW i \in 0 .. Len(h)
  PROVE  \E k \in 0 .. i : Reached(h, budget, Walk(h, budget)[i], i, k)
<1> DEFINE walk == Walk(h, budget)
           sums == Sums(SizesOf(h))
           S    == {m \in Nat : m <= Len(h) =>
                      \E k \in 0 .. m : Reached(h, budget, walk[m], m, k)}
<1>1. 0 \in S
  <2>1. Suffix(h, 0) = <<>>
    BY SuffixFacts
  <2>2. walk[0] = Start0 /\ sums[0] = 0
    BY WalkFollows, SizesOfFacts, SumsStep
  <2>3. Reached(h, budget, walk[0], 0, 0)
    BY <2>1, <2>2 DEF Reached, Start0
  <2> QED
    BY <2>3
<1>2. ASSUME NEW m \in Nat, m \in S PROVE m + 1 \in S
  <2> SUFFICES ASSUME m + 1 <= Len(h)
               PROVE  \E k \in 0 .. m + 1 : Reached(h, budget, walk[m + 1], m + 1, k)
    OBVIOUS
  <2>1. PICK k \in 0 .. m : Reached(h, budget, walk[m], m, k)
    BY <1>2
  <2>2. PICK w \in Walks : w = walk[m]
    <3>1. m \in 0 .. Len(h)
      OBVIOUS
    <3> QED
      BY <3>1, WalkFollows
  <2>3. PICK msg \in Messages : msg = h[Len(h) - m]
    OBVIOUS
  <2>4. PICK v \in Walks : v = walk[m + 1]
    <3>1. m + 1 \in 0 .. Len(h)
      OBVIOUS
    <3> QED
      BY <3>1, WalkFollows
  <2>5. v = Keep(w, msg, budget)
    <3>1. PICK j \in 1 .. Len(h) : j = m + 1 /\ j - 1 = m /\ Len(h) + 1 - j = Len(h) - m
      OBVIOUS
    <3>2. walk[j] = Keep(walk[j - 1], h[Len(h) + 1 - j], budget)
      BY WalkFollows
    <3> QED
      BY <2>2, <2>3, <2>4, <3>1, <3>2
  <2>6. w.used \in Nat /\ msg.size \in Nat /\ w.full \in BOOLEAN
    BY <2>2, <2>3 DEF Walks, Messages
  <2>7. CASE w.full
    <3>1. v.full /\ v.kept = w.kept /\ v.used = w.used
      BY <2>5, <2>7, KeepFacts
    <3>2. Reached(h, budget, v, m + 1, k)
      BY <2>1, <2>2, <2>7, <3>1 DEF Reached
    <3> QED
      BY <2>4, <3>2
  <2>8. CASE ~w.full
    <3>1. k = m /\ w.kept = Suffix(h, m) /\ w.used = sums[m]
      BY <2>1, <2>2, <2>8 DEF Reached
    <3>2. w.kept # <<>> <=> m >= 1
      <4>1. m \in 0 .. Len(h)
        OBVIOUS
      <4>2. Len(w.kept) = m /\ w.kept \in Seq(Messages)
        BY <3>1, <4>1, SuffixFacts
      <4> QED
        BY <4>2
    <3>3. sums[m + 1] = w.used + msg.size
      <4>1. PICK j \in 1 .. Len(h) : j = m + 1 /\ j - 1 = m /\ Len(h) + 1 - j = Len(h) - m
        OBVIOUS
      <4>2. sums[j] = sums[j - 1] + SizesOf(h)[Len(h) + 1 - j]
        BY SizesOfFacts, SumsStep
      <4>3. SizesOf(h)[Len(h) + 1 - j] = msg.size
        <5>1. Len(h) + 1 - j \in 1 .. Len(h)
          OBVIOUS
        <5> QED
          BY <2>3, <4>1, <5>1, SizesOfFacts
      <4> QED
        BY <3>1, <4>1, <4>2, <4>3
    <3>4. CASE w.kept # <<>> /\ w.used + msg.size > budget
      <4>1. v.full /\ v.kept = w.kept /\ v.used = w.used
        BY <2>5, <3>4, KeepFacts
      <4>2. Reached(h, budget, v, m + 1, k)
        BY <2>1, <2>2, <3>1, <3>2, <3>3, <3>4, <4>1 DEF Reached
      <4> QED
        BY <2>4, <4>2
    <3>5. CASE ~(w.kept # <<>> /\ w.used + msg.size > budget)
      <4>1. ~v.full /\ v.kept = <<msg>> \o w.kept /\ v.used = w.used + msg.size
        BY <2>5, <2>8, <3>5, KeepFacts
      <4>2. v.kept = Suffix(h, m + 1)
        <5>1. m \in 0 .. Len(h) - 1
          OBVIOUS
        <5> QED
          BY <2>3, <3>1, <4>1, <5>1, SuffixLonger
      <4>3. m + 1 > 1 => sums[m + 1] <= budget
        BY <2>6, <3>2, <3>3, <3>5
      <4>4. Reached(h, budget, v, m + 1, m + 1)
        BY <3>3, <4>1, <4>2, <4>3 DEF Reached
      <4> QED
        BY <2>4, <4>4
    <3> QED
      BY <3>4, <3>5
  <2> QED
    BY <2>6, <2>7, <2>8
<1>3. Nat \subseteq S
  BY <1>1, <1>2, SetInduction
<1> QED
  BY <1>3

(* A window is the longest end of the history that fits, and if there is   *)
(* a message at all, there is one in the window.                           *)
LEMMA WindowIs ==
  ASSUME NEW h \in Seq(Messages), NEW budget \in Nat
  PROVE  \E k \in 0 .. Len(h) :
           /\ Window(h, budget) = Suffix(h, k)
           /\ k = 0 => h = <<>>
           /\ k > 1 => Tokens(Suffix(h, k)) <= budget
           /\ \A l \in 1 .. Len(h) :
                l = 1 \/ Tokens(Suffix(h, l)) <= budget => l <= k
<1> DEFINE sums == Sums(SizesOf(h))
<1>1. PICK w \in Walks : w = Walk(h, budget)[Len(h)]
  BY WalkFollows
<1>2. PICK k \in 0 .. Len(h) : Reached(h, budget, w, Len(h), k)
  BY <1>1, WalkReaches
<1>3. Window(h, budget) = Suffix(h, k)
  BY <1>1, <1>2 DEF Window, Reached
<1>4. w.full \in BOOLEAN
  BY <1>1 DEF Walks
<1>5. k = 0 => h = <<>>
  <2>1. k = 0 => Len(h) = 0
    BY <1>2, <1>4 DEF Reached
  <2> QED
    BY <2>1
<1>6. \A l \in 0 .. Len(h) : Tokens(Suffix(h, l)) = sums[l] /\ sums[l] \in Nat
  BY TokensOfSuffix, SizesOfFacts, SumsStep
<1>7. k > 1 => Tokens(Suffix(h, k)) <= budget
  BY <1>2, <1>6 DEF Reached
<1>8. ASSUME NEW l \in 1 .. Len(h), l = 1 \/ Tokens(Suffix(h, l)) <= budget
      PROVE  l <= k
  <2>1. CASE ~w.full
    BY <1>2, <2>1 DEF Reached
  <2>2. CASE w.full
    <3>1. k >= 1 /\ k < Len(h) /\ sums[k + 1] > budget
      BY <1>2, <2>2 DEF Reached
    <3>2. SUFFICES ASSUME l > k PROVE FALSE
      OBVIOUS
    <3>3. k + 1 \in 0 .. Len(h) /\ l \in 0 .. Len(h) /\ k + 1 <= l /\ l # 1
      BY <3>1, <3>2
    <3>4. sums[k + 1] <= sums[l]
      BY <3>3, SizesOfFacts, SumsGrow
    <3>5. sums[l] <= budget /\ sums[l] \in Nat /\ sums[k + 1] \in Nat
      BY <1>6, <1>8, <3>3
    <3> QED
      BY <3>1, <3>4, <3>5
  <2> QED
    BY <1>4, <2>1, <2>2
<1> QED
  BY <1>3, <1>5, <1>7, <1>8

-----------------------------------------------------------------------------
(* Budgets, and type correctness.                                          *)

LEMMA Quotient ==
  ASSUME NEW a \in Nat, NEW d \in Nat, d > 0
  PROVE  a \div d \in Nat
  OBVIOUS

LEMMA SystemSizeType ==
  ASSUME NEW present
  PROVE  SystemSize(present) \in Nat
<1> DEFINE ns == [i \in 1 .. Len(Sections) |-> IF i \in present THEN Sections[i] ELSE 0]
<1>1. Base \in Nat /\ Sections \in Seq(Nat)
  BY SizeAssumption
<1>2. \A i \in 1 .. Len(Sections) : Sections[i] \in Nat
  BY <1>1
<1>3. ns \in Seq(Nat) /\ Len(ns) = Len(Sections)
  BY <1>1, <1>2
<1>4. Sums(ns)[Len(ns)] \in Nat
  <2>1. Len(ns) \in 0 .. Len(ns)
    BY <1>1, <1>3
  <2> QED
    BY <1>3, <2>1, SumsStep
<1>5. SystemSize(present) = Base + Sums(ns)[Len(ns)]
  BY DEF SystemSize, Total
<1> QED
  BY <1>1, <1>4, <1>5

LEMMA HttpBudgetFacts ==
  ASSUME NEW s \in Nat
  PROVE  /\ HttpBudget(s) \in Nat /\ HttpBudget(s) >= Floor
         /\ HttpBudget(s) >= Context - (Reserve + s + Margin)
         /\ HttpBudget(s) = Floor \/ HttpBudget(s) = Context - (Reserve + s + Margin)
  BY TokenAssumption DEF HttpBudget

LEMMA BudgetFacts ==
  ASSUME NEW agentic \in BOOLEAN, NEW system \in Nat
  PROVE  /\ Budget(agentic, system) \in Nat /\ Budget(agentic, 0) \in Nat
         /\ Trigger(agentic) \in Nat
         /\ system <= Budget(agentic, 0) - Trigger(agentic) =>
              Trigger(agentic) <= Budget(agentic, system)
<1>1. /\ Context \in Nat /\ Reserve \in Nat /\ Margin \in Nat /\ Floor \in Nat
      /\ CliBudget \in Nat
      /\ Parts \in Nat /\ TriggerTokens \in Nat /\ Of \in Nat /\ Of > 0
  BY TokenAssumption
<1>2. ASSUME NEW s \in Nat PROVE Budget(agentic, s) \in Nat
  BY <1>1, HttpBudgetFacts DEF Budget
<1>3. Trigger(agentic) \in Nat
  <2>1. Budget(agentic, 0) * Parts \in Nat
    BY <1>1, <1>2
  <2>2. (Budget(agentic, 0) * Parts) \div Of \in Nat
    BY <1>1, <2>1, Quotient
  <2> QED
    BY <1>1, <2>2 DEF Trigger
<1>4. ASSUME system <= Budget(agentic, 0) - Trigger(agentic)
      PROVE  Trigger(agentic) <= Budget(agentic, system)
  <2>1. PICK b, c, t \in Nat :
          b = Budget(agentic, 0) /\ c = Budget(agentic, system) /\ t = Trigger(agentic)
    BY <1>2, <1>3
  <2>2. system <= b - t
    BY <1>4, <2>1
  <2>3. CASE agentic
    <3>1. b = c
      BY <2>1, <2>3 DEF Budget
    <3> QED
      BY <2>1, <2>2, <3>1
  <2>4. CASE ~agentic
    <3>1. b = HttpBudget(0) /\ c = HttpBudget(system)
      BY <2>1, <2>4 DEF Budget
    <3>2. /\ b = Floor \/ b = Context - (Reserve + 0 + Margin)
          /\ c >= Floor /\ c >= Context - (Reserve + system + Margin)
      BY <3>1, HttpBudgetFacts
    <3> QED
      BY <1>1, <2>1, <2>2, <3>2
  <2> QED
    BY <2>3, <2>4
<1> QED
  BY <1>2, <1>3, <1>4

LEMMA WindowType ==
  ASSUME NEW h \in Seq(Messages), NEW budget \in Nat
  PROVE  Window(h, budget) \in Seq(Messages)
  BY WindowIs, SuffixFacts

(* What is made of sizes and numbers is a message.                         *)
LEMMA MessageFacts ==
  /\ \A size \in Sizes : size \in Nat
  /\ \A id \in Nat, size \in Nat :
       Message("question", id, size) \in Messages /\ Message("upload", id, size) \in Messages
  /\ \A size \in Nat : Reply(size) \in Messages /\ Summary(size) \in Messages
  /\ NoTurn \in Messages /\ Free \in WorkerType
<1>1. \A size \in Sizes : size \in Nat
  BY SizeAssumption
<1>2. NoTurn \in Messages
  BY DEF NoTurn, Message, Messages
<1>3. Free \in WorkerType
  BY <1>2 DEF Free, WorkerType
<1> QED
  BY <1>1, <1>2, <1>3 DEF Message, Messages, Reply, Summary

LEMMA PromptTypeStep ==
  ASSUME TypeOK, [Next]_vars
  PROVE  TypeOK'
<1> USE DEF TypeOK
<1>1. ASSUME NEW what \in {"upload", "cleared", "reply", "rewritten"}, Note(what)
      PROVE  worker' \in WorkerType
  BY <1>1 DEF Note, WorkerType
<1>2. ASSUME NEW n \in Sizes, Ask(n) \/ Upload(n) \/ Rewrite(n)
      PROVE  TypeOK'
  <2>0. n \in Nat
    BY <1>2, MessageFacts
  <2>1. CASE Ask(n)
    <3>1. arrived' \in 0 .. MaxArrivals /\ arrived' \in Nat
      BY <2>1, TokenAssumption DEF Ask
    <3>2. Message("question", arrived', n) \in Messages
      BY <2>0, <3>1, MessageFacts
    <3> QED
      BY <2>1, <3>1, <3>2 DEF Ask
  <2>2. CASE Upload(n)
    <3>1. arrived' \in 0 .. MaxArrivals /\ arrived' \in Nat
      BY <2>2, TokenAssumption DEF Upload
    <3>2. Message("upload", arrived', n) \in Messages
      BY <2>0, <3>1, MessageFacts
    <3> QED
      BY <2>2, <3>1, <3>2 DEF Upload
  <2>3. CASE Rewrite(n)
    <3>1. Summary(n) \in Messages /\ compaction.recent \in Seq(Messages)
      BY <2>0, MessageFacts
    <3>2. history' \in Seq(Messages)
      BY <2>3, <3>1 DEF Rewrite
    <3>3. compaction' \in [on : BOOLEAN, recent : Seq(Messages)]
      BY <2>3 DEF Rewrite, Off
    <3> QED
      BY <1>1, <2>3, <3>2, <3>3 DEF Rewrite
  <2> QED
    BY <1>2, <2>1, <2>2, <2>3
<1>3. CASE Look
  BY <1>3 DEF Look
<1>4. ASSUME NEW saved \in BOOLEAN, RecordUpload(saved)
      PROVE  TypeOK'
  <2>1. history' = Append(history, handler.upload) \/ history' = history
    BY <1>4 DEF RecordUpload
  <2>2. history' \in Seq(Messages)
    <3>1. PICK h \in Seq(Messages), m \in Messages : h = history /\ m = handler.upload
      OBVIOUS
    <3>2. Append(h, m) \in Seq(Messages)
      OBVIOUS
    <3> QED
      BY <2>1, <3>1, <3>2, Zenon
  <2>3. AtRest.at = "idle" /\ AtRest.upload \in Messages
        /\ AtRest = [at |-> AtRest.at, upload |-> AtRest.upload]
    BY MessageFacts DEF AtRest
  <2>4. worker' \in WorkerType
    BY <1>1, <1>4 DEF RecordUpload
  <2> QED
    BY <1>4, <2>2, <2>3, <2>4 DEF RecordUpload
<1>5. CASE QueueUpload
  <2>1. AtRest.at = "idle" /\ AtRest.upload \in Messages
        /\ AtRest = [at |-> AtRest.at, upload |-> AtRest.upload]
    BY MessageFacts DEF AtRest
  <2> QED
    BY <1>5, <2>1 DEF QueueUpload
<1>6. CASE Clear
  BY <1>1, <1>6 DEF Clear
<1>7. CASE Take
  <2>1. Head(queue) \in Messages /\ Tail(queue) \in Seq(Messages)
    BY <1>7 DEF Take
  <2>2. worker' \in WorkerType
    BY <1>7, <2>1, MessageFacts DEF Take, WorkerType
  <2> QED
    BY <1>7, <2>1, <2>2 DEF Take
<1>8. ASSUME NEW saved \in BOOLEAN, Record(saved)
      PROVE  TypeOK'
  <2>1. worker.turn \in Messages /\ worker' \in WorkerType
    BY <1>8 DEF Record, WorkerType
  <2>2. history' \in Seq(Messages)
    BY <1>8, <2>1 DEF Record
  <2> QED
    BY <1>8, <2>1, <2>2 DEF Record
<1>9. CASE LetGo
  BY <1>9, MessageFacts DEF LetGo
<1>10. ASSUME NEW present, NEW agentic \in BOOLEAN, TakeWindow(present, agentic)
       PROVE  TypeOK'
  <2>1. PICK system \in Nat : system = SystemSize(present)
    BY SystemSizeType
  <2>2. PICK seen \in Seq(Messages) : seen = Window(history, Budget(agentic, system))
    BY BudgetFacts, WindowType
  <2>3. worker' = [worker EXCEPT !.at = "windowed", !.agentic = agentic,
                                 !.system = system, !.seen = history,
                                 !.prompt = seen]
    BY <1>10, <2>1, <2>2 DEF TakeWindow
  <2>4. worker' \in WorkerType
    BY <2>3 DEF WorkerType
  <2> QED
    BY <1>10, <2>4 DEF TakeWindow
<1>11. ASSUME NEW mode \in Modes, Start(mode)
       PROVE  TypeOK'
  <2>1. worker.turn \in Messages /\ worker.agentic \in BOOLEAN
    BY DEF WorkerType
  <2>2. worker' \in WorkerType
    <3>1. [Free EXCEPT !.at = mode, !.turn = worker.turn] \in WorkerType
      BY <2>1, MessageFacts DEF WorkerType
    <3> QED
      BY <1>11, <3>1, MessageFacts DEF Start
  <2>3. PICK j \in [turn : Messages, agentic : BOOLEAN, replied : BOOLEAN] :
          j = [turn |-> worker.turn, agentic |-> worker.agentic, replied |-> FALSE]
    BY <2>1
  <2>4. jobs' = jobs \cup {j}
    BY <1>11, <2>3 DEF Start
  <2>5. UNCHANGED <<arrived, handler, queue, history, stale, due, compaction>>
    BY <1>11 DEF Start
  <2> QED
    BY <2>2, <2>4, <2>5
<1>12. ASSUME NEW j \in jobs, NEW agentic \in BOOLEAN, EndJob(j, agentic)
       PROVE  TypeOK'
  <2>1. due' \in BOOLEAN
    BY <1>12 DEF EndJob
  <2> QED
    BY <1>12, <2>1 DEF EndJob
<1>12a. ASSUME NEW j \in jobs, Panic(j) \/ Cancel(j)
        PROVE  TypeOK'
  BY <1>12a DEF Panic, Cancel
<1>12b. CASE CancelStale
  BY <1>12b DEF CancelStale
<1>13. ASSUME NEW j \in jobs, NEW n \in Sizes, RecordReply(j, n)
       PROVE  TypeOK'
  <2>1. Reply(n) \in Messages
    BY <1>13, MessageFacts
  <2>2. PICK k \in [turn : Messages, agentic : BOOLEAN, replied : BOOLEAN] :
          k = [j EXCEPT !.replied = TRUE]
    BY <1>13
  <2>3. jobs' = (jobs \ {j}) \cup {k} /\ history' = Append(history, Reply(n))
        /\ UNCHANGED <<arrived, handler, queue, stale, due, compaction>>
    BY <1>13, <2>2 DEF RecordReply
  <2>4. worker' \in WorkerType
    BY <1>1, <1>13 DEF RecordReply
  <2> QED
    BY <2>1, <2>3, <2>4
<1>14. CASE Compact
  <2>1. Len(history) > KeepRecent =>
          SubSeq(history, Len(history) - KeepRecent + 1, Len(history)) \in Seq(Messages)
    BY TokenAssumption
  <2> QED
    BY <1>14, <2>1 DEF Compact
<1>15. CASE GiveUp
  BY <1>15 DEF GiveUp, Off
<1>16. CASE UNCHANGED vars
  BY <1>16 DEF vars
<1> HIDE DEF TypeOK
<1> QED
  BY <1>2, <1>3, <1>4, <1>5, <1>6, <1>7, <1>8, <1>9, <1>10, <1>11, <1>12, <1>12a,
     <1>12b, <1>13, <1>14, <1>15, <1>16 DEF Next, Rest

LEMMA PromptTypeInit == Init => TypeOK
<1> SUFFICES ASSUME Init PROVE TypeOK
  OBVIOUS
<1>1. handler \in [at : {"idle", "fetching", "recording", "queueing"}, upload : Messages]
  BY MessageFacts DEF Init, AtRest
<1>2. compaction \in [on : BOOLEAN, recent : Seq(Messages)]
  BY DEF Init, Off
<1>3. arrived \in 0 .. MaxArrivals
  BY TokenAssumption DEF Init
<1>4. worker \in WorkerType
  BY MessageFacts DEF Init
<1>5. queue = <<>> /\ history = <<>> /\ due = FALSE /\ jobs = {} /\ stale = 0
  BY DEF Init
<1>6. <<>> \in Seq(Messages) /\ FALSE \in BOOLEAN
  OBVIOUS
<1> QED
  BY <1>1, <1>2, <1>3, <1>4, <1>5, <1>6 DEF TypeOK

-----------------------------------------------------------------------------
(* The order of arrival.                                                   *)

(* The messages on their way are numbered in the order in which they will  *)
(* be recorded: the turn at the worker, the queue, the upload at the sync  *)
(* loop.                                                                   *)
LineInv ==
  /\ \A q \in 1 .. Len(queue) :
       /\ queue[q].id \in 1 .. arrived
       /\ \A p \in 1 .. q - 1 : queue[p].id < queue[q].id
  /\ worker.at = "taken" =>
       /\ worker.turn.id \in 1 .. arrived
       /\ \A q \in 1 .. Len(queue) : worker.turn.id < queue[q].id
  /\ handler.at # "idle" =>
       /\ handler.upload.kind = "upload" /\ handler.upload.id \in 1 .. arrived
       /\ \A q \in 1 .. Len(queue) : queue[q].id < handler.upload.id
       /\ worker.at = "taken" => worker.turn.id < handler.upload.id

(* The numbers of the messages that are not recorded yet.                  *)
Coming(id) ==
  \/ id > arrived
  \/ \E q \in 1 .. Len(queue) : queue[q].id = id
  \/ worker.at = "taken" /\ worker.turn.id = id
  \/ handler.at # "idle" /\ handler.upload.id = id

InOrder(s) ==
  \A i, j \in 1 .. Len(s) :
    i < j /\ s[j].id # 0 /\ s[i].id > s[j].id => s[i].kind = "upload"

(* But for uploads, all of s was sent before the message.                  *)
Before(s, id) == \A i \in 1 .. Len(s) : s[i].kind # "upload" => s[i].id < id

(* What is recorded, or put aside by a compaction, was sent before all     *)
(* that is on its way.                                                     *)
Sorted(s) == InOrder(s) /\ \A id \in Nat : Coming(id) => Before(s, id)

OrderInv == LineInv /\ Sorted(history) /\ Sorted(compaction.recent)

(* The types as plain facts.                                               *)
LEMMA PlainTypes ==
  ASSUME TypeOK
  PROVE  /\ arrived \in Nat
         /\ queue \in Seq(Messages) /\ history \in Seq(Messages)
         /\ compaction.recent \in Seq(Messages)
         /\ handler.upload \in Messages /\ worker.turn \in Messages
         /\ worker.seen \in Seq(Messages) /\ worker.system \in Nat
         /\ worker.agentic \in BOOLEAN
         /\ \A m \in Messages : m.id \in Nat
         /\ \A q \in 1 .. Len(queue) : queue[q].id \in Nat
<1>1. \A m \in Messages : m.id \in Nat
  BY DEF Messages
<1>2. queue \in Seq(Messages)
  BY DEF TypeOK
<1>3. \A q \in 1 .. Len(queue) : queue[q] \in Messages
  BY <1>2
<1>4. arrived \in Nat
  BY TokenAssumption DEF TypeOK
<1> QED
  BY <1>1, <1>2, <1>3, <1>4 DEF TypeOK, WorkerType

LEMMA NoteFacts ==
  ASSUME TypeOK, NEW what, Note(what)
  PROVE  /\ worker'.at = worker.at /\ worker'.turn = worker.turn
         /\ worker'.seen = worker.seen /\ worker'.system = worker.system
         /\ worker'.prompt = worker.prompt /\ worker'.agentic = worker.agentic
         /\ worker.at # "recorded" => worker'.since = worker.since
         /\ worker.at = "recorded" => worker'.since = worker.since \cup {what}
<1>1. CASE worker.at = "recorded"
  BY <1>1 DEF Note, TypeOK, WorkerType
<1>2. CASE worker.at # "recorded"
  BY <1>2 DEF Note
<1> QED
  BY <1>1, <1>2

(* Saved or not, an upload is off the sync loop's hands, and the worker is *)
(* where it was.                                                           *)
LEMMA RecordUploadFacts ==
  ASSUME TypeOK, NEW saved \in BOOLEAN, RecordUpload(saved)
  PROVE  /\ UNCHANGED <<arrived, queue>> /\ handler'.at = "idle"
         /\ worker'.at = worker.at /\ worker'.turn = worker.turn
<1>1. UNCHANGED <<arrived, queue>> /\ handler'.at = "idle"
  BY DEF RecordUpload, AtRest
<1>2. CASE saved
  BY <1>1, <1>2, NoteFacts DEF RecordUpload
<1>3. CASE ~saved
  BY <1>1, <1>3 DEF RecordUpload
<1> QED
  BY <1>2, <1>3

(* Steps that leave what is on its way as it is.                           *)
Still ==
  /\ UNCHANGED <<arrived, queue>>
  /\ handler' = handler \/ (handler'.at # "idle" /\ handler.at # "idle"
                            /\ handler'.upload = handler.upload)
  /\ \/ worker'.at = worker.at /\ worker'.turn = worker.turn
     \/ worker'.at # "taken"

LEMMA MostAreStill ==
  ASSUME TypeOK,
         \/ \E n \in Sizes : Rewrite(n)
         \/ \E saved \in BOOLEAN : Record(saved)
         \/ Look \/ Clear \/ LetGo
         \/ \E present \in SUBSET (1 .. Len(Sections)), agentic \in BOOLEAN :
              TakeWindow(present, agentic)
         \/ \E mode \in Modes : Start(mode)
         \/ \E j \in jobs, n \in Sizes : RecordReply(j, n)
         \/ \E j \in jobs, agentic \in BOOLEAN : EndJob(j, agentic)
         \/ \E j \in jobs : Panic(j) \/ Cancel(j)
         \/ CancelStale \/ Compact \/ GiveUp \/ UNCHANGED vars
  PROVE  Still
<1>1. CASE \E n \in Sizes : Rewrite(n)
  BY <1>1, NoteFacts DEF Rewrite, Still
<1>2. CASE Look
  BY <1>2 DEF Look, Still, TypeOK
<1>3. CASE Clear
  BY <1>3, NoteFacts DEF Clear, Still
<1>4. CASE \E saved \in BOOLEAN : Record(saved)
  <2>1. worker'.at = "recorded" /\ UNCHANGED <<arrived, queue, handler>>
    BY <1>4 DEF Record, TypeOK, WorkerType
  <2> QED
    BY <2>1 DEF Still
<1>5. CASE LetGo
  BY <1>5 DEF LetGo, Still, Free
<1>6. CASE \E present \in SUBSET (1 .. Len(Sections)), agentic \in BOOLEAN :
             TakeWindow(present, agentic)
  <2>1. PICK present, agentic : TakeWindow(present, agentic)
    BY <1>6
  <2>2. worker'.at = "windowed"
    BY <2>1 DEF TakeWindow, TypeOK, WorkerType
  <2> QED
    BY <2>1, <2>2 DEF TakeWindow, Still
<1>7. CASE \E mode \in Modes : Start(mode)
  <2>1. PICK mode \in Modes : Start(mode)
    BY <1>7
  <2>2. worker'.at # "taken"
    BY <2>1 DEF Start, Free, Modes
  <2> QED
    BY <2>1, <2>2 DEF Start, Still
<1>8. CASE \E j \in jobs, n \in Sizes : RecordReply(j, n)
  BY <1>8, NoteFacts DEF RecordReply, Still
<1>8a. CASE \/ \E j \in jobs, agentic \in BOOLEAN : EndJob(j, agentic)
            \/ \E j \in jobs : Panic(j) \/ Cancel(j)
            \/ CancelStale
  BY <1>8a DEF EndJob, Panic, Cancel, CancelStale, Still
<1>9. CASE Compact \/ GiveUp \/ UNCHANGED vars
  BY <1>9 DEF Compact, GiveUp, vars, Still
<1> QED
  BY <1>1, <1>2, <1>3, <1>4, <1>5, <1>6, <1>7, <1>8, <1>8a, <1>9

(* What moves it on.                                                       *)
LEMMA StillOrMoves ==
  ASSUME TypeOK, [Next]_vars
  PROVE  \/ Still
         \/ \E n \in Sizes : Ask(n) \/ Upload(n)
         \/ \E saved \in BOOLEAN : RecordUpload(saved)
         \/ QueueUpload \/ Take
<1>1. CASE Rest \/ UNCHANGED vars
  BY <1>1, MostAreStill DEF Rest
<1> QED
  BY <1>1, MostAreStill DEF Next

(* Nothing comes that was not coming.                                      *)
LEMMA ComingStep ==
  ASSUME TypeOK, [Next]_vars, NEW id \in Nat, Coming(id)'
  PROVE  Coming(id)
<1> USE PlainTypes
<1>1. CASE Still
  BY <1>1 DEF Still, Coming
<1>2. ASSUME NEW n \in Sizes, Ask(n) PROVE Coming(id)
  <2>1. PICK m : m = Message("question", arrived + 1, n)
    OBVIOUS
  <2>2. /\ queue' = Append(queue, m) /\ arrived' = arrived + 1
        /\ UNCHANGED <<handler, worker>> /\ m.id = arrived + 1
    BY <1>2, <2>1 DEF Ask, Message
  <2>3. \A q \in 1 .. Len(queue') : \/ q \in 1 .. Len(queue) /\ queue'[q] = queue[q]
                                    \/ queue'[q] = m
    BY <2>2
  <2> QED
    BY <2>2, <2>3 DEF Coming
<1>3. ASSUME NEW n \in Sizes, Upload(n) PROVE Coming(id)
  <2>1. /\ arrived' = arrived + 1 /\ UNCHANGED <<queue, worker>>
        /\ handler'.upload.id = arrived + 1
    BY <1>3 DEF Upload, Message
  <2>2. \/ id > arrived' \/ id = arrived + 1
        \/ \E q \in 1 .. Len(queue) : queue[q].id = id
        \/ worker.at = "taken" /\ worker.turn.id = id
    BY <2>1, Zenon DEF Coming
  <2>3. id > arrived' \/ id = arrived + 1 => id > arrived
    BY <2>1
  <2> QED
    BY <2>2, <2>3, Zenon DEF Coming
<1>4. ASSUME NEW saved \in BOOLEAN, RecordUpload(saved) PROVE Coming(id)
  <2>1. /\ UNCHANGED <<arrived, queue>> /\ handler'.at = "idle"
        /\ worker'.at = worker.at /\ worker'.turn = worker.turn
    BY <1>4, RecordUploadFacts
  <2> QED
    BY <2>1, Zenon DEF Coming
<1>5. CASE QueueUpload
  <2>1. /\ UNCHANGED <<arrived, worker>> /\ handler'.at = "idle"
        /\ queue' = Append(queue, handler.upload) /\ handler.at # "idle"
    BY <1>5 DEF QueueUpload, AtRest
  <2>2. \A q \in 1 .. Len(queue') : \/ q \in 1 .. Len(queue) /\ queue'[q] = queue[q]
                                    \/ queue'[q] = handler.upload
    BY <2>1
  <2> QED
    BY <2>1, <2>2 DEF Coming
<1>6. CASE Take
  <2>1. /\ UNCHANGED <<arrived, handler>> /\ queue # <<>>
        /\ queue' = Tail(queue) /\ worker'.turn = queue[1]
    BY <1>6 DEF Take, Free
  <2>2. \A q \in 1 .. Len(queue') : q + 1 \in 1 .. Len(queue) /\ queue'[q] = queue[q + 1]
    BY <2>1
  <2>3. 1 \in 1 .. Len(queue)
    BY <2>1
  <2> QED
    BY <2>1, <2>2, <2>3 DEF Coming
<1> QED
  BY <1>1, <1>2, <1>3, <1>4, <1>5, <1>6, StillOrMoves

LEMMA SortedKept ==
  ASSUME TypeOK, [Next]_vars, NEW s, Sorted(s)
  PROVE  Sorted(s)'
<1>1. \A id \in Nat : Coming(id)' => Before(s, id)
  BY ComingStep DEF Sorted
<1> QED
  BY <1>1 DEF Sorted, InOrder, Before

LEMMA LineStep ==
  ASSUME TypeOK, LineInv, [Next]_vars
  PROVE  LineInv'
<1> USE PlainTypes
<1>1. CASE Still
  BY <1>1, Zenon DEF Still, LineInv
<1>2. ASSUME NEW n \in Sizes, Ask(n) PROVE LineInv'
  <2>1. PICK m \in Messages : m = Message("question", arrived + 1, n)
    BY MessageFacts
  <2>2. /\ queue' = Append(queue, m) /\ arrived' = arrived + 1
        /\ UNCHANGED <<handler, worker>> /\ m.id = arrived + 1
        /\ handler.at = "idle"
    BY <1>2, <2>1 DEF Ask, Message
  <2>3. /\ Len(queue') = Len(queue) + 1 /\ queue'[Len(queue) + 1] = m
        /\ \A q \in 1 .. Len(queue) :
             queue'[q] = queue[q] /\ \A p \in 1 .. q - 1 : queue'[p] = queue[p]
        /\ \A q \in 1 .. Len(queue') : q \in 1 .. Len(queue) \/ q = Len(queue) + 1
    BY <2>1, <2>2
  <2>4. ASSUME NEW q \in 1 .. Len(queue')
        PROVE  /\ queue'[q].id \in 1 .. arrived'
               /\ \A p \in 1 .. q - 1 : queue'[p].id < queue'[q].id
    <3>1. CASE q \in 1 .. Len(queue)
      BY <2>2, <2>3, <3>1 DEF LineInv
    <3>2. CASE q = Len(queue) + 1
      BY <2>2, <2>3, <3>2 DEF LineInv
    <3> QED
      BY <2>3, <3>1, <3>2, Zenon
  <2>5. worker'.at = "taken" =>
          /\ worker'.turn.id \in 1 .. arrived'
          /\ \A q \in 1 .. Len(queue') : worker'.turn.id < queue'[q].id
    BY <2>2, <2>3 DEF LineInv
  <2> QED
    BY <2>2, <2>4, <2>5, Zenon DEF LineInv
<1>3. ASSUME NEW n \in Sizes, Upload(n) PROVE LineInv'
  <2>1. /\ arrived' = arrived + 1 /\ UNCHANGED <<queue, worker>>
        /\ handler'.upload.id = arrived + 1 /\ handler'.upload.kind = "upload"
    BY <1>3 DEF Upload, Message
  <2>2. /\ \A q \in 1 .. Len(queue) : /\ queue[q].id \in 1 .. arrived'
                                      /\ queue[q].id < arrived + 1
        /\ worker.at = "taken" => /\ worker.turn.id \in 1 .. arrived'
                                  /\ worker.turn.id < arrived + 1
        /\ arrived + 1 \in 1 .. arrived'
    BY <2>1 DEF LineInv
  <2>3. /\ \A q \in 1 .. Len(queue) :
             \A p \in 1 .. q - 1 : queue[p].id < queue[q].id
        /\ worker.at = "taken" =>
             \A q \in 1 .. Len(queue) : worker.turn.id < queue[q].id
    BY Zenon DEF LineInv
  <2> QED
    BY <2>1, <2>2, <2>3, Zenon DEF LineInv
<1>4. ASSUME NEW saved \in BOOLEAN, RecordUpload(saved) PROVE LineInv'
  <2>1. /\ UNCHANGED <<arrived, queue>> /\ handler'.at = "idle"
        /\ worker'.at = worker.at /\ worker'.turn = worker.turn
    BY <1>4, RecordUploadFacts
  <2> QED
    BY <2>1, Zenon DEF LineInv
<1>5. CASE QueueUpload
  <2>1. PICK m \in Messages : m = handler.upload
    OBVIOUS
  <2>2. /\ UNCHANGED <<arrived, worker>> /\ handler'.at = "idle"
        /\ queue' = Append(queue, m) /\ handler.at # "idle"
    BY <1>5, <2>1 DEF QueueUpload, AtRest
  <2>3. /\ Len(queue') = Len(queue) + 1 /\ queue'[Len(queue) + 1] = m
        /\ \A q \in 1 .. Len(queue) :
             queue'[q] = queue[q] /\ \A p \in 1 .. q - 1 : queue'[p] = queue[p]
        /\ \A q \in 1 .. Len(queue') : q \in 1 .. Len(queue) \/ q = Len(queue) + 1
    BY <2>1, <2>2
  <2>4. ASSUME NEW q \in 1 .. Len(queue')
        PROVE  /\ queue'[q].id \in 1 .. arrived
               /\ \A p \in 1 .. q - 1 : queue'[p].id < queue'[q].id
    <3>1. CASE q \in 1 .. Len(queue)
      BY <2>3, <3>1, Zenon DEF LineInv
    <3>2. CASE q = Len(queue) + 1
      BY <2>1, <2>2, <2>3, <3>2 DEF LineInv
    <3> QED
      BY <2>3, <3>1, <3>2, Zenon
  <2>5. worker.at = "taken" =>
          /\ worker.turn.id \in 1 .. arrived
          /\ \A q \in 1 .. Len(queue') : worker.turn.id < queue'[q].id
    BY <2>1, <2>2, <2>3 DEF LineInv
  <2> QED
    BY <2>2, <2>4, <2>5, Zenon DEF LineInv
<1>6. CASE Take
  <2>1. /\ UNCHANGED <<arrived, handler>> /\ queue # <<>>
        /\ queue' = Tail(queue) /\ worker'.turn = queue[1] /\ worker'.at = "taken"
    BY <1>6 DEF Take, Free
  <2>2. /\ 1 \in 1 .. Len(queue) /\ Len(queue') = Len(queue) - 1
        /\ \A q \in 1 .. Len(queue') :
             /\ q + 1 \in 1 .. Len(queue) /\ queue'[q] = queue[q + 1]
             /\ 1 \in 1 .. (q + 1) - 1
             /\ \A p \in 1 .. q - 1 : /\ p + 1 \in 1 .. (q + 1) - 1
                                      /\ p \in 1 .. Len(queue')
    BY <2>1
  <2>3. ASSUME NEW q \in 1 .. Len(queue')
        PROVE  /\ queue'[q].id \in 1 .. arrived
               /\ \A p \in 1 .. q - 1 : queue'[p].id < queue'[q].id
               /\ queue[1].id < queue'[q].id
    BY <2>2, Zenon DEF LineInv
  <2>4. queue[1].id \in 1 .. arrived
    BY <2>2, Zenon DEF LineInv
  <2>5. handler.at # "idle" =>
          /\ handler.upload.kind = "upload" /\ handler.upload.id \in 1 .. arrived
          /\ \A q \in 1 .. Len(queue') : queue'[q].id < handler.upload.id
          /\ queue[1].id < handler.upload.id
    BY <2>2, Zenon DEF LineInv
  <2> QED
    BY <2>1, <2>3, <2>4, <2>5, Zenon DEF LineInv
<1> QED
  BY <1>1, <1>2, <1>3, <1>4, <1>5, <1>6, StillOrMoves

(* A message that is no user's, or an upload, may be recorded at any time. *)
LEMMA SortedAppend ==
  ASSUME NEW s \in Seq(Messages), Sorted(s), NEW m \in Messages,
         \/ m.id = 0 /\ \A id \in Nat : Coming(id) => id > 0
         \/ m.kind = "upload" /\ Coming(m.id)
  PROVE  Sorted(Append(s, m))
<1> DEFINE e == Append(s, m)
<1>0. \A i \in 1 .. Len(s) : s[i] \in Messages
  OBVIOUS
<1>1. /\ m.id \in Nat /\ Len(e) = Len(s) + 1 /\ e[Len(s) + 1] = m
      /\ \A i \in 1 .. Len(s) : e[i] = s[i] /\ e[i].id \in Nat
  BY <1>0 DEF Messages
<1> HIDE DEF e
<1>2. InOrder(e)
  <2> SUFFICES ASSUME NEW i \in 1 .. Len(e), NEW j \in 1 .. Len(e),
                      i < j, e[j].id # 0, e[i].id > e[j].id
               PROVE  e[i].kind = "upload"
    BY DEF InOrder
  <2>1. i \in 1 .. Len(s)
    BY <1>1
  <2>2. CASE j \in 1 .. Len(s)
    BY <1>1, <2>1, <2>2 DEF Sorted, InOrder
  <2>3. CASE j = Len(s) + 1
    <3>1. m.id # 0 /\ e[i].id > m.id /\ e[i] = s[i]
      BY <1>1, <2>1, <2>3
    <3>2. Before(s, m.id)
      BY <1>1, <3>1 DEF Sorted
    <3> QED
      BY <1>1, <2>1, <3>1, <3>2 DEF Before
  <2> QED
    BY <1>1, <2>2, <2>3
<1>3. ASSUME NEW id \in Nat, Coming(id) PROVE Before(e, id)
  <2> SUFFICES ASSUME NEW i \in 1 .. Len(e), e[i].kind # "upload"
               PROVE  e[i].id < id
    BY DEF Before
  <2>1. CASE i \in 1 .. Len(s)
    BY <1>1, <1>3, <2>1 DEF Sorted, Before
  <2>2. CASE i = Len(s) + 1
    BY <1>1, <1>3, <2>2
  <2> QED
    BY <1>1, <2>1, <2>2
<1> QED
  BY <1>2, <1>3 DEF Sorted, e

(* So may a summary be put at the head.                                    *)
LEMMA SortedHead ==
  ASSUME NEW s \in Seq(Messages), Sorted(s), NEW m \in Messages,
         m.id = 0, \A id \in Nat : Coming(id) => id > 0
  PROVE  Sorted(<<m>> \o s)
<1> DEFINE e == <<m>> \o s
<1>0. \A i \in 1 .. Len(s) : s[i] \in Messages
  OBVIOUS
<1>1. /\ Len(e) = Len(s) + 1 /\ e[1] = m
      /\ \A i \in 2 .. Len(s) + 1 : i - 1 \in 1 .. Len(s) /\ e[i] = s[i - 1]
      /\ \A i \in 1 .. Len(s) : s[i].id \in Nat
  BY <1>0 DEF Messages
<1> HIDE DEF e
<1>2. InOrder(e)
  <2> SUFFICES ASSUME NEW i \in 1 .. Len(e), NEW j \in 1 .. Len(e),
                      i < j, e[j].id # 0, e[i].id > e[j].id
               PROVE  e[i].kind = "upload"
    BY DEF InOrder
  <2>1. j \in 2 .. Len(s) + 1
    BY <1>1
  <2>2. CASE i = 1
    BY <1>1, <2>1, <2>2
  <2>3. CASE i \in 2 .. Len(s) + 1
    <3>1. /\ i - 1 \in 1 .. Len(s) /\ j - 1 \in 1 .. Len(s) /\ i - 1 < j - 1
          /\ e[i] = s[i - 1] /\ e[j] = s[j - 1]
      BY <1>1, <2>1, <2>3
    <3> QED
      BY <3>1 DEF Sorted, InOrder
  <2> QED
    BY <1>1, <2>2, <2>3
<1>3. ASSUME NEW id \in Nat, Coming(id) PROVE Before(e, id)
  <2> SUFFICES ASSUME NEW i \in 1 .. Len(e), e[i].kind # "upload"
               PROVE  e[i].id < id
    BY DEF Before
  <2>1. CASE i = 1
    BY <1>1, <1>3, <2>1
  <2>2. CASE i \in 2 .. Len(s) + 1
    BY <1>1, <1>3, <2>2 DEF Sorted, Before
  <2> QED
    BY <1>1, <2>1, <2>2
<1> QED
  BY <1>2, <1>3 DEF Sorted, e

(* And an end of what is sorted is.                                        *)
LEMMA SortedSuffix ==
  ASSUME NEW s \in Seq(Messages), Sorted(s), NEW k \in 0 .. Len(s)
  PROVE  Sorted(Suffix(s, k))
<1>1. /\ Len(Suffix(s, k)) = k
      /\ \A i \in 1 .. k : /\ Suffix(s, k)[i] = s[Len(s) - k + i]
                           /\ Len(s) - k + i \in 1 .. Len(s)
      /\ \A i, j \in 1 .. k : i < j => Len(s) - k + i < Len(s) - k + j
  BY SuffixFacts
<1>2. InOrder(Suffix(s, k))
  <2>1. SUFFICES ASSUME NEW i \in 1 .. k, NEW j \in 1 .. k, i < j,
                        Suffix(s, k)[j].id # 0,
                        Suffix(s, k)[i].id > Suffix(s, k)[j].id
                 PROVE  Suffix(s, k)[i].kind = "upload"
    BY <1>1, Zenon DEF InOrder
  <2>2. PICK p, q \in 1 .. Len(s) :
          /\ p = Len(s) - k + i /\ q = Len(s) - k + j /\ p < q
          /\ Suffix(s, k)[i] = s[p] /\ Suffix(s, k)[j] = s[q]
    BY <1>1, <2>1
  <2> QED
    BY <2>1, <2>2 DEF Sorted, InOrder
<1>3. \A id \in Nat : Coming(id) => Before(Suffix(s, k), id)
  BY <1>1 DEF Sorted, Before
<1> QED
  BY <1>2, <1>3 DEF Sorted

LEMMA Longer ==
  ASSUME NEW s \in Seq(Messages), NEW m \in Messages
  PROVE  Append(s, m) \in Seq(Messages) /\ <<m>> \o s \in Seq(Messages)
OBVIOUS

LEMMA OrderStep ==
  ASSUME TypeOK, TypeOK', OrderInv, [Next]_vars
  PROVE  OrderInv'
<1>1. LineInv' /\ LineInv
  BY LineStep DEF OrderInv
<1>2. \A id \in Nat : Coming(id) => id > 0
  BY <1>1, PlainTypes DEF LineInv, Coming
<1>3. ASSUME NEW s \in Seq(Messages), Sorted(s)'
      PROVE  /\ history' = s => Sorted(history)'
             /\ compaction'.recent = s => Sorted(compaction.recent)'
  BY <1>3 DEF Sorted, InOrder, Before
<1>4. ASSUME NEW s \in Seq(Messages), Sorted(s) PROVE Sorted(s)'
  BY <1>4, SortedKept
<1>5. PICK h \in Seq(Messages) : h = history
  BY PlainTypes
<1>6. PICK e \in Seq(Messages) : e = compaction.recent
  BY PlainTypes
<1>7. Sorted(h) /\ Sorted(e)
  BY <1>5, <1>6 DEF OrderInv
<1>8. history' = h => Sorted(history)'
  BY <1>3, <1>4, <1>7
<1>9. compaction'.recent = e => Sorted(compaction.recent)'
  BY <1>3, <1>4, <1>7
<1>10. /\ history' = <<>> => Sorted(history)'
       /\ compaction'.recent = <<>> => Sorted(compaction.recent)'
  BY DEF Sorted, InOrder, Before
(* Steps that write the history.                                           *)
<1>11. ASSUME NEW m \in Messages, history' = Append(history, m),
              \/ m.id = 0
              \/ m.kind = "upload" /\ Coming(m.id)
       PROVE  Sorted(history)'
  <2>1. PICK s \in Seq(Messages) : s = Append(h, m)
    BY <1>5, <1>11
  <2>2. Sorted(s)
    BY <1>2, <1>7, <1>11, <2>1, SortedAppend
  <2> QED
    BY <1>3, <1>4, <1>5, <1>11, <2>1, <2>2
<1>12. ASSUME NEW n \in Sizes, Rewrite(n) PROVE OrderInv'
  <2>1. PICK m \in Messages : m = Summary(n)
    BY MessageFacts
  <2>2. m.id = 0
    BY <2>1 DEF Summary, Message
  <2>3. PICK s \in Seq(Messages) : s = <<m>> \o e
    <3>1. <<m>> \o e \in Seq(Messages)
      BY Longer
    <3> QED
      BY <3>1, Zenon
  <2>4. Sorted(s)
    BY <1>2, <1>7, <2>2, <2>3, SortedHead
  <2>5. history' = s
    BY <1>6, <1>12, <2>1, <2>3 DEF Rewrite
  <2>6. compaction'.recent = <<>>
    BY <1>12 DEF Rewrite, Off
  <2>7. Sorted(history)'
    BY <1>3, <1>4, <2>3, <2>4, <2>5
  <2> QED
    BY <1>1, <1>10, <2>6, <2>7 DEF OrderInv
<1>13. CASE RecordUpload(TRUE)
  <2>1. /\ history' = Append(history, handler.upload) /\ handler.at # "idle"
        /\ compaction' = compaction
    BY <1>13 DEF RecordUpload
  <2>2. handler.upload.kind = "upload" /\ Coming(handler.upload.id)
    BY <1>1, <2>1 DEF LineInv, Coming
  <2> QED
    BY <1>1, <1>6, <1>9, <1>11, <2>1, <2>2, PlainTypes DEF OrderInv
<1>14. ASSUME NEW j \in jobs, NEW n \in Sizes, RecordReply(j, n)
       PROVE  OrderInv'
  <2>1. PICK m \in Messages : m = Reply(n) /\ m.id = 0
    BY MessageFacts DEF Reply, Message
  <2>2. history' = Append(history, m) /\ compaction' = compaction
    BY <1>14, <2>1 DEF RecordReply
  <2> QED
    BY <1>1, <1>6, <1>9, <1>11, <2>1, <2>2 DEF OrderInv
<1>15. CASE Clear
  <2>1. history' = <<>> /\ compaction' = compaction
    BY <1>15 DEF Clear
  <2> QED
    BY <1>1, <1>6, <1>9, <1>10, <2>1 DEF OrderInv
(* The question is the oldest message that was on its way.                 *)
<1>16. CASE Record(TRUE)
  <2>1. PICK m \in Messages : m = worker.turn
    BY PlainTypes
  <2>2. /\ history' = Append(h, m) /\ worker.at = "taken"
        /\ UNCHANGED <<compaction, arrived, handler, queue>>
        /\ worker'.at = "recorded"
    BY <1>5, <1>16, <2>1 DEF Record, TypeOK, WorkerType
  <2>3. PICK s \in Seq(Messages) : s = Append(h, m)
    <3>1. Append(h, m) \in Seq(Messages)
      BY Longer
    <3> QED
      BY <3>1, Zenon
  <2>4. /\ Len(s) = Len(h) + 1 /\ s[Len(h) + 1] = m
        /\ \A i \in 1 .. Len(h) : s[i] = h[i]
        /\ \A i \in 1 .. Len(s) : i \in 1 .. Len(h) \/ i = Len(h) + 1
    BY <2>3
  <2>5. m.id \in Nat /\ Coming(m.id)
    BY <2>1, <2>2, PlainTypes DEF Coming
  <2>6. Before(h, m.id)
    BY <1>7, <2>5 DEF Sorted
  <2>7. InOrder(s)
    <3>1. SUFFICES ASSUME NEW i \in 1 .. Len(s), NEW j \in 1 .. Len(s), i < j,
                          s[j].id # 0, s[i].id > s[j].id
                   PROVE  s[i].kind = "upload"
      BY DEF InOrder
    <3>2. i \in 1 .. Len(h) /\ s[i] = h[i] /\ h[i] \in Messages
      BY <2>4, <3>1
    <3>3. CASE j \in 1 .. Len(h)
      BY <1>7, <2>4, <3>1, <3>2, <3>3 DEF Sorted, InOrder
    <3>4. CASE j = Len(h) + 1
      <4>1. h[i].id > m.id /\ h[i].id \in Nat
        BY <2>4, <3>1, <3>2, <3>4, PlainTypes
      <4> QED
        BY <2>5, <2>6, <3>2, <4>1 DEF Before
    <3> QED
      BY <2>4, <3>3, <3>4
  <2>8. ASSUME NEW id \in Nat, Coming(id)' PROVE Before(s, id)
    <3>1. Coming(id)
      BY <2>8, ComingStep
    <3>2. m.id < id
      <4>1. \/ id > arrived
            \/ \E q \in 1 .. Len(queue) : queue[q].id = id
            \/ handler.at # "idle" /\ handler.upload.id = id
        BY <2>2, <2>8, Zenon DEF Coming
      <4> QED
        BY <1>1, <2>1, <2>2, <4>1, PlainTypes DEF LineInv
    <3> QED
      BY <1>7, <2>4, <3>1, <3>2 DEF Sorted, Before
  <2>9. Sorted(s)'
    BY <2>7, <2>8 DEF Sorted, InOrder, Before
  <2> QED
    BY <1>1, <1>3, <1>6, <1>9, <2>2, <2>3, <2>9 DEF OrderInv
<1>17. CASE Compact
  <2>1. history' = h
    BY <1>5, <1>17 DEF Compact
  <2>2. CASE ~compaction.on /\ Len(history) > KeepRecent
    <3>1. KeepRecent \in 0 .. Len(h)
      BY <1>5, <2>2, TokenAssumption
    <3>2. compaction'.recent = Suffix(h, KeepRecent)
      BY <1>5, <1>17, <2>2 DEF Compact, Suffix
    <3>3. PICK s \in Seq(Messages) : s = Suffix(h, KeepRecent)
      BY <3>1, SuffixFacts
    <3>4. Sorted(s)
      BY <1>7, <3>1, <3>3, SortedSuffix
    <3> QED
      BY <1>1, <1>3, <1>4, <1>8, <2>1, <3>2, <3>3, <3>4 DEF OrderInv
  <2>3. CASE ~(~compaction.on /\ Len(history) > KeepRecent)
    <3>1. compaction' = compaction
      BY <1>17, <2>3 DEF Compact
    <3> QED
      BY <1>1, <1>6, <1>8, <1>9, <2>1, <3>1 DEF OrderInv
  <2> QED
    BY <2>2, <2>3
<1>18. CASE GiveUp
  <2>1. history' = h /\ compaction'.recent = <<>>
    BY <1>5, <1>18 DEF GiveUp, Off
  <2> QED
    BY <1>1, <1>8, <1>10, <2>1 DEF OrderInv
(* The others leave the history alone.                                     *)
<1>19. ASSUME UNCHANGED <<history, compaction>>
       PROVE  OrderInv'
  BY <1>1, <1>5, <1>6, <1>8, <1>9, <1>19 DEF OrderInv
<1>20. ASSUME NEW n \in Sizes, Ask(n) \/ Upload(n) PROVE OrderInv'
  BY <1>19, <1>20 DEF Ask, Upload
<1>21. CASE Look \/ QueueUpload \/ Take \/ LetGo \/ CancelStale
  BY <1>19, <1>21 DEF Look, QueueUpload, Take, LetGo, CancelStale
<1>21a. CASE Record(FALSE) \/ RecordUpload(FALSE)
  BY <1>19, <1>21a DEF Record, RecordUpload
<1>22. ASSUME NEW present, NEW agentic, TakeWindow(present, agentic) PROVE OrderInv'
  BY <1>19, <1>22 DEF TakeWindow
<1>23. ASSUME NEW mode, Start(mode) PROVE OrderInv'
  BY <1>19, <1>23 DEF Start
<1>24. ASSUME NEW j, NEW agentic, EndJob(j, agentic) \/ Panic(j) \/ Cancel(j)
       PROVE  OrderInv'
  BY <1>19, <1>24 DEF EndJob, Panic, Cancel
<1>25. CASE Rest \/ UNCHANGED vars
  BY <1>19, <1>25 DEF Rest, vars
<1>26. ASSUME NEW saved \in BOOLEAN, Record(saved) \/ RecordUpload(saved)
       PROVE  OrderInv'
  <2>1. saved = TRUE \/ saved = FALSE
    OBVIOUS
  <2> QED
    BY <1>13, <1>16, <1>21a, <1>26, <2>1
<1> QED
  BY <1>12, <1>14, <1>15, <1>17, <1>18, <1>20, <1>21, <1>22, <1>23, <1>24, <1>25,
     <1>26 DEF Next

LEMMA OrderInit == Init => OrderInv
<1> SUFFICES ASSUME Init PROVE OrderInv
  OBVIOUS
<1>1. /\ queue = <<>> /\ worker.at = "free" /\ handler.at = "idle"
      /\ history = <<>> /\ compaction.recent = <<>>
  BY DEF Init, Free, AtRest, Off
<1>2. LineInv
  BY <1>1 DEF LineInv
<1>3. Sorted(history) /\ Sorted(compaction.recent)
  BY <1>1 DEF Sorted, InOrder, Before
<1> QED
  BY <1>2, <1>3 DEF OrderInv

(* The variables stay in their types.                                      *)
THEOREM PromptTyped == Spec => []TypeOK
<1>1. Init => TypeOK
  BY PromptTypeInit
<1>2. TypeOK /\ [Next]_vars => TypeOK'
  BY PromptTypeStep
<1> QED
  BY <1>1, <1>2, PTL DEF Spec

(* What users send is recorded in the order in which it arrived, but for   *)
(* uploads the sync loop records itself: turns wait in one line for one    *)
(* worker, and a compaction writes back only what was in the history when  *)
(* it began. Replies, /clear and compactions may come at any step.         *)
THEOREM ArrivalsKeepTheirOrder == Spec => []OrderOfArrival
<1>1. Init => OrderInv
  BY OrderInit
<1>2. TypeOK /\ TypeOK' /\ OrderInv /\ [Next]_vars => OrderInv'
  BY OrderStep
<1>3. TypeOK /\ OrderInv => OrderOfArrival
  <2>1. SUFFICES ASSUME TypeOK, InOrder(history) PROVE OrderOfArrival
    BY DEF OrderInv, Sorted
  <2>2. DOMAIN history = 1 .. Len(history)
    BY <2>1 DEF TypeOK
  <2> QED
    BY <2>1, <2>2, Zenon DEF InOrder, OrderOfArrival
<1> QED
  BY <1>1, <1>2, <1>3, PromptTyped, PTL DEF Spec

-----------------------------------------------------------------------------
(* Windows.                                                                *)

WindowInv == Windowed => worker.prompt = Window(worker.seen, Allowed)

(* A question stands in a history, unless it could not be written or that  *)
(* was cleared or rewritten since; at its end, unless a reply or an upload *)
(* came behind it.                                                         *)
StandsIn(h, turn, since) ==
  since \cap {"unsaved", "cleared", "rewritten"} = {} =>
    \E i \in 1 .. Len(h) :
      /\ h[i] = turn
      /\ since \cap {"reply", "upload"} = {} => i = Len(h)

QuestionInv ==
  /\ worker.at = "recorded" => StandsIn(history, worker.turn, worker.since)
  /\ Windowed => StandsIn(worker.seen, worker.turn, worker.since)

PromptInv == WindowInv /\ QuestionInv

LEMMA TokensType ==
  ASSUME NEW h \in Seq(Messages)
  PROVE  Tokens(h) \in Nat
BY SizesOfFacts, SumsStep DEF Tokens, Total

LEMMA StandsKept ==
  ASSUME NEW h \in Seq(Messages), NEW m \in Messages, NEW turn, NEW since,
         StandsIn(h, turn, since)
  PROVE  /\ StandsIn(Append(h, m), turn, since \cup {"reply"})
         /\ StandsIn(Append(h, m), turn, since \cup {"upload"})
<1>1. /\ Len(Append(h, m)) = Len(h) + 1
      /\ \A i \in 1 .. Len(h) : Append(h, m)[i] = h[i] /\ i \in 1 .. Len(h) + 1
  OBVIOUS
<1>2. ASSUME NEW what \in {"reply", "upload"},
             (since \cup {what}) \cap {"unsaved", "cleared", "rewritten"} = {}
      PROVE  \E i \in 1 .. Len(Append(h, m)) :
               /\ Append(h, m)[i] = turn
               /\ (since \cup {what}) \cap {"reply", "upload"} = {} => i = Len(Append(h, m))
  <2>1. PICK i \in 1 .. Len(h) : h[i] = turn
    BY <1>2 DEF StandsIn
  <2>2. (since \cup {what}) \cap {"reply", "upload"} # {}
    BY <1>2
  <2>3. i \in 1 .. Len(Append(h, m)) /\ Append(h, m)[i] = turn
    BY <1>1, <2>1
  <2> QED
    BY <2>2, <2>3
<1> QED
  BY <1>2, Zenon DEF StandsIn

LEMMA StandsLost ==
  ASSUME NEW h, NEW turn, NEW since
  PROVE  /\ StandsIn(h, turn, since \cup {"cleared"})
         /\ StandsIn(h, turn, since \cup {"rewritten"})
BY DEF StandsIn

LEMMA StandsNew ==
  ASSUME NEW h \in Seq(Messages), NEW m \in Messages, NEW since
  PROVE  StandsIn(Append(h, m), m, since)
<1>1. /\ Len(Append(h, m)) = Len(h) + 1 /\ Append(h, m)[Len(h) + 1] = m
      /\ Len(h) + 1 \in 1 .. Len(h) + 1
  OBVIOUS
<1> QED
  BY <1>1 DEF StandsIn

LEMMA PromptInvStep ==
  ASSUME TypeOK, TypeOK', PromptInv, [Next]_vars
  PROVE  PromptInv'
<1>1. ASSUME worker' = worker, history' = history
      PROVE  PromptInv'
  BY <1>1 DEF PromptInv, WindowInv, QuestionInv, Windowed, Allowed
<1>2. ASSUME worker'.at \notin {"recorded", "windowed"}
      PROVE  PromptInv'
  BY <1>2 DEF PromptInv, WindowInv, QuestionInv, Windowed, Allowed
(* What comes about while the question is recorded is noted.               *)
<1>3. ASSUME NEW what, Note(what),
             worker.at = "recorded" =>
               StandsIn(history', worker.turn, worker.since \cup {what})
      PROVE  PromptInv'
  <2>1. /\ worker'.at = worker.at /\ worker'.turn = worker.turn
        /\ worker'.seen = worker.seen /\ worker'.system = worker.system
        /\ worker'.prompt = worker.prompt /\ worker'.agentic = worker.agentic
        /\ worker.at # "recorded" => worker'.since = worker.since
        /\ worker.at = "recorded" => worker'.since = worker.since \cup {what}
    BY <1>3, NoteFacts
  <2> QED
    BY <1>3, <2>1, Zenon DEF PromptInv, WindowInv, QuestionInv, Windowed, Allowed
<1>4. ASSUME NEW m \in Messages, NEW what \in {"reply", "upload"},
             history' = Append(history, m), Note(what)
      PROVE  PromptInv'
  <2>1. ASSUME worker.at = "recorded"
        PROVE  StandsIn(Append(history, m), worker.turn, worker.since \cup {what})
    <3>1. PICK h \in Seq(Messages) : h = history
      BY PlainTypes
    <3>2. StandsIn(h, worker.turn, worker.since)
      BY <2>1, <3>1 DEF PromptInv, QuestionInv
    <3>3. /\ StandsIn(Append(h, m), worker.turn, worker.since \cup {"reply"})
          /\ StandsIn(Append(h, m), worker.turn, worker.since \cup {"upload"})
      BY <3>2, StandsKept
    <3> QED
      BY <1>4, <3>1, <3>3
  <2> QED
    BY <1>3, <1>4, <2>1
<1>5. ASSUME NEW what \in {"cleared", "rewritten"}, Note(what) PROVE PromptInv'
  <2>1. StandsIn(history', worker.turn, worker.since \cup {what})
    BY <1>5, StandsLost
  <2> QED
    BY <1>3, <1>5, <2>1
<1>6. ASSUME NEW saved \in BOOLEAN, RecordUpload(saved) PROVE PromptInv'
  <2>1. CASE saved
    <3>1. history' = Append(history, handler.upload) /\ Note("upload")
      BY <1>6, <2>1 DEF RecordUpload
    <3> QED
      BY <1>4, <3>1, PlainTypes
  <2>2. CASE ~saved
    BY <1>1, <1>6, <2>2 DEF RecordUpload
  <2> QED
    BY <2>1, <2>2
<1>7. ASSUME NEW j \in jobs, NEW n \in Sizes, RecordReply(j, n)
      PROVE  PromptInv'
  <2>1. PICK m \in Messages : m = Reply(n)
    BY MessageFacts
  <2>2. history' = Append(history, m) /\ Note("reply")
    BY <1>7, <2>1 DEF RecordReply
  <2> QED
    BY <1>4, <2>2
<1>8. CASE Clear
  BY <1>5, <1>8 DEF Clear
<1>9. ASSUME NEW n \in Sizes, Rewrite(n) PROVE PromptInv'
  BY <1>5, <1>9 DEF Rewrite
<1>10. ASSUME NEW saved \in BOOLEAN, Record(saved) PROVE PromptInv'
  <2>1. PICK h \in Seq(Messages), m \in Messages : h = history /\ m = worker.turn
    BY PlainTypes
  <2>2. worker'.at = "recorded" /\ worker'.turn = m
    BY <1>10, <2>1 DEF Record, TypeOK, WorkerType
  <2>3. StandsIn(history', m, worker'.since)
    <3>1. CASE saved
      <4>1. history' = Append(h, m)
        BY <1>10, <2>1, <3>1 DEF Record
      <4> QED
        BY <4>1, StandsNew
    <3>2. CASE ~saved
      <4>1. worker'.since = {"unsaved"}
        BY <1>10, <3>2 DEF Record, TypeOK, WorkerType
      <4> QED
        BY <4>1 DEF StandsIn
    <3> QED
      BY <3>1, <3>2
  <2> QED
    BY <2>2, <2>3, Zenon DEF PromptInv, WindowInv, QuestionInv, Windowed, Allowed
<1>11. ASSUME NEW present \in SUBSET (1 .. Len(Sections)), NEW agentic \in BOOLEAN,
              TakeWindow(present, agentic)
       PROVE  PromptInv'
  <2>1. PICK system : system = SystemSize(present)
    OBVIOUS
  <2>2. PICK window : window = Window(history, Budget(agentic, system))
    OBVIOUS
  <2>3. /\ worker.at = "recorded"
        /\ worker' = [worker EXCEPT !.at = "windowed", !.agentic = agentic,
                                    !.system = system, !.seen = history,
                                    !.prompt = window]
    BY <1>11, <2>1, <2>2, Zenon DEF TakeWindow
  <2>4. /\ worker'.at = "windowed" /\ worker'.turn = worker.turn
        /\ worker'.since = worker.since /\ worker'.seen = history
        /\ worker'.system = system /\ worker'.prompt = window
        /\ worker'.agentic = agentic
    BY <2>3 DEF TypeOK, WorkerType
  <2> QED
    BY <2>2, <2>3, <2>4, Zenon DEF PromptInv, WindowInv, QuestionInv, Windowed, Allowed
<1>12. CASE Take
  BY <1>2, <1>12 DEF Take, Free
<1>13. ASSUME NEW mode \in Modes, Start(mode) PROVE PromptInv'
  BY <1>2, <1>13 DEF Start, Free, Modes
<1>14. CASE LetGo
  BY <1>2, <1>14 DEF LetGo, Free
<1>15. ASSUME NEW n \in Sizes, Ask(n) \/ Upload(n) PROVE PromptInv'
  BY <1>1, <1>15 DEF Ask, Upload
<1>16. CASE Look \/ QueueUpload \/ CancelStale \/ Compact \/ GiveUp
  BY <1>1, <1>16 DEF Look, QueueUpload, CancelStale, Compact, GiveUp
<1>17. ASSUME NEW j, NEW agentic, EndJob(j, agentic) \/ Panic(j) \/ Cancel(j)
       PROVE  PromptInv'
  BY <1>1, <1>17 DEF EndJob, Panic, Cancel
<1>18. CASE Rest \/ UNCHANGED vars
  BY <1>1, <1>18 DEF Rest, vars
<1> QED
  BY <1>6, <1>7, <1>8, <1>9, <1>10, <1>11, <1>12, <1>13, <1>14, <1>15, <1>16,
     <1>17, <1>18 DEF Next

LEMMA PromptInvHolds == Spec => [](TypeOK /\ PromptInv)
<1>1. Init => PromptInv
  BY DEF Init, Free, PromptInv, WindowInv, QuestionInv, Windowed
<1>2. TypeOK /\ TypeOK' /\ PromptInv /\ [Next]_vars => PromptInv'
  BY PromptInvStep
<1> QED
  BY <1>1, <1>2, PromptTyped, PTL DEF Spec

(* A turn's prompt is the longest end of the history within the budget its *)
(* system prompt leaves, and never without the newest message, whatever    *)
(* the sizes, the budgets and the history (windowed_by_tokens).            *)
THEOREM WindowsAreLongest == Spec => []WindowIsLongest
<1>1. TypeOK /\ PromptInv => WindowIsLongest
  <2>1. SUFFICES ASSUME TypeOK, WindowInv, Windowed PROVE WindowIsLongest
    BY DEF PromptInv, WindowIsLongest
  <2>2. PICK h \in Seq(Messages), budget \in Nat :
          h = worker.seen /\ budget = Allowed
    BY <2>1, PlainTypes, BudgetFacts DEF Allowed
  <2>3. PICK k \in 0 .. Len(h) :
          /\ Window(h, budget) = Suffix(h, k)
          /\ k > 1 => Tokens(Suffix(h, k)) <= budget
          /\ \A l \in 1 .. Len(h) :
               l = 1 \/ Tokens(Suffix(h, l)) <= budget => l <= k
    BY WindowIs
  <2> DEFINE fits == {l \in 1 .. Len(h) : l = 1 \/ Tokens(Suffix(h, l)) <= budget}
  <2>4. k \in fits \cup {0}
    BY <2>3
  <2>5. \A l \in fits : l <= k
    BY <2>3
  <2>6. worker.prompt = Suffix(h, k)
    BY <2>1, <2>2, <2>3 DEF WindowInv
  <2>7. \E l \in fits \cup {0} : worker.prompt = Suffix(h, l) /\ \A o \in fits : o <= l
    BY <2>4, <2>5, <2>6
  <2> QED
    BY <2>2, <2>7, Zenon DEF WindowIsLongest
<1> QED
  BY <1>1, PromptInvHolds, PTL

(* A turn's prompt holds its question, unless that could not be written to *)
(* the history, or the history was cleared or rewritten since, or a reply  *)
(* or an upload came behind it and what came behind it does not fit with   *)
(* it.                                                                     *)
THEOREM QuestionsAreAsked == Spec => []QuestionAsked
<1>1. TypeOK /\ PromptInv => QuestionAsked
  <2>1. SUFFICES ASSUME TypeOK, WindowInv, QuestionInv, Windowed,
                        worker.since \cap {"unsaved", "cleared", "rewritten"} = {}
                 PROVE  QuestionAsked
    BY DEF PromptInv, QuestionAsked
  <2>2. PICK h \in Seq(Messages), budget \in Nat :
          h = worker.seen /\ budget = Allowed
    BY <2>1, PlainTypes, BudgetFacts DEF Allowed
  <2>3. PICK k \in 0 .. Len(h) :
          /\ Window(h, budget) = Suffix(h, k)
          /\ k = 0 => h = <<>>
          /\ \A l \in 1 .. Len(h) :
               l = 1 \/ Tokens(Suffix(h, l)) <= budget => l <= k
    BY WindowIs
  <2>4. PICK i \in 1 .. Len(h) :
          /\ h[i] = worker.turn
          /\ worker.since \cap {"reply", "upload"} = {} => i = Len(h)
    BY <2>1, <2>2 DEF QuestionInv, StandsIn
  <2>5. PICK l \in 1 .. Len(h) : l = Len(h) - i + 1
    <3>1. Len(h) - i + 1 \in 1 .. Len(h)
      OBVIOUS
    <3> QED
      BY <3>1, Zenon
  <2>6. CASE l <= k
    <3>1. k - l + 1 \in 1 .. k /\ Len(h) - k + (k - l + 1) = i
      BY <2>3, <2>5, <2>6
    <3>2. Suffix(h, k)[k - l + 1] = h[i] /\ Len(Suffix(h, k)) = k
      BY <2>3, <3>1, SuffixFacts
    <3>3. worker.turn \in ToSet(Suffix(h, k))
      <4>1. DOMAIN Suffix(h, k) = 1 .. k
        BY <2>3, <3>2, SuffixFacts
      <4> QED
        BY <2>4, <3>1, <3>2, <4>1, Zenon DEF ToSet
    <3>4. worker.prompt = Suffix(h, k)
      BY <2>1, <2>2, <2>3 DEF WindowInv
    <3> QED
      BY <3>3, <3>4 DEF QuestionAsked
  <2>7. CASE ~(l <= k)
    <3>1. l # 1 /\ ~(Tokens(Suffix(h, l)) <= budget)
      BY <2>3, <2>7
    <3>2. i # Len(h)
      BY <2>5, <3>1
    <3>3. Tokens(Suffix(h, l)) \in Nat
      BY SuffixFacts, TokensType
    <3>4. Tokens(Suffix(h, Len(h) - i + 1)) > budget
      BY <2>5, <3>1, <3>3
    <3>5. i \in DOMAIN h
      BY <2>4
    <3> QED
      BY <2>2, <2>4, <3>2, <3>4, <3>5, Zenon DEF QuestionAsked
  <2> QED
    BY <2>6, <2>7
<1> QED
  BY <1>1, PromptInvHolds, PTL

(* Nothing is left out of a prompt before the history is over the trigger  *)
(* of a compaction, as long as the system prompt takes no more than the    *)
(* trigger leaves of the budget: the two limits are computed apart, from   *)
(* two sizes of the system prompt (history_token_budget, maybe_compact).   *)
THEOREM OmissionsAreOverTrigger == Spec => []OmittedOnlyOverTrigger
<1>1. TypeOK /\ PromptInv => OmittedOnlyOverTrigger
  <2>1. SUFFICES ASSUME TypeOK, WindowInv, Windowed, worker.prompt # worker.seen,
                        ~(worker.system > Budget(worker.agentic, 0)
                                            - Trigger(worker.agentic))
                 PROVE  Tokens(worker.seen) > Trigger(worker.agentic)
    BY DEF PromptInv, OmittedOnlyOverTrigger
  <2>2. PICK h \in Seq(Messages), system \in Nat, agentic \in BOOLEAN :
          h = worker.seen /\ system = worker.system /\ agentic = worker.agentic
    BY <2>1, PlainTypes
  <2>3. PICK budget \in Nat : budget = Budget(agentic, system)
    BY BudgetFacts
  <2>4. PICK k \in 0 .. Len(h) :
          /\ Window(h, budget) = Suffix(h, k)
          /\ \A l \in 1 .. Len(h) :
               l = 1 \/ Tokens(Suffix(h, l)) <= budget => l <= k
    BY WindowIs
  <2>5. \A l \in {Len(h)} : Suffix(h, l) = h
    BY DEF Suffix
  <2>6. k # Len(h)
    BY <2>1, <2>2, <2>3, <2>4, <2>5 DEF WindowInv, Allowed
  <2>7. Len(h) \in 1 .. Len(h) /\ ~(Len(h) <= k)
    BY <2>4, <2>6
  <2>8. ~(Tokens(h) <= budget)
    BY <2>4, <2>5, <2>7
  <2>9. Trigger(agentic) <= budget /\ Trigger(agentic) \in Nat
    <3>1. Budget(agentic, 0) \in Nat /\ Trigger(agentic) \in Nat
      BY BudgetFacts
    <3>2. system <= Budget(agentic, 0) - Trigger(agentic)
      BY <2>1, <2>2, <3>1
    <3> QED
      BY <2>3, <3>1, <3>2, BudgetFacts
  <2>10. Tokens(h) \in Nat
    BY TokensType
  <2> QED
    BY <2>2, <2>8, <2>9, <2>10
<1> QED
  BY <1>1, PromptInvHolds, PTL
=============================================================================
