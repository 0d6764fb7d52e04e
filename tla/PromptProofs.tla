---------------------------- MODULE PromptProofs -----------------------------
(***************************************************************************)
(* Theorems about Prompt: the shape of a conversation, what the snapshot   *)
(* lists, what is compacted, and the lessons.                              *)
(***************************************************************************)
EXTENDS Prompt, SequenceTheorems, FiniteSetTheorems, WellFoundedInduction, TLAPS

\* A set that has 0 and the successor of each of its members has every number.
LEMMA SetInduction ==
    ASSUME NEW S, 0 \in S, \A n \in Nat : n \in S => n + 1 \in S
    PROVE  Nat \subseteq S
  <1> DEFINE less == OpToRel(<, Nat)
             gap == Nat \ S
  <1> SUFFICES ASSUME gap # {} PROVE FALSE
    OBVIOUS
  <1>1. \A x, y \in Nat : x < y => <<x, y>> \in less
    BY DEF OpToRel
  <1>2. IsWellFoundedOn(less, Nat)
    BY NatLessThanWellFounded
  <1> HIDE DEF less
  <1>3. PICK x \in gap : \A y \in gap : <<y, x>> \notin less
    <2>1. gap \subseteq Nat /\ gap # {}
      OBVIOUS
    <2> HIDE DEF gap
    <2> QED BY <1>2, <2>1, WFMin
  <1>4. x # 0 /\ x - 1 \in Nat /\ x - 1 < x /\ (x - 1) + 1 = x
    BY <1>3
  <1>5. x - 1 \in gap
    BY <1>3, <1>4
  <1> QED BY <1>1, <1>3, <1>4, <1>5

-----------------------------------------------------------------------------
(***************************************************************************)
(* Messages of one role go, the others keep their order.                   *)
(***************************************************************************)

Message ==
    [role : Roles, id : Nat, names : SUBSET Names]
      \cup [role : {"snapshot"}, id : {0}, names : SUBSET Names,
            rows : SUBSET Names, seen : SUBSET Names]

\* The sequence w is what is left of the first n messages of s.
Left(w, s, n, role) ==
    /\ w \in Seq(Message) /\ Len(w) <= n
    /\ \A p \in 1 .. Len(w) : w[p].role # role /\ \E i \in 1 .. n : s[i] = w[p]
    /\ \A p, q \in 1 .. Len(w) : p < q =>
         \E i, j \in 1 .. n : i < j /\ s[i] = w[p] /\ s[j] = w[q]
    /\ \A i \in 1 .. n : s[i].role # role => \E p \in 1 .. Len(w) : w[p] = s[i]
    /\ \A m \in 0 .. n : (\A i \in 1 .. m : s[i].role # role) =>
         Len(w) >= m /\ \A i \in 1 .. m : w[i] = s[i]

\* Of no messages nothing is left.
LEMMA NoneLeft == ASSUME NEW s, NEW role PROVE Left(<<>>, s, 0, role)
  BY DEF Left

\* One message more, of the role that goes.
LEMMA OneGoes ==
    ASSUME NEW w, NEW s \in Seq(Message), NEW n \in Nat, n + 1 <= Len(s), NEW role,
           Left(w, s, n, role), s[n + 1].role = role
    PROVE  Left(w, s, n + 1, role)
  <1>1. w \in Seq(Message) /\ Len(w) \in Nat /\ Len(w) <= n + 1 /\ 1 .. n \subseteq 1 .. n + 1
    BY DEF Left
  <1>2. \A p \in 1 .. Len(w) : w[p].role # role /\ \E i \in 1 .. n + 1 : s[i] = w[p]
    BY <1>1 DEF Left
  <1>3. ASSUME NEW p \in 1 .. Len(w), NEW q \in 1 .. Len(w), p < q
        PROVE  \E i, j \in 1 .. n + 1 : i < j /\ s[i] = w[p] /\ s[j] = w[q]
    <2>1. PICK i \in 1 .. n, j \in 1 .. n : i < j /\ s[i] = w[p] /\ s[j] = w[q]
      BY <1>3 DEF Left
    <2> QED BY <1>1, <2>1
  <1>4. ASSUME NEW i \in 1 .. n + 1, s[i].role # role
        PROVE  \E p \in 1 .. Len(w) : w[p] = s[i]
    <2>1. i \in 1 .. n
      BY <1>4
    <2> QED BY <1>4, <2>1 DEF Left
  <1>5. ASSUME NEW m \in 0 .. n + 1, \A i \in 1 .. m : s[i].role # role
        PROVE  Len(w) >= m /\ \A i \in 1 .. m : w[i] = s[i]
    <2>1. n + 1 \notin 1 .. m
      BY <1>5
    <2>2. m \in 0 .. n
      BY <2>1
    <2> QED BY <1>5, <2>2 DEF Left
  <1> QED BY <1>1, <1>2, <1>3, <1>4, <1>5 DEF Left

\* One message more, of another role.
LEMMA OneStays ==
    ASSUME NEW w, NEW s \in Seq(Message), NEW n \in Nat, n + 1 <= Len(s), NEW role,
           Left(w, s, n, role), s[n + 1].role # role
    PROVE  Left(Append(w, s[n + 1]), s, n + 1, role)
  <1> DEFINE u == Append(w, s[n + 1])
  <1>1. w \in Seq(Message) /\ Len(w) \in Nat /\ s[n + 1] \in Message
    BY DEF Left
  <1>2. /\ u \in Seq(Message) /\ Len(u) = Len(w) + 1 /\ u[Len(w) + 1] = s[n + 1]
        /\ \A p \in 1 .. Len(w) : u[p] = w[p]
    BY <1>1, AppendProperties
  <1>3. \A p \in 1 .. Len(u) : p \in 1 .. Len(w) \/ p = Len(w) + 1
    BY <1>1, <1>2
  <1>4. 1 .. n \subseteq 1 .. n + 1 /\ 1 .. Len(w) \subseteq 1 .. Len(u) /\ n + 1 \in 1 .. n + 1
        /\ Len(w) + 1 \in 1 .. Len(u)
    BY <1>1, <1>2
  <1> HIDE DEF u
  <1>5. Len(u) <= n + 1
    BY <1>1, <1>2 DEF Left
  <1>6. \A p \in 1 .. Len(u) : u[p].role # role /\ \E i \in 1 .. n + 1 : s[i] = u[p]
    <2> TAKE p \in 1 .. Len(u)
    <2>1. CASE p \in 1 .. Len(w)
      <3>1. w[p].role # role /\ \E i \in 1 .. n : s[i] = w[p]
        BY <2>1 DEF Left
      <3> QED BY <1>2, <1>4, <2>1, <3>1
    <2>2. CASE p = Len(w) + 1
      BY <1>2, <1>4, <2>2
    <2> QED BY <1>3, <2>1, <2>2
  <1>7. ASSUME NEW p \in 1 .. Len(u), NEW q \in 1 .. Len(u), p < q
        PROVE  \E i, j \in 1 .. n + 1 : i < j /\ s[i] = u[p] /\ s[j] = u[q]
    <2>1. p \in 1 .. Len(w)
      BY <1>1, <1>2, <1>7
    <2>2. CASE q \in 1 .. Len(w)
      <3>1. PICK i \in 1 .. n, j \in 1 .. n : i < j /\ s[i] = w[p] /\ s[j] = w[q]
        BY <1>7, <2>1, <2>2 DEF Left
      <3> QED BY <1>2, <1>4, <2>1, <2>2, <3>1
    <2>3. CASE q = Len(w) + 1
      <3>1. PICK i \in 1 .. n : s[i] = w[p]
        BY <2>1 DEF Left
      <3>2. i < n + 1
        OBVIOUS
      <3> QED BY <1>2, <1>4, <2>1, <2>3, <3>1, <3>2
    <2> QED BY <1>3, <2>2, <2>3
  <1>8. ASSUME NEW i \in 1 .. n + 1, s[i].role # role
        PROVE  \E p \in 1 .. Len(u) : u[p] = s[i]
    <2>1. CASE i \in 1 .. n
      BY <1>2, <1>4, <1>8, <2>1 DEF Left
    <2>2. CASE i = n + 1
      BY <1>2, <1>4, <2>2
    <2> QED BY <2>1, <2>2
  <1>9. ASSUME NEW m \in 0 .. n + 1, \A i \in 1 .. m : s[i].role # role
        PROVE  Len(u) >= m /\ \A i \in 1 .. m : u[i] = s[i]
    <2>1. CASE m \in 0 .. n
      <3>1. Len(w) >= m /\ \A i \in 1 .. m : w[i] = s[i]
        BY <1>9, <2>1 DEF Left
      <3>2. 1 .. m \subseteq 1 .. Len(w) /\ Len(u) >= m
        BY <1>1, <1>2, <3>1
      <3> QED BY <1>2, <3>1, <3>2
    <2>2. CASE m = n + 1
      <3>1. Len(w) >= n /\ \A i \in 1 .. n : w[i] = s[i]
        <4>1. n \in 0 .. n /\ \A i \in 1 .. n : s[i].role # role
          BY <1>9, <2>2
        <4> QED BY <4>1 DEF Left
      <3>2. Len(w) = n
        BY <1>1, <3>1 DEF Left
      <3> QED BY <1>2, <2>2, <3>1, <3>2
    <2> QED BY <2>1, <2>2
  <1> QED BY <1>2, <1>5, <1>6, <1>7, <1>8, <1>9 DEF Left, u

\* WithoutRole is what is left of the whole sequence.
LEMMA RolesGo ==
    ASSUME NEW s \in Seq(Message), NEW role
    PROVE  Left(WithoutRole(s, role), s, Len(s), role)
  <1> DEFINE step(f, i) == IF i = 0 THEN <<>>
                           ELSE IF s[i].role = role THEN f[i - 1] ELSE Append(f[i - 1], s[i])
             upto(f, n) == f = [i \in 0 .. n |-> step(f, i)]
             some == {n \in Nat : \E f : upto(f, n)}
  <1>1. 0 \in some
    <2>1. [i \in 0 .. 0 |-> <<>>] = [i \in 0 .. 0 |-> step([j \in 0 .. 0 |-> <<>>], i)]
      OBVIOUS
    <2>2. upto([i \in 0 .. 0 |-> <<>>], 0)
      BY <2>1
    <2> HIDE DEF upto
    <2> QED BY <2>2
  <1>2. ASSUME NEW n \in Nat, n \in some PROVE n + 1 \in some
    <2>1. PICK f : upto(f, n)
      BY <1>2
    <2> DEFINE g == [i \in 0 .. n + 1 |-> IF i = n + 1 THEN step(f, n + 1) ELSE f[i]]
    <2>2. ASSUME NEW i \in 0 .. n + 1 PROVE g[i] = step(g, i)
      <3>1. CASE i = 0
        BY <2>1, <3>1
      <3>2. CASE i # 0 /\ i # n + 1
        <4>1. i \in 0 .. n /\ i - 1 \in 0 .. n /\ i - 1 # n + 1 /\ i - 1 \in 0 .. n + 1
          BY <3>2
        <4>2. g[i] = f[i] /\ g[i - 1] = f[i - 1]
          BY <3>2, <4>1
        <4>3. f[i] = step(f, i)
          BY <2>1, <4>1
        <4> QED BY <3>2, <4>2, <4>3
      <3>3. CASE i = n + 1
        <4>1. g[n + 1] = step(f, n + 1) /\ g[n] = f[n] /\ (n + 1) - 1 = n /\ n + 1 # 0
          OBVIOUS
        <4> HIDE DEF g
        <4> QED BY <3>3, <4>1
      <3> QED BY <3>1, <3>2, <3>3
    <2>3. g = [i \in 0 .. n + 1 |-> g[i]]
      OBVIOUS
    <2> HIDE DEF g, step
    <2>4. g = [i \in 0 .. n + 1 |-> step(g, i)]
      BY <2>2, <2>3
    <2>5. upto(g, n + 1)
      BY <2>4
    <2> HIDE DEF upto
    <2> QED BY <2>5
  <1>3. Len(s) \in some
    <2> HIDE DEF some
    <2> QED BY <1>1, <1>2, SetInduction
  <1> DEFINE kept == CHOOSE f : upto(f, Len(s))
  <1>4. upto(kept, Len(s))
    BY <1>3
  <1>5. WithoutRole(s, role) = kept[Len(s)]
    BY DEF WithoutRole
  <1> HIDE DEF kept
  <1>6. ASSUME NEW i \in 0 .. Len(s) PROVE kept[i] = step(kept, i)
    BY <1>4
  <1> HIDE DEF upto, some
  <1> DEFINE good == {n \in Nat : n <= Len(s) => Left(kept[n], s, n, role)}
  <1>7. 0 \in good
    BY <1>6, NoneLeft
  <1>8. ASSUME NEW n \in Nat, n \in good PROVE n + 1 \in good
    <2> SUFFICES ASSUME n + 1 <= Len(s) PROVE Left(kept[n + 1], s, n + 1, role)
      OBVIOUS
    <2>1. Left(kept[n], s, n, role) /\ n + 1 \in 0 .. Len(s) /\ n + 1 # 0 /\ (n + 1) - 1 = n
      BY <1>8
    <2>2. kept[n + 1] = IF s[n + 1].role = role THEN kept[n] ELSE Append(kept[n], s[n + 1])
      BY <1>6, <2>1
    <2> QED BY <2>1, <2>2, OneGoes, OneStays
  <1>9. Len(s) \in good
    <2> HIDE DEF good
    <2> QED BY <1>7, <1>8, SetInduction
  <1> QED BY <1>5, <1>9

-----------------------------------------------------------------------------
(***************************************************************************)
(* The lessons.  The list is sorted by what failed later, and what it      *)
(* lacks failed before all that it has.                                    *)
(***************************************************************************)

Holds(s, k) == \E i \in 1 .. Len(s) : s[i] = k

Distinct(s) == \A i, j \in 1 .. Len(s) : s[i] = s[j] => i = j

Latest(s, gone, after) ==
    /\ Distinct(s) /\ Len(s) <= LessonsCap
    /\ \A i \in 1 .. Len(s) : s[i] \in gone
    /\ Len(s) < LessonsCap => \A k \in gone : Holds(s, k)
    /\ \A i, j \in 1 .. Len(s) : i < j => <<s[i], s[j]>> \in after
    /\ \A k \in gone, i \in 1 .. Len(s) : ~Holds(s, k) => <<k, s[i]>> \in after

LessonTypes(s, gone, after) ==
    s \in Seq(FailureKind) /\ gone \subseteq Kinds /\ after \subseteq Kinds \X Kinds

LessonsInv ==
    /\ LessonTypes(lessons, failed, later) /\ Latest(lessons, failed, later)
    /\ record # NoRecord =>
         /\ LessonTypes(record.lessons, record.failed, record.later)
         /\ Latest(record.lessons, record.failed, record.later)

\* What learning does to the list: one place is given up, that of the kind or,
\* when the list is full, the first, or none; the kind comes last.
Moved(s, k, n, t) ==
    /\ Len(t) = IF n = Len(s) + 1 THEN Len(s) + 1 ELSE Len(s)
    /\ \A i \in 1 .. Len(t) :
         t[i] = IF i = Len(t) THEN k ELSE IF i < n THEN s[i] ELSE s[i + 1]

GivenUp(s, k, n) ==
    \/ n <= Len(s) /\ s[n] = k
    \/ /\ ~Holds(s, k)
       /\ n = IF Len(s) < LessonsCap THEN Len(s) + 1 ELSE 1

\* Tracking a kind gives up one place of the list and puts the kind last.
LEMMA LessonMoves ==
    ASSUME NEW s \in Seq(FailureKind), Len(s) <= LessonsCap, NEW k \in FailureKind
    PROVE  \E n \in 1 .. Len(s) + 1 : GivenUp(s, k, n) /\ Moved(s, k, n, TrackLesson(s, k))
  <1> DEFINE w == Without(s, k)
             u == Append(w, k)
  <1>1. TrackLesson(s, k) = LastAtMost(u, LessonsCap)
    BY DEF TrackLesson
  <1>2. CASE Holds(s, k)
    <2> DEFINE n == CHOOSE i \in DOMAIN s : s[i] = k
               a == SubSeq(s, 1, n - 1)
               b == SubSeq(s, n + 1, Len(s))
    <2>1. n \in 1 .. Len(s) /\ s[n] = k
      BY <1>2 DEF Holds
    <2>2. w = a \o b
      <3>1. \E i \in DOMAIN s : s[i] = k
        BY <1>2 DEF Holds
      <3> QED BY <3>1 DEF Without
    <2> HIDE DEF n
    <2>3. /\ a \in Seq(FailureKind) /\ Len(a) = n - 1
          /\ \A i \in 1 .. n - 1 : a[i] = s[i]
      BY <2>1, SubSeqProperties
    <2>4. /\ b \in Seq(FailureKind) /\ Len(b) = Len(s) - n
          /\ \A i \in 1 .. Len(s) - n : b[i] = s[n + i]
      BY <2>1, SubSeqProperties
    <2> HIDE DEF a, b, w
    <2>5. /\ w \in Seq(FailureKind) /\ Len(w) = Len(s) - 1
          /\ \A i \in 1 .. Len(w) : w[i] = IF i < n THEN s[i] ELSE s[i + 1]
      <3>1. /\ w \in Seq(FailureKind) /\ Len(w) = Len(a) + Len(b)
            /\ \A i \in 1 .. Len(a) + Len(b) :
                 w[i] = IF i <= Len(a) THEN a[i] ELSE b[i - Len(a)]
        BY <2>2, <2>3, <2>4, ConcatProperties
      <3>2. n \in Nat /\ Len(s) \in Nat /\ Len(w) = Len(s) - 1
        BY <2>1, <2>3, <2>4, <3>1
      <3>3. ASSUME NEW i \in 1 .. Len(w)
            PROVE  w[i] = IF i < n THEN s[i] ELSE s[i + 1]
        <4>1. CASE i < n
          <5>1. i \in 1 .. n - 1 /\ i <= Len(a) /\ i \in 1 .. Len(a) + Len(b)
            BY <2>1, <2>3, <2>4, <3>2, <4>1
          <5> QED BY <2>3, <3>1, <4>1, <5>1
        <4>2. CASE ~(i < n)
          <5>1. /\ ~(i <= Len(a)) /\ i \in 1 .. Len(a) + Len(b)
                /\ i - Len(a) \in 1 .. Len(s) - n /\ n + (i - Len(a)) = i + 1
            BY <2>1, <2>3, <2>4, <3>2, <4>2
          <5>2. b[i - Len(a)] = s[n + (i - Len(a))]
            BY <2>4, <5>1
          <5> QED BY <3>1, <4>2, <5>1, <5>2
        <4> QED BY <4>1, <4>2
      <3> QED BY <3>1, <3>2, <3>3
    <2>6. /\ u \in Seq(FailureKind) /\ Len(u) = Len(s)
          /\ \A i \in 1 .. Len(u) : u[i] = IF i = Len(u) THEN k ELSE w[i]
      BY <2>1, <2>5, AppendProperties
    <2> HIDE DEF u
    <2>7. LastAtMost(u, LessonsCap) = u
      BY <2>6, LessonsCapAssumption DEF LastAtMost
    <2>8. Moved(s, k, n, u) /\ GivenUp(s, k, n)
      BY <2>1, <2>5, <2>6 DEF Moved, GivenUp
    <2> QED BY <1>1, <2>1, <2>7, <2>8
  <1>3. CASE ~Holds(s, k)
    <2>1. w = s
      BY <1>3 DEF Without, Holds
    <2> HIDE DEF w
    <2>2. /\ u \in Seq(FailureKind) /\ Len(u) = Len(s) + 1
          /\ \A i \in 1 .. Len(u) : u[i] = IF i = Len(u) THEN k ELSE s[i]
      BY <2>1, AppendProperties
    <2> HIDE DEF u
    <2>3. CASE Len(s) < LessonsCap
      <3>1. LastAtMost(u, LessonsCap) = u
        BY <2>2, <2>3, LessonsCapAssumption DEF LastAtMost
      <3>2. Moved(s, k, Len(s) + 1, u) /\ GivenUp(s, k, Len(s) + 1)
        BY <1>3, <2>2, <2>3 DEF Moved, GivenUp
      <3> QED BY <1>1, <3>1, <3>2
    <2>4. CASE Len(s) = LessonsCap
      <3> DEFINE t == SubSeq(u, 2, Len(u))
      <3>1. LastAtMost(u, LessonsCap) = t
        BY <2>2, <2>4, LessonsCapAssumption DEF LastAtMost
      <3>2. /\ Len(t) = Len(s)
            /\ \A i \in 1 .. Len(s) : t[i] = u[i + 1]
        BY <2>2, <2>4, LessonsCapAssumption, SubSeqProperties
      <3> HIDE DEF t
      <3>3. Moved(s, k, 1, t) /\ GivenUp(s, k, 1)
        BY <1>3, <2>2, <2>4, <3>2, LessonsCapAssumption DEF Moved, GivenUp
      <3> QED BY <1>1, <3>1, <3>3
    <2> QED BY <2>3, <2>4, LessonsCapAssumption
  <1> QED BY <1>2, <1>3


\* What becomes of later when k fails.
Failing(gone, after, k) ==
    {p \in after : p[1] # k /\ p[2] # k} \cup ((gone \ {k}) \X {k})

\* A list of the latest is one of the latest after the next failure.
LEMMA LearningSorts ==
    ASSUME NEW s \in Seq(FailureKind), NEW gone, NEW after, Latest(s, gone, after),
           NEW k \in FailureKind, NEW t \in Seq(FailureKind), NEW n \in 1 .. Len(s) + 1,
           GivenUp(s, k, n), Moved(s, k, n, t)
    PROVE  Latest(t, gone \cup {k}, Failing(gone, after, k))
  <1>1. n \in Nat /\ Len(s) \in Nat /\ Len(t) \in Nat
    OBVIOUS
  <1>2. \A i \in 1 .. Len(s) : i # n => s[i] # k
    BY DEF GivenUp, Holds, Latest, Distinct
  <1>3. Len(t) <= LessonsCap /\ t[Len(t)] = k /\ Len(t) \in 1 .. Len(t)
    BY LessonsCapAssumption DEF Moved, GivenUp, Latest, Holds
  <1> DEFINE from(i) == IF i < n THEN i ELSE i + 1
  <1>4. ASSUME NEW i \in 1 .. Len(t), i # Len(t)
        PROVE  from(i) \in 1 .. Len(s) /\ from(i) # n /\ t[i] = s[from(i)]
    <2>1. i \in Nat
      OBVIOUS
    <2>2. CASE i < n
      BY <1>1, <1>4, <2>1, <2>2 DEF Moved
    <2>3. CASE ~(i < n)
      BY <1>1, <1>4, <2>1, <2>3 DEF Moved
    <2> QED BY <2>2, <2>3
  <1>5. \A i, j \in 1 .. Len(t) : i < j => from(i) < from(j)
    BY <1>1
  <1>6. \A i, j \in 1 .. Len(t) : from(i) = from(j) => i = j
    BY <1>1
  <1>7. ASSUME NEW x \in 1 .. Len(s), x # n
        PROVE  \E i \in 1 .. Len(t) : i # Len(t) /\ t[i] = s[x]
    <2>1. x \in Nat
      OBVIOUS
    <2>2. CASE x < n
      <3>1. x \in 1 .. Len(t) /\ x # Len(t)
        BY <1>1, <2>1, <2>2 DEF Moved
      <3>2. t[x] = s[x]
        BY <2>2, <3>1 DEF Moved
      <3> QED BY <3>1, <3>2
    <2>3. CASE x > n
      <3>1. x - 1 \in 1 .. Len(t) /\ x - 1 # Len(t) /\ ~(x - 1 < n) /\ (x - 1) + 1 = x
        BY <1>1, <2>1, <2>3 DEF Moved
      <3>2. t[x - 1] = s[x]
        BY <3>1 DEF Moved
      <3> QED BY <3>1, <3>2
    <2> QED BY <1>1, <1>7, <2>1, <2>2, <2>3
  <1>8. ASSUME NEW i \in 1 .. Len(t), i # Len(t)
        PROVE  t[i] # k /\ t[i] \in gone
    BY <1>2, <1>4, <1>8 DEF Latest
  <1> HIDE DEF from
  <1>9. Distinct(t)
    <2> SUFFICES ASSUME NEW i \in 1 .. Len(t), NEW j \in 1 .. Len(t), t[i] = t[j], i # j
                 PROVE  FALSE
      BY DEF Distinct
    <2>1. i # Len(t) /\ j # Len(t)
      BY <1>3, <1>8
    <2>2. s[from(i)] = s[from(j)] /\ from(i) \in 1 .. Len(s) /\ from(j) \in 1 .. Len(s)
      BY <1>4, <2>1
    <2>3. from(i) = from(j)
      BY <2>2 DEF Latest, Distinct
    <2> QED BY <1>6, <2>3
  <1>10. \A i \in 1 .. Len(t) : t[i] \in gone \cup {k}
    BY <1>3, <1>8
  <1>11. ASSUME Len(t) < LessonsCap, NEW j \in gone \cup {k}
         PROVE  Holds(t, j)
    <2>1. CASE j = k
      BY <1>3, <2>1 DEF Holds
    <2>2. CASE j # k
      <3>1. Len(s) < LessonsCap
        BY <1>1, <1>11, LessonsCapAssumption DEF Moved, GivenUp
      <3>2. PICK x \in 1 .. Len(s) : s[x] = j
        BY <2>2, <3>1 DEF Latest, Holds
      <3>3. x # n
        BY <2>2, <3>1, <3>2 DEF GivenUp
      <3> QED BY <1>7, <3>2, <3>3 DEF Holds
    <2> QED BY <2>1, <2>2
  <1>12. ASSUME NEW i \in 1 .. Len(t), NEW j \in 1 .. Len(t), i < j
         PROVE  <<t[i], t[j]>> \in Failing(gone, after, k)
    <2>1. i # Len(t)
      BY <1>1, <1>12
    <2>2. CASE j = Len(t)
      <3>1. t[j] = k /\ t[i] \in gone \ {k}
        BY <1>3, <1>8, <2>1, <2>2
      <3> QED BY <3>1 DEF Failing
    <2>3. CASE j # Len(t)
      <3>1. <<s[from(i)], s[from(j)]>> \in after
        BY <1>4, <1>5, <1>12, <2>1, <2>3 DEF Latest
      <3>2. <<t[i], t[j]>> \in after
        BY <1>4, <2>1, <2>3, <3>1
      <3> QED BY <1>8, <2>1, <2>3, <3>2 DEF Failing
    <2> QED BY <2>2, <2>3
  <1>13. ASSUME NEW j \in gone \cup {k}, NEW i \in 1 .. Len(t), ~Holds(t, j)
         PROVE  <<j, t[i]>> \in Failing(gone, after, k)
    <2>1. j # k /\ j \in gone
      BY <1>3, <1>13 DEF Holds
    <2>2. CASE i = Len(t)
      BY <1>3, <2>1, <2>2 DEF Failing
    <2>3. CASE i # Len(t)
      <3>1. from(i) \in 1 .. Len(s) /\ from(i) # n /\ t[i] = s[from(i)] /\ t[i] # k
        BY <1>4, <1>8, <2>3
      <3>2. CASE ~Holds(s, j)
        <4>1. <<j, s[from(i)]>> \in after
          BY <2>1, <3>1, <3>2 DEF Latest
        <4> QED BY <2>1, <3>1, <4>1 DEF Failing
      <3>3. CASE Holds(s, j)
        <4>1. PICK x \in 1 .. Len(s) : s[x] = j
          BY <3>3 DEF Holds
        <4>2. x = n
          BY <1>7, <1>13, <4>1 DEF Holds
        <4>3. n = 1
          BY <1>1, <2>1, <4>1, <4>2 DEF GivenUp
        <4>4. x < from(i)
          BY <1>1, <3>1, <4>2, <4>3
        <4>5. <<j, s[from(i)]>> \in after
          BY <3>1, <4>1, <4>4 DEF Latest
        <4> QED BY <2>1, <3>1, <4>5 DEF Failing
      <3> QED BY <3>2, <3>3
    <2> QED BY <2>2, <2>3
  <1> QED BY <1>3, <1>9, <1>10, <1>11, <1>12, <1>13 DEF Latest

\* The type of the list is LessonsType's claim; the places are LessonMoves'.
LEMMA LessonsType ==
    ASSUME NEW s \in Seq(FailureKind), NEW k \in FailureKind
    PROVE  TrackLesson(s, k) \in Seq(FailureKind)
  <1> DEFINE w == Without(s, k)
             u == Append(w, k)
  <1>1. w \in Seq(FailureKind)
    <2>1. CASE \E i \in DOMAIN s : s[i] = k
      <3> DEFINE n == CHOOSE i \in DOMAIN s : s[i] = k
                 a == SubSeq(s, 1, n - 1)
                 b == SubSeq(s, n + 1, Len(s))
      <3>1. n \in 1 .. Len(s)
        BY <2>1
      <3>2. w = a \o b
        BY <2>1 DEF Without
      <3> HIDE DEF n
      <3>3. a \in Seq(FailureKind) /\ b \in Seq(FailureKind)
        BY <3>1, SubSeqProperties
      <3> HIDE DEF a, b
      <3> QED BY <3>2, <3>3
    <2>2. CASE ~ \E i \in DOMAIN s : s[i] = k
      BY <2>2 DEF Without
    <2> QED BY <2>1, <2>2
  <1> HIDE DEF w
  <1>2. u \in Seq(FailureKind)
    BY <1>1
  <1> HIDE DEF u
  <1>3. LastAtMost(u, LessonsCap) \in Seq(FailureKind)
    BY <1>2, LessonsCapAssumption DEF LastAtMost
  <1> QED BY <1>3 DEF TrackLesson, u, w

\* What may fail is one of the kinds.
LEMMA MayFailKinds == ASSUME LessonsInv PROVE MayFail \subseteq Kinds
  BY DEF LessonsInv, LessonTypes, MayFail

\* A failure that is learnt and perhaps recorded.
LEMMA FailsSorts ==
    ASSUME LessonsInv, NEW k \in MayFail, NEW ms, Fails(k, ms)
    PROVE  LessonsInv'
  <1>1. k \in Kinds /\ k \in FailureKind
    BY MayFailKinds, KindsAssumption
  <1>2. PICK s \in Seq(FailureKind), gone \in SUBSET Kinds, after \in SUBSET (Kinds \X Kinds) :
          s = lessons /\ gone = failed /\ after = later
    BY DEF LessonsInv, LessonTypes
  <1>3. PICK t \in Seq(FailureKind) : t = TrackLesson(s, k)
    BY <1>1, LessonsType
  <1>4. Latest(s, gone, after) /\ Len(s) <= LessonsCap
    BY <1>2 DEF LessonsInv, Latest
  <1>5. PICK n \in 1 .. Len(s) + 1 : GivenUp(s, k, n) /\ Moved(s, k, n, t)
    BY <1>1, <1>3, <1>4, LessonMoves
  <1>6. Latest(t, gone \cup {k}, Failing(gone, after, k))
    BY <1>1, <1>4, <1>5, LearningSorts
  <1>7. lessons' = t /\ failed' = gone \cup {k} /\ later' = Failing(gone, after, k)
    BY <1>2, <1>3 DEF Fails, Failing
  <1>8. LessonTypes(t, gone \cup {k}, Failing(gone, after, k))
    BY <1>1 DEF LessonTypes, Failing
  <1>9. record' = record
        \/ /\ record'.lessons = lessons' /\ record'.failed = failed'
           /\ record'.later = later'
    BY DEF Fails, Saved
  <1> QED BY <1>6, <1>7, <1>8, <1>9 DEF LessonsInv

\* The lessons change with the failures and at the start of a turn.
LEMMA LessonSteps ==
    ASSUME Next
    PROVE  \/ \E k \in MayFail, ms \in {messages, Append(messages, Plain("assistant"))} :
                Fails(k, ms)
           \/ \E anew, continues \in BOOLEAN : StartTurn(anew, continues)
           \/ ResumeKept
           \/ Answer
           \/ UNCHANGED <<failure, record>>
  BY DEF Next, LimitHit, RequestFails, AnswerRejected, ResumeStored, OtherPublishes, Request

\* Every step keeps the lessons the latest, here and in the record.
LEMMA LessonsStep == ASSUME LessonsInv, [Next]_vars PROVE LessonsInv'
  <1>1. CASE \E k \in MayFail, ms \in {messages, Append(messages, Plain("assistant"))} :
               Fails(k, ms)
    BY <1>1, FailsSorts
  <1>2. CASE \E anew, continues \in BOOLEAN : StartTurn(anew, continues)
    BY <1>2, LessonsCapAssumption
       DEF StartTurn, LessonsInv, LessonTypes, Latest, Distinct, Holds
  <1>3. CASE ResumeKept
    BY <1>3 DEF ResumeKept, LessonsInv
  <1>4. CASE Answer
    <2>1. UNCHANGED <<lessons, failed, later>>
      BY <1>4 DEF Answer, failure
    <2>2. \/ record' = record
          \/ record'.lessons = lessons /\ record'.failed = failed /\ record'.later = later
      BY <1>4 DEF Answer, Saved
    <2> QED BY <2>1, <2>2 DEF LessonsInv
  <1>5. CASE UNCHANGED <<failure, record>>
    BY <1>5 DEF failure, LessonsInv
  <1>6. CASE UNCHANGED vars
    BY <1>6 DEF vars, failure, LessonsInv
  <1> QED BY <1>1, <1>2, <1>3, <1>4, <1>5, <1>6, LessonSteps

\* A list without repetitions is as long as it has members.
LEMMA DistinctLength ==
    ASSUME NEW S, NEW s \in Seq(S), Distinct(s)
    PROVE  Len(s) = Cardinality(ToSet(s))
  <1> DEFINE I == 1 .. Len(s)
             T == ToSet(s)
  <1>1. IsFiniteSet(I) /\ Cardinality(I) = Len(s)
    <2>1. Len(s) \in Nat
      OBVIOUS
    <2> QED BY SMTT(30), <2>1, FS_Interval
  <1>2. s \in [I -> T] /\ \A x \in T : \E i \in I : s[i] = x
    BY DEF ToSet
  <1>3. s \in Surjection(I, T)
    BY <1>2 DEF Surjection
  <1>4. s \in Injection(I, T)
    BY <1>2 DEF Injection, IsInjective, Distinct
  <1> HIDE DEF I, T
  <1>5. Cardinality(T) = Cardinality(I)
    BY <1>1, <1>3, <1>4, FS_Surjection
  <1> QED BY <1>1, <1>5 DEF T

\* However failures, suspensions and turns follow each other, the lessons are the
\* kinds that failed last, oldest first, as many as fit (_track_lesson).
THEOREM LessonsSorted == Spec => []LessonsAreTheLatest
  <1>1. Init => LessonsInv
    BY LessonsCapAssumption DEF Init, LessonsInv, LessonTypes, Latest, Distinct, Holds
  <1>2. LessonsInv => LessonsAreTheLatest
    <2> SUFFICES ASSUME LessonsInv PROVE LessonsAreTheLatest
      OBVIOUS
    <2>1. lessons \in Seq(FailureKind) /\ Latest(lessons, failed, later)
      BY DEF LessonsInv, LessonTypes
    <2>2. \A k : k \in ToSet(lessons) <=> Holds(lessons, k)
      BY <2>1 DEF ToSet, Holds
    <2>3. Len(lessons) = Cardinality(ToSet(lessons))
      BY <2>1, DistinctLength DEF Latest
    <2>4. ToSet(lessons) \subseteq failed
      BY <2>1 DEF ToSet, Latest
    <2>5. Len(lessons) = LessonsCap \/ ToSet(lessons) = failed
      <3>1. CASE Len(lessons) < LessonsCap
        <4>1. \A k \in failed : Holds(lessons, k)
          BY <2>1, <3>1 DEF Latest
        <4> QED BY <2>2, <2>4, <4>1
      <3>2. Len(lessons) <= LessonsCap /\ Len(lessons) \in Nat
        BY <2>1 DEF Latest
      <3> QED BY <3>1, <3>2, LessonsCapAssumption
    <2>6. \A i, j \in DOMAIN lessons : i < j => <<lessons[i], lessons[j]>> \in later
      BY <2>1 DEF Latest
    <2>7. (failed \ ToSet(lessons)) \X ToSet(lessons) \subseteq later
      <3> SUFFICES ASSUME NEW k \in failed, k \notin ToSet(lessons),
                          NEW m \in ToSet(lessons)
                   PROVE  <<k, m>> \in later
        OBVIOUS
      <3>1. PICK i \in 1 .. Len(lessons) : lessons[i] = m
        BY <2>2 DEF Holds
      <3> QED BY <2>1, <2>2, <3>1 DEF Latest
    <2> QED BY <2>3, <2>4, <2>5, <2>6, <2>7 DEF LessonsAreTheLatest
  <1> QED BY <1>1, <1>2, LessonsStep, PTL DEF Spec

-----------------------------------------------------------------------------
(***************************************************************************)
(* The conversation: its shape, and what its tool results say of what has  *)
(* been read and touched.  A result with an answer after it has been read. *)
(***************************************************************************)

Headed(ms) == Len(ms) >= 2 /\ ms[1].role = "system" /\ ms[2].role = "catalog"

OneSnapshot(ms) ==
    \E i \in 1 .. Len(ms) :
        IsSnapshot(ms[i]) /\ \A j \in 1 .. Len(ms) : IsSnapshot(ms[j]) => j = i

Known(ms, full, owned) ==
    /\ ms \in Seq(Message)
    /\ \A i \in 1 .. Len(ms) : ms[i].names \subseteq owned
    /\ \A i, j \in 1 .. Len(ms) :
         i < j /\ ms[i].role = "tool" /\ ms[j].role = "assistant" => ms[i].id \in full
    /\ \A x \in full : \E i \in 1 .. Len(ms) : ms[i].role = "tool" /\ ms[i].id = x

\* A message without names is a message.
LEMMA PlainIsMessage == ASSUME NEW role \in Roles PROVE Plain(role) \in Message
  BY DEF Plain, Message

\* A message that is neither an answer nor a result is added.
LEMMA Said ==
    ASSUME NEW s, NEW full, NEW owned, Known(s, full, owned),
           NEW m \in Message, m.role \notin {"assistant", "tool"}, m.names \subseteq owned
    PROVE  /\ Known(Append(s, m), full, owned)
           /\ Headed(s) => Headed(Append(s, m))
  <1> DEFINE u == Append(s, m)
  <1>1. /\ u \in Seq(Message) /\ Len(u) = Len(s) + 1 /\ u[Len(u)] = m /\ Len(s) \in Nat
        /\ \A i \in 1 .. Len(s) : u[i] = s[i]
    BY AppendProperties DEF Known
  <1> HIDE DEF u
  <1>2. \A i \in 1 .. Len(u) : i \in 1 .. Len(s) \/ i = Len(u)
    BY <1>1
  <1>3. 1 .. Len(s) \subseteq 1 .. Len(u)
    BY <1>1
  <1>4. \A i \in 1 .. Len(u) : u[i].names \subseteq owned
    BY <1>1, <1>2 DEF Known
  <1>5. ASSUME NEW i \in 1 .. Len(u), NEW j \in 1 .. Len(u), i < j,
               u[i].role = "tool", u[j].role = "assistant"
        PROVE  u[i].id \in full
    <2>1. i # Len(u) /\ j # Len(u)
      BY <1>1, <1>5
    <2>2. i \in 1 .. Len(s) /\ j \in 1 .. Len(s)
      BY <1>2, <2>1
    <2> QED BY <1>1, <1>5, <2>2 DEF Known
  <1>6. \A x \in full : \E i \in 1 .. Len(u) : u[i].role = "tool" /\ u[i].id = x
    BY <1>1, <1>3 DEF Known
  <1>7. Headed(s) => Headed(u)
    BY <1>1 DEF Headed
  <1> QED BY <1>1, <1>4, <1>5, <1>6, <1>7 DEF Known, u

\* What is left when the messages of a role go that has no results and no answers.
LEMMA LeftKnown ==
    ASSUME NEW s, NEW full, NEW owned, Known(s, full, owned), NEW role, role # "tool"
    PROVE  Known(WithoutRole(s, role), full, owned)
  <1>1. s \in Seq(Message)
    BY DEF Known
  <1>2. PICK w : w = WithoutRole(s, role)
    OBVIOUS
  <1>3. Left(w, s, Len(s), role)
    BY <1>1, <1>2, RolesGo
  <1>4. \A i \in 1 .. Len(w) : w[i].names \subseteq owned
    <2> TAKE i \in 1 .. Len(w)
    <2>1. PICK j \in 1 .. Len(s) : s[j] = w[i]
      BY <1>3 DEF Left
    <2> QED BY <2>1 DEF Known
  <1>5. ASSUME NEW p \in 1 .. Len(w), NEW q \in 1 .. Len(w), p < q,
               w[p].role = "tool", w[q].role = "assistant"
        PROVE  w[p].id \in full
    <2>1. PICK i \in 1 .. Len(s), j \in 1 .. Len(s) : i < j /\ s[i] = w[p] /\ s[j] = w[q]
      BY <1>3, <1>5 DEF Left
    <2> QED BY <1>5, <2>1 DEF Known
  <1>6. ASSUME NEW x \in full
        PROVE  \E p \in 1 .. Len(w) : w[p].role = "tool" /\ w[p].id = x
    <2>1. PICK i \in 1 .. Len(s) : s[i].role = "tool" /\ s[i].id = x
      BY DEF Known
    <2>2. \E p \in 1 .. Len(w) : w[p] = s[i]
      BY <1>3, <2>1 DEF Left
    <2> QED BY <2>1, <2>2
  <1>7. w \in Seq(Message)
    BY <1>3 DEF Left
  <1> QED BY <1>2, <1>4, <1>5, <1>6, <1>7 DEF Known

\* The catalog stands second, and nothing else is lost.
LEMMA CatalogPlaced ==
    ASSUME NEW s, NEW full, NEW owned, Known(s, full, owned),
           Len(s) >= 1, s[1].role = "system"
    PROVE  Known(WithCatalog(s), full, owned) /\ Headed(WithCatalog(s))
  <1>1. PICK w : w = WithoutRole(s, "catalog")
    OBVIOUS
  <1>2. Known(w, full, owned)
    BY <1>1, LeftKnown
  <1>3. Len(w) >= 1 /\ w[1] = s[1]
    <2>1. s \in Seq(Message)
      BY DEF Known
    <2>2. Left(w, s, Len(s), "catalog")
      BY <1>1, <2>1, RolesGo
    <2>3. 1 \in 0 .. Len(s) /\ \A i \in 1 .. 1 : s[i].role # "catalog"
      BY <2>1
    <2>4. Len(w) >= 1 /\ \A i \in 1 .. 1 : w[i] = s[i]
      BY <2>2, <2>3 DEF Left
    <2> QED BY <2>4
  <1> DEFINE c == Plain("catalog")
             h == <<w[1], c>>
             b == Tail(w)
             u == h \o b
  <1>4. c \in Message /\ c.role = "catalog" /\ c.names = {}
    BY DEF Plain, Message, Roles
  <1>5. w \in Seq(Message) /\ w # <<>> /\ Len(w) \in Nat /\ w[1] \in Message
    BY <1>2, <1>3 DEF Known
  <1> HIDE DEF c
  <1>6. h \in Seq(Message) /\ Len(h) = 2 /\ h[1] = w[1] /\ h[2] = c
    BY <1>4, <1>5
  <1>7. /\ b \in Seq(Message) /\ Len(b) = Len(w) - 1
        /\ \A i \in 1 .. Len(b) : b[i] = w[i + 1]
    BY <1>5, HeadTailProperties
  <1> HIDE DEF h, b
  <1>8. /\ u \in Seq(Message) /\ Len(u) = Len(w) + 1 /\ u[1] = w[1] /\ u[2] = c
        /\ \A i \in 3 .. Len(u) : u[i] = w[i - 1]
    <2>1. /\ u \in Seq(Message) /\ Len(u) = Len(h) + Len(b)
          /\ \A i \in 1 .. Len(h) + Len(b) : u[i] = IF i <= Len(h) THEN h[i] ELSE b[i - Len(h)]
      BY <1>6, <1>7, ConcatProperties
    <2>2. Len(u) = Len(w) + 1
      BY <1>5, <1>6, <1>7, <2>1
    <2>3. u[1] = h[1] /\ u[2] = h[2]
      BY <1>5, <1>6, <1>7, <2>1
    <2>4. ASSUME NEW i \in 3 .. Len(u) PROVE u[i] = w[i - 1]
      <3>1. /\ i \in 1 .. Len(h) + Len(b) /\ ~(i <= Len(h))
            /\ i - 2 \in 1 .. Len(b) /\ (i - 2) + 1 = i - 1
        BY <1>5, <1>6, <1>7, <2>1, <2>2
      <3>2. u[i] = b[i - 2]
        BY <1>6, <2>1, <3>1
      <3> QED BY <1>7, <3>1, <3>2
    <2> QED BY <1>6, <2>1, <2>2, <2>3, <2>4
  <1> HIDE DEF u
  <1>9. WithCatalog(s) = u
    BY <1>1 DEF WithCatalog, u, h, b, c
  <1>10. Headed(u)
    BY <1>3, <1>4, <1>5, <1>8 DEF Headed
  <1>11. ASSUME NEW i \in 1 .. Len(u), i # 2
         PROVE  \E p \in 1 .. Len(w) : u[i] = w[p] /\ p = IF i = 1 THEN 1 ELSE i - 1
    <2>1. CASE i = 1
      BY <1>3, <1>5, <1>8, <2>1
    <2>2. CASE i # 1
      <3>1. i \in 3 .. Len(u) /\ i - 1 \in 1 .. Len(w)
        BY <1>5, <1>8, <1>11, <2>2
      <3> QED BY <1>8, <2>2, <3>1
    <2> QED BY <2>1, <2>2
  <1>12. \A i \in 1 .. Len(u) : u[i].names \subseteq owned
    BY ZenonT(60), <1>2, <1>4, <1>8, <1>11 DEF Known
  <1>13. ASSUME NEW i \in 1 .. Len(u), NEW j \in 1 .. Len(u), i < j,
                u[i].role = "tool", u[j].role = "assistant"
         PROVE  u[i].id \in full
    <2>1. i # 1 /\ i # 2 /\ j # 1 /\ j # 2
      BY <1>3, <1>4, <1>8, <1>13
    <2>2. PICK x \in 1 .. Len(w) : u[i] = w[x] /\ x = i - 1
      BY <1>11, <2>1
    <2>3. PICK y \in 1 .. Len(w) : u[j] = w[y] /\ y = j - 1
      BY <1>11, <2>1
    <2>4. x < y
      BY <1>13, <2>2, <2>3
    <2> QED BY <1>2, <1>13, <2>2, <2>3, <2>4 DEF Known
  <1>14. ASSUME NEW x \in full
         PROVE  \E i \in 1 .. Len(u) : u[i].role = "tool" /\ u[i].id = x
    <2>1. PICK p \in 1 .. Len(w) : w[p].role = "tool" /\ w[p].id = x
      BY <1>2 DEF Known
    <2>2. p # 1
      BY <1>3, <2>1
    <2>3. p + 1 \in 3 .. Len(u) /\ p + 1 \in 1 .. Len(u) /\ (p + 1) - 1 = p
      BY <1>5, <1>8, <2>2
    <2>4. u[p + 1] = w[p]
      BY <1>8, <2>3
    <2> QED BY <2>1, <2>3, <2>4
  <1> QED BY <1>8, <1>9, <1>10, <1>12, <1>13, <1>14 DEF Known

\* A new snapshot stands last and is the only one; it lists the mints, and of the
\* rows only what the conversation has touched.
LEMMA Resnapping ==
    ASSUME NEW s, NEW full, NEW owned, Known(s, full, owned), Headed(s),
           owned \subseteq Names, NEW inRows \in SUBSET Names, NEW fresh \in SUBSET owned,
           NEW u, u = Resnapped(s, inRows, fresh)
    PROVE  /\ Known(u, full, owned) /\ Headed(u) /\ OneSnapshot(u)
           /\ IsSnapshot(u[Len(u)])
           /\ fresh \subseteq Listed(u[Len(u)])
           /\ Hosted => Listed(u[Len(u)]) \subseteq owned
  <1>1. PICK w : w = WithoutSnapshots(s)
    OBVIOUS
  <1>2. s \in Seq(Message)
    BY DEF Known
  <1>3. Left(w, s, Len(s), "snapshot") /\ Known(w, full, owned)
    BY <1>1, <1>2, RolesGo, LeftKnown DEF WithoutSnapshots
  <1>4. w \in Seq(Message) /\ Headed(w)
    <2>1. 2 \in 0 .. Len(s) /\ \A i \in 1 .. 2 : s[i].role # "snapshot"
      BY <1>2 DEF Headed
    <2>2. Len(w) >= 2 /\ \A i \in 1 .. 2 : w[i] = s[i]
      BY <1>3, <2>1 DEF Left
    <2>3. w[1] = s[1] /\ w[2] = s[2]
      BY <2>2
    <2> QED BY <1>3, <2>2, <2>3 DEF Left, Headed
  <1>5. SeenIn(s) \subseteq owned
    <2> SUFFICES ASSUME NEW m \in ToSet(s) PROVE m.names \subseteq owned
      BY DEF SeenIn
    <2>1. PICK i \in 1 .. Len(s) : m = s[i]
      BY <1>2 DEF ToSet
    <2> QED BY <2>1 DEF Known
  <1>6. PICK m : m = Snapshot(s, inRows, fresh)
    OBVIOUS
  <1>7. /\ m.role = "snapshot" /\ m.names = fresh /\ m.rows = inRows
        /\ m.seen = SeenIn(s) \cup (IF Hosted THEN {} ELSE inRows)
    BY <1>6 DEF Snapshot, Seen
  <1>8. m \in Message
    BY <1>5, <1>6 DEF Snapshot, Seen, Message
  <1>9. u = Append(w, m)
    BY <1>1, <1>6 DEF Resnapped
  <1>10. Known(u, full, owned) /\ Headed(u)
    BY <1>3, <1>4, <1>7, <1>8, <1>9, Said
  <1>11. /\ Len(u) \in 1 .. Len(u) /\ u[Len(u)] = m /\ IsSnapshot(u[Len(u)])
         /\ Len(u) = Len(w) + 1 /\ \A i \in 1 .. Len(w) : u[i] = w[i]
    BY <1>4, <1>7, <1>8, <1>9, AppendProperties DEF IsSnapshot
  <1>12. OneSnapshot(u)
    <2> SUFFICES ASSUME NEW j \in 1 .. Len(u), IsSnapshot(u[j]), j # Len(u) PROVE FALSE
      BY <1>11 DEF OneSnapshot
    <2>1. j \in 1 .. Len(w)
      BY <1>4, <1>11
    <2> QED BY <1>3, <1>11, <2>1 DEF Left, IsSnapshot
  <1>13. fresh \subseteq Listed(m) /\ (Hosted => Listed(m) \subseteq owned)
    BY <1>5, <1>7 DEF Listed
  <1> QED BY <1>10, <1>11, <1>12, <1>13

-----------------------------------------------------------------------------
(***************************************************************************)
(* The prompt.                                                             *)
(***************************************************************************)

\* A nonempty set of positions has a greatest one.
LEMMA GreatestOfInterval ==
    ASSUME NEW n \in Nat, NEW S \in SUBSET (1 .. n), S # {}
    PROVE  \E m \in S : \A x \in S : x <= m
  <1> DEFINE Good == {k \in Nat : \A T \in SUBSET (1 .. k) :
                        T # {} => \E m \in T : \A x \in T : x <= m}
  <1>1. 0 \in Good
    <2>1. 1 .. 0 = {}
      OBVIOUS
    <2> QED BY <2>1
  <1>2. ASSUME NEW k \in Nat, k \in Good PROVE k + 1 \in Good
    <2> SUFFICES ASSUME NEW T \in SUBSET (1 .. k + 1), T # {}
                 PROVE  \E m \in T : \A x \in T : x <= m
      OBVIOUS
    <2>1. CASE k + 1 \in T
      BY <2>1
    <2>2. CASE k + 1 \notin T
      <3>1. T \in SUBSET (1 .. k)
        <4> SUFFICES ASSUME NEW x \in T PROVE x \in 1 .. k
          OBVIOUS
        <4>1. x \in 1 .. k + 1 /\ x # k + 1
          BY <2>2
        <4> QED BY <4>1
      <3> QED BY <1>2, <3>1
    <2> QED BY <2>1, <2>2
  <1>3. n \in Good
    <2> HIDE DEF Good
    <2> QED BY <1>1, <1>2, SetInduction
  <1> QED BY <1>3

\* There is a second greatest of at least three numbers.
LEMMA SecondGreatest ==
    ASSUME NEW n \in Nat, NEW S \in SUBSET (1 .. n), ~(Cardinality(S) <= 2)
    PROVE  \E i \in S : Cardinality({j \in S : j >= i}) = 2
  <1>1. IsFiniteSet(S)
    <2>1. IsFiniteSet(1 .. n)
      BY FS_Interval
    <2> QED BY <2>1, FS_Subset
  <1>2. Cardinality({}) = 0
    BY FS_EmptySet
  <1>3. PICK m \in S : \A x \in S : x <= m
    <2>1. S # {}
      BY <1>2
    <2> QED BY <2>1, GreatestOfInterval
  <1>4. IsFiniteSet(S \ {m}) /\ Cardinality(S \ {m}) = Cardinality(S) - 1
    BY <1>1, FS_RemoveElement
  <1>5. S \ {m} # {}
    <2>1. Cardinality(S) \in Nat
      BY <1>1, FS_CardinalityType
    <2> QED BY <1>2, <1>4, <2>1
  <1>6. PICK i \in S \ {m} : \A x \in S \ {m} : x <= i
    BY <1>5, GreatestOfInterval
  <1>7. {j \in S : j >= i} = {i} \cup {m}
    <2>1. S \subseteq Nat /\ i \in Nat /\ m \in Nat /\ m >= i /\ i >= i
      BY <1>3, <1>6
    <2>2. ASSUME NEW j \in S, j >= i PROVE j = i \/ j = m
      <3>1. CASE j # m
        <4>1. j <= i /\ j \in Nat
          BY <1>6, <2>1, <3>1
        <4> QED BY <2>1, <2>2, <4>1
      <3> QED BY <3>1
    <2> QED BY <1>6, <2>1, <2>2
  <1>8. Cardinality({i} \cup {m}) = 2
    <2>1. IsFiniteSet({i}) /\ Cardinality({i}) = 1
      BY FS_Singleton
    <2>2. Cardinality({i} \cup {m}) = 1 + 1
      BY <1>6, <2>1, FS_AddElement
    <2> QED BY <2>2
  <1> QED BY <1>6, <1>7, <1>8

\* What comes before the cutoff comes before an answer.
LEMMA CutoffIsAnAnswer ==
    ASSUME NEW ms \in Seq(Message)
    PROVE  Cutoff(ms) = 0 \/ Cutoff(ms) \in AssistantAt(ms)
  <1> DEFINE A == AssistantAt(ms)
             second == CHOOSE i \in A : Cardinality({j \in A : j >= i}) = 2
  <1>1. Cutoff(ms) = IF Cardinality(A) <= 2 THEN 0 ELSE second
    BY DEF Cutoff, RecentIterations
  <1>2. A \in SUBSET (1 .. Len(ms)) /\ Len(ms) \in Nat
    BY DEF AssistantAt
  <1> HIDE DEF A
  <1>3. ASSUME ~(Cardinality(A) <= 2) PROVE second \in A
    BY <1>2, <1>3, SecondGreatest
  <1> QED BY <1>1, <1>3 DEF A

\* What is in the concatenation of two lists is in one of them.
LEMMA MembersOfConcat ==
    ASSUME NEW S, NEW a \in Seq(S), NEW b \in Seq(S)
    PROVE  a \o b \in Seq(S) /\ ToSet(a \o b) = ToSet(a) \cup ToSet(b)
  <1> DEFINE c == a \o b
  <1>1. /\ c \in Seq(S) /\ Len(c) = Len(a) + Len(b) /\ Len(a) \in Nat /\ Len(b) \in Nat
        /\ \A i \in 1 .. Len(a) + Len(b) : c[i] = IF i <= Len(a) THEN a[i] ELSE b[i - Len(a)]
    BY ConcatProperties
  <1> HIDE DEF c
  <1>2. ToSet(c) \subseteq ToSet(a) \cup ToSet(b)
    <2> SUFFICES ASSUME NEW i \in 1 .. Len(c) PROVE c[i] \in ToSet(a) \cup ToSet(b)
      BY <1>1 DEF ToSet
    <2>1. CASE i <= Len(a)
      BY <1>1, <2>1 DEF ToSet
    <2>2. CASE ~(i <= Len(a))
      <3>1. i - Len(a) \in 1 .. Len(b)
        BY <1>1, <2>2
      <3> QED BY <1>1, <2>2, <3>1 DEF ToSet
    <2> QED BY <2>1, <2>2
  <1>3. ToSet(a) \subseteq ToSet(c)
    <2> SUFFICES ASSUME NEW i \in 1 .. Len(a) PROVE a[i] \in ToSet(c)
      BY DEF ToSet
    <2>1. i \in 1 .. Len(c) /\ c[i] = a[i]
      BY <1>1
    <2> QED BY <1>1, <2>1 DEF ToSet
  <1>4. ToSet(b) \subseteq ToSet(c)
    <2> SUFFICES ASSUME NEW i \in 1 .. Len(b) PROVE b[i] \in ToSet(c)
      BY DEF ToSet
    <2>1. Len(a) + i \in 1 .. Len(c) /\ ~(Len(a) + i <= Len(a)) /\ (Len(a) + i) - Len(a) = i
      BY <1>1
    <2>2. c[Len(a) + i] = b[i]
      BY <1>1, <2>1
    <2>3. DOMAIN c = 1 .. Len(c)
      BY <1>1
    <2>4. \E x \in DOMAIN c : c[x] = b[i]
      BY <2>1, <2>2, <2>3
    <2> QED BY <2>4 DEF ToSet
  <1> QED BY <1>1, <1>2, <1>3, <1>4 DEF c

\* One snapshot or none: nothing is dropped before rendering.
LEMMA RenderAll ==
    ASSUME NEW ms \in Seq(Message), OneSnapshot(ms)
    PROVE  ToRender(ms) = ms /\ Cardinality({i \in DOMAIN ms : IsSnapshot(ms[i])}) = 1
  <1>1. PICK i \in 1 .. Len(ms) :
          IsSnapshot(ms[i]) /\ \A j \in 1 .. Len(ms) : IsSnapshot(ms[j]) => j = i
    BY DEF OneSnapshot
  <1>2. {j \in DOMAIN ms : IsSnapshot(ms[j])} = {i}
    BY <1>1
  <1>3. Cardinality({i}) = 1
    BY FS_Singleton
  <1>4. Cardinality({j \in DOMAIN ms : IsSnapshot(ms[j])}) = 1
    BY <1>2, <1>3
  <1> QED BY <1>4 DEF ToRender

Shown == [role : Roles, id : Nat, mode : {"minimal", "default"}]

\* The prompt shows each tool result of the conversation once, in its mode.
LEMMA ResultsShown ==
    ASSUME messages \in Seq(Message), OneSnapshot(messages), NEW mode
    PROVE  ResultsIn(mode) =
             {messages[i].id : i \in {j \in ToolAt(messages) : Mode(messages, j) = mode}}
  <1> DEFINE ms == messages
             shown(i) == [role |-> ms[i].role, id |-> ms[i].id, mode |-> Mode(ms, i)]
             body == [i \in DOMAIN ms |-> shown(i)]
             before == Instruction \o body
  <1>1. Rendered = before \o Addendum
    BY RenderAll DEF Rendered
  <1>2. Inserted \in Shown /\ Inserted.role # "tool"
    BY DEF Inserted, Shown, Roles
  <1>3. \A i \in DOMAIN ms : shown(i) \in Shown
    <2> TAKE i \in DOMAIN ms
    <2>1. ms[i] \in Message
      OBVIOUS
    <2>2. ms[i].role \in Roles /\ ms[i].id \in Nat
      BY <2>1 DEF Message, Roles
    <2>3. Mode(ms, i) \in {"minimal", "default"}
      BY DEF Mode
    <2> QED BY <2>2, <2>3 DEF Shown
  <1> HIDE DEF shown
  <1>4. body \in Seq(Shown) /\ DOMAIN body = DOMAIN ms
    <2>1. DOMAIN ms = 1 .. Len(ms) /\ Len(ms) \in Nat
      OBVIOUS
    <2>2. body \in [1 .. Len(ms) -> Shown]
      BY <1>3, <2>1
    <2> QED BY <2>1, <2>2, IsASeq
  <1>5. ToSet(body) = {shown(i) : i \in DOMAIN ms}
    BY DEF ToSet
  <1>6. /\ Instruction \in Seq(Shown) /\ ToSet(Instruction) \subseteq {Inserted}
        /\ Addendum \in Seq(Shown) /\ ToSet(Addendum) \subseteq {Inserted}
    BY <1>2 DEF Instruction, Addendum, ToSet
  <1> HIDE DEF body
  <1>7. before \in Seq(Shown) /\ ToSet(before) = ToSet(Instruction) \cup ToSet(body)
    BY <1>4, <1>6, MembersOfConcat
  <1> HIDE DEF before
  <1>8. ToSet(Rendered) = ToSet(Instruction) \cup ToSet(body) \cup ToSet(Addendum)
    BY <1>1, <1>6, <1>7, MembersOfConcat
  <1>9. {m \in ToSet(Rendered) : m.role = "tool" /\ m.mode = mode}
          = {shown(i) : i \in {j \in ToolAt(ms) : Mode(ms, j) = mode}}
    BY <1>2, <1>5, <1>6, <1>8 DEF shown, ToolAt
  <1>10. \A i : shown(i).id = ms[i].id
    BY DEF shown
  <1> HIDE DEF shown
  <1>11. {m.id : m \in {n \in ToSet(Rendered) : n.role = "tool" /\ n.mode = mode}}
           = {ms[i].id : i \in {j \in ToolAt(ms) : Mode(ms, j) = mode}}
    BY <1>9, <1>10
  <1> QED BY <1>11 DEF ResultsIn

\* What is compacted has been read, and a request that is answered shows the rest.
LEMMA CompactedIsRead ==
    ASSUME Known(messages, read, touched), OneSnapshot(messages)
    PROVE  /\ ResultsIn("minimal") \subseteq read
           /\ \A i \in ToolAt(messages) : messages[i].id \in read \cup ResultsIn("default")
           /\ \A x \in read \cup ResultsIn("default") :
                \E i \in ToolAt(messages) : messages[i].id = x
  <1>1. messages \in Seq(Message) /\ Len(messages) \in Nat
    BY DEF Known
  <1>2. \A mode : ResultsIn(mode) =
          {messages[i].id : i \in {j \in ToolAt(messages) : Mode(messages, j) = mode}}
    BY <1>1, ResultsShown
  <1>3. ASSUME NEW i \in ToolAt(messages), Mode(messages, i) = "minimal"
        PROVE  messages[i].id \in read
    <2>1. i \in 1 .. Len(messages) /\ messages[i].role = "tool" /\ i < Cutoff(messages)
      BY <1>1, <1>3 DEF ToolAt, Mode
    <2>2. Cutoff(messages) \in AssistantAt(messages)
      BY <1>1, <2>1, CutoffIsAnAnswer
    <2>3. PICK j \in 1 .. Len(messages) : i < j /\ messages[j].role = "assistant"
      BY <1>1, <2>1, <2>2 DEF AssistantAt
    <2> QED BY <2>1, <2>3 DEF Known
  <1>4. \A i \in ToolAt(messages) : Mode(messages, i) \in {"minimal", "default"}
    BY DEF Mode
  <1>5. \A x \in read : \E i \in ToolAt(messages) : messages[i].id = x
    BY <1>1 DEF Known, ToolAt
  <1> QED BY <1>2, <1>3, <1>4, <1>5

\* Exactly the results of s are read in full.
AllRead(s, full) ==
    /\ \A i \in ToolAt(s) : s[i].id \in full
    /\ \A x \in full : \E i \in ToolAt(s) : s[i].id = x

Results(s, owned) ==
    \A i \in 1 .. Len(s) : s[i].role = "tool" /\ s[i].names \subseteq owned

Extended(s, results) == Append(s, Plain("assistant")) \o results

\* An answer and the results of its calls are added.
LEMMA Answered ==
    ASSUME NEW s, NEW old, NEW before, Known(s, old, before), Headed(s), OneSnapshot(s),
           NEW full, NEW owned, before \subseteq owned, AllRead(s, full),
           NEW results \in Seq(Message), Results(results, owned),
           NEW u, u = Extended(s, results)
    PROVE  Known(u, full, owned) /\ Headed(u) /\ OneSnapshot(u)
  <1>1. PICK c : c = Plain("assistant")
    OBVIOUS
  <1>2. c \in Message /\ c.role = "assistant" /\ c.names = {}
    BY <1>1 DEF Plain, Message, Roles
  <1>3. s \in Seq(Message) /\ Len(s) \in Nat /\ Len(results) \in Nat
    BY DEF Known
  <1> DEFINE a == Append(s, c)
  <1>4. /\ a \in Seq(Message) /\ Len(a) = Len(s) + 1 /\ a[Len(s) + 1] = c
        /\ \A i \in 1 .. Len(s) : a[i] = s[i]
    BY <1>2, <1>3, AppendProperties
  <1>5. u = a \o results
    BY <1>1 DEF Extended
  <1> HIDE DEF a
  <1>6. /\ u \in Seq(Message) /\ Len(u) = Len(s) + 1 + Len(results)
        /\ \A i \in 1 .. Len(a) + Len(results) :
             u[i] = IF i <= Len(a) THEN a[i] ELSE results[i - Len(a)]
    <2>1. /\ u \in Seq(Message) /\ Len(u) = Len(a) + Len(results)
          /\ \A i \in 1 .. Len(a) + Len(results) :
               u[i] = IF i <= Len(a) THEN a[i] ELSE results[i - Len(a)]
      <3>1. /\ a \o results \in Seq(Message) /\ Len(a \o results) = Len(a) + Len(results)
            /\ \A i \in 1 .. Len(a) + Len(results) :
                 (a \o results)[i] = IF i <= Len(a) THEN a[i] ELSE results[i - Len(a)]
        BY <1>4, ConcatProperties
      <3> QED BY <1>5, <3>1
    <2>2. Len(u) = Len(s) + 1 + Len(results)
      BY <1>4, <2>1
    <2> QED BY <2>1, <2>2
  <1>7. \A i \in 1 .. Len(s) : i \in 1 .. Len(u) /\ u[i] = s[i]
    <2> TAKE i \in 1 .. Len(s)
    <2>1. i \in 1 .. Len(a) + Len(results) /\ i <= Len(a) /\ i \in 1 .. Len(u)
      BY <1>3, <1>4, <1>6
    <2> QED BY <1>4, <1>6, <2>1
  <1>8. u[Len(s) + 1] = c
    <2>1. Len(s) + 1 \in 1 .. Len(a) + Len(results) /\ Len(s) + 1 <= Len(a)
      BY <1>3, <1>4
    <2> QED BY <1>4, <1>6, <2>1
  <1>9. ASSUME NEW i \in 1 .. Len(u), i > Len(s) + 1
        PROVE  u[i].role = "tool" /\ u[i].names \subseteq owned
    <2>1. /\ i \in 1 .. Len(a) + Len(results) /\ ~(i <= Len(a))
          /\ i - Len(a) \in 1 .. Len(results)
      BY <1>3, <1>4, <1>6, <1>9
    <2>2. u[i] = results[i - Len(a)]
      BY <1>6, <2>1
    <2> QED BY <2>1, <2>2 DEF Results
  <1>10. \A i \in 1 .. Len(u) : i \in 1 .. Len(s) \/ i = Len(s) + 1 \/ i > Len(s) + 1
    BY <1>3
  <1>11. \A i \in 1 .. Len(u) : u[i].names \subseteq owned
    BY <1>2, <1>7, <1>8, <1>9, <1>10 DEF Known
  <1>12. ASSUME NEW i \in 1 .. Len(u), NEW j \in 1 .. Len(u), i < j,
                u[i].role = "tool", u[j].role = "assistant"
         PROVE  u[i].id \in full
    <2>1. ~(j > Len(s) + 1)
      BY <1>9, <1>12
    <2>2. i \in 1 .. Len(s)
      BY <1>3, <1>12, <2>1
    <2> QED BY <1>3, <1>7, <1>12, <2>2 DEF ToolAt, AllRead
  <1>13. \A x \in full : \E i \in 1 .. Len(u) : u[i].role = "tool" /\ u[i].id = x
    <2> TAKE x \in full
    <2>1. PICK i \in 1 .. Len(s) : s[i].role = "tool" /\ s[i].id = x
      BY <1>3 DEF ToolAt, AllRead
    <2> QED BY <1>7, <2>1
  <1>14. Headed(u)
    <2>1. 1 \in 1 .. Len(s) /\ 2 \in 1 .. Len(s) /\ Len(u) >= 2
      BY <1>3, <1>6 DEF Headed
    <2> QED BY <1>7, <2>1 DEF Headed
  <1>15. OneSnapshot(u)
    <2>1. PICK i \in 1 .. Len(s) :
            IsSnapshot(s[i]) /\ \A j \in 1 .. Len(s) : IsSnapshot(s[j]) => j = i
      BY DEF OneSnapshot
    <2>2. ASSUME NEW j \in 1 .. Len(u), IsSnapshot(u[j]) PROVE j = i
      <3>1. j \in 1 .. Len(s)
        BY <1>2, <1>8, <1>9, <1>10, <2>2 DEF IsSnapshot
      <3> QED BY <1>7, <2>1, <2>2, <3>1
    <2>3. i \in 1 .. Len(u) /\ IsSnapshot(u[i])
      BY <1>7, <2>1
    <2> QED BY <2>2, <2>3 DEF OneSnapshot
  <1> QED BY <1>6, <1>11, <1>12, <1>13, <1>14, <1>15 DEF Known

-----------------------------------------------------------------------------
(***************************************************************************)
(* The inductive invariant.                                                *)
(***************************************************************************)

Begun == Known(messages, read, touched) /\ Headed(messages) /\ OneSnapshot(messages)

ConversationInv ==
    /\ phase \in AtRest \cup {"top", "asked"}
    /\ rows \subseteq Names /\ published \subseteq Names
    /\ minted \subseteq touched /\ touched \subseteq Names
    /\ IF messages = <<>> THEN read = {} /\ phase \in AtRest ELSE Begun
    /\ record # NoRecord =>
         phase \in AtRest /\ record.messages = messages /\ messages # <<>>
    /\ phase = "asked" =>
         LET snapshot == messages[Len(messages)]
         IN /\ IsSnapshot(snapshot)
            /\ minted \subseteq Listed(snapshot)
            /\ Hosted => Listed(snapshot) \subseteq touched
    /\ pending \in BOOLEAN /\ iterations \in 0..MaxIterations /\ turns \in 0..MaxTurns

IInv == ConversationInv /\ LessonsInv

\* A turn begins with the catalog placed, the question said and a new snapshot.
LEMMA TurnBegins ==
    ASSUME NEW s, NEW full, NEW owned, Known(s, full, owned), owned \subseteq Names,
           Len(s) >= 1, s[1].role = "system", published \subseteq Names,
           NEW asked, asked \in {WithCatalog(s), Append(WithCatalog(s), Plain("user"))},
           NEW u, u = Resnapped(asked, published, {})
    PROVE  u # <<>> /\ Known(u, full, owned) /\ Headed(u) /\ OneSnapshot(u)
  <1>1. PICK c : c = WithCatalog(s)
    OBVIOUS
  <1>2. Known(c, full, owned) /\ Headed(c)
    BY <1>1, CatalogPlaced
  <1>3. PICK m : m = Plain("user")
    OBVIOUS
  <1>4. m \in Message /\ m.role = "user" /\ m.names = {}
    BY <1>3 DEF Plain, Message, Roles
  <1>5. Known(asked, full, owned) /\ Headed(asked)
    <2>1. Known(Append(c, m), full, owned) /\ Headed(Append(c, m))
      BY <1>2, <1>4, Said
    <2> QED BY <1>1, <1>2, <1>3, <2>1
  <1>6. Known(u, full, owned) /\ Headed(u) /\ OneSnapshot(u)
    BY <1>5, Resnapping
  <1>7. u # <<>>
    BY <1>6 DEF Headed
  <1> QED BY <1>6, <1>7

\* A turn starts, on the old messages or on new ones (Agent.run).
LEMMA StartTurnStep ==
    ASSUME ConversationInv, NEW anew \in BOOLEAN, NEW continues \in BOOLEAN,
           StartTurn(anew, continues)
    PROVE  ConversationInv'
  <1> DEFINE s == IF anew THEN <<Plain("system")>> ELSE messages
             base == WithCatalog(s)
             asked == IF continues THEN base ELSE Append(base, Plain("user"))
  <1>1. messages' = Resnapped(asked, published, {})
    BY DEF StartTurn
  <1>2. Known(s, read', touched') /\ Len(s) >= 1 /\ s[1].role = "system"
    <2>1. CASE anew
      <3>1. PICK m : m = Plain("system")
        OBVIOUS
      <3>2. m \in Message /\ m.role = "system" /\ m.names = {}
        BY <3>1 DEF Plain, Message, Roles
      <3>3. <<m>> \in Seq(Message) /\ Len(<<m>>) = 1 /\ <<m>>[1] = m
        BY <3>2
      <3>4. Known(<<m>>, {}, {})
        BY <3>2, <3>3 DEF Known
      <3>5. read' = {} /\ touched' = {} /\ s = <<m>>
        BY <2>1, <3>1 DEF StartTurn
      <3> QED BY <3>2, <3>3, <3>4, <3>5
    <2>2. CASE ~anew
      <3>1. messages # <<>> /\ read' = read /\ touched' = touched /\ s = messages
        BY <2>2 DEF StartTurn
      <3>2. Known(messages, read, touched) /\ Headed(messages)
        BY <3>1 DEF ConversationInv, Begun
      <3> QED BY <3>1, <3>2 DEF Headed
    <2> QED BY <2>1, <2>2
  <1>3. touched' \subseteq Names /\ published \subseteq Names
    BY DEF StartTurn, ConversationInv
  <1> HIDE DEF s
  <1>4. asked \in {WithCatalog(s), Append(WithCatalog(s), Plain("user"))}
    OBVIOUS
  <1> HIDE DEF asked, base
  <1>5. messages' # <<>> /\ Begun'
    BY <1>1, <1>2, <1>3, <1>4, TurnBegins DEF Begun
  <1>6. /\ phase' = "top" /\ rows' = published /\ published' = published /\ minted' = {}
        /\ record' = NoRecord
        /\ iterations' = iterations /\ turns' = turns + 1 /\ turns < MaxTurns
    BY DEF StartTurn
  <1>7. pending' \in BOOLEAN
    BY DEF StartTurn
  <1>8. iterations' \in 0..MaxIterations /\ turns' \in 0..MaxTurns
    BY <1>6, BoundsAssumption DEF ConversationInv
  <1> QED BY <1>3, <1>5, <1>6, <1>7, <1>8 DEF ConversationInv

\* A record is resumed with the messages it holds (Agent.resume).
LEMMA ResumeStep ==
    ASSUME ConversationInv, ResumeKept
    PROVE  ConversationInv'
  <1>1. /\ record.messages = messages /\ messages # <<>> /\ Begun
        /\ touched \subseteq Names /\ published \subseteq Names
    BY DEF ResumeKept, ConversationInv
  <1>2. /\ messages' = Resnapped(Append(WithCatalog(messages), Plain("user")), published, {})
        /\ read' = read /\ touched' = touched
    BY <1>1 DEF ResumeKept
  <1>3. PICK s : s = messages
    OBVIOUS
  <1>4. PICK asked : asked = Append(WithCatalog(s), Plain("user"))
    OBVIOUS
  <1>5. Known(s, read, touched) /\ Len(s) >= 1 /\ s[1].role = "system"
    BY <1>1, <1>3 DEF Begun, Headed
  <1>6. messages' # <<>> /\ Begun'
    BY <1>1, <1>2, <1>3, <1>4, <1>5, TurnBegins DEF Begun
  <1>7. /\ phase' = "top" /\ rows' = published /\ published' = published /\ minted' = {}
        /\ record' = NoRecord
        /\ iterations' = iterations /\ turns' = turns + 1 /\ turns < MaxTurns
    BY DEF ResumeKept
  <1>8. pending' \in BOOLEAN
    BY DEF ResumeKept
  <1>9. iterations' \in 0..MaxIterations /\ turns' \in 0..MaxTurns
    BY <1>7, BoundsAssumption DEF ConversationInv
  <1> QED BY <1>1, <1>2, <1>6, <1>7, <1>8, <1>9 DEF ConversationInv

\* A failure does not change what is known, whatever else of the answer is kept.
LEMMA FailsStep ==
    ASSUME ConversationInv, phase \in {"top", "asked"}, NEW k, NEW ms, Fails(k, ms),
           Begun', UNCHANGED <<rows, minted, published, turns, touched>>,
           iterations' \in 0..MaxIterations
    PROVE  ConversationInv'
  <1>1. record = NoRecord
    BY DEF ConversationInv, AtRest
  <1>2. messages' = ms /\ messages' # <<>>
    BY DEF Fails, Begun, Headed
  <1>3. \/ phase' = "top" /\ pending' \in BOOLEAN /\ record' = NoRecord
        \/ phase' = "idle" /\ pending' \in BOOLEAN
             /\ (record' = NoRecord \/ record'.messages = messages')
    BY <1>1, <1>2 DEF Fails, Saved, ConversationInv
  <1> QED BY <1>2, <1>3 DEF ConversationInv, AtRest

\* The snapshot is replaced and the model is asked (on_iteration_start).
LEMMA RequestStep ==
    ASSUME ConversationInv, Request
    PROVE  ConversationInv'
  <1>1. phase = "top" /\ iterations < MaxIterations /\ iterations' = iterations + 1
    BY DEF Request, MayAsk
  <1>2. Begun /\ record = NoRecord
    BY <1>1 DEF ConversationInv, AtRest
  <1>3. /\ messages' = Resnapped(messages, rows, minted) /\ phase' = "asked"
        /\ UNCHANGED <<rows, minted, published, turns, read, touched, pending, record>>
    BY DEF Request, failure
  <1>4. PICK u : u = Resnapped(messages, rows, minted)
    OBVIOUS
  <1>5. /\ Known(u, read, touched) /\ Headed(u) /\ OneSnapshot(u) /\ IsSnapshot(u[Len(u)])
        /\ minted \subseteq Listed(u[Len(u)])
        /\ Hosted => Listed(u[Len(u)]) \subseteq touched
    BY <1>2, <1>4, Resnapping DEF Begun, ConversationInv
  <1>6. messages' = u /\ u # <<>>
    BY <1>3, <1>4, <1>5 DEF Headed
  <1>7. Begun'
    BY <1>3, <1>5, <1>6 DEF Begun
  <1> QED BY <1>1, <1>2, <1>3, <1>5, <1>6, <1>7, BoundsAssumption DEF ConversationInv

\* An answer is rejected: a message is added that has no result.
LEMMA RejectedStep ==
    ASSUME ConversationInv, LessonsInv, AnswerRejected
    PROVE  ConversationInv'
  <1>1. phase = "asked" /\ Begun
    BY DEF AnswerRejected, ConversationInv, AtRest
  <1>2. PICK full : full = read \cup ResultsIn("default")
    OBVIOUS
  <1>3. PICK s, old, owned : s = messages /\ old = read /\ owned = touched
    OBVIOUS
  <1>4. PICK u : u = Extended(s, <<>>)
    OBVIOUS
  <1>5. AllRead(s, full)
    BY <1>1, <1>2, <1>3, CompactedIsRead DEF Begun, AllRead
  <1>6. <<>> \in Seq(Message) /\ Results(<<>>, owned)
    BY DEF Results
  <1>7. Known(u, full, owned) /\ Headed(u) /\ OneSnapshot(u)
    <2>1. Known(s, old, owned) /\ Headed(s) /\ OneSnapshot(s)
      BY <1>1, <1>3 DEF Begun
    <2>2. owned \subseteq owned
      OBVIOUS
    <2> QED BY <1>4, <1>5, <1>6, <2>1, <2>2, Answered
  <1>8. u = Append(s, Plain("assistant"))
    <2>1. PICK c : c = Plain("assistant")
      OBVIOUS
    <2>2. c \in Message /\ s \in Seq(Message)
      BY <1>1, <1>3, <2>1 DEF Begun, Known, Plain, Message, Roles
    <2>3. Append(s, c) \in Seq(Message)
      BY <2>2
    <2> QED BY <1>4, <2>1, <2>3 DEF Extended
  <1>9. PICK k \in MayFail : Fails(k, Append(messages, Plain("assistant")))
    BY DEF AnswerRejected
  <1>10. messages' = u /\ read' = full /\ touched' = owned
    BY <1>2, <1>3, <1>8, <1>9 DEF AnswerRejected, Fails
  <1>11. Begun'
    BY <1>7, <1>10 DEF Begun
  <1>12. UNCHANGED <<rows, minted, published, turns, touched>>
         /\ iterations' \in 0..MaxIterations
    BY DEF AnswerRejected, bounds, ConversationInv
  <1> QED BY <1>1, <1>9, <1>11, <1>12, FailsStep

\* What the calls of a batch name.
LEMMA BatchNames ==
    ASSUME published \subseteq Names, NEW batch \in Batches
    PROVE  /\ batch \in Seq({"read", "write", "work"} \X Names)
           /\ WrittenBy(batch) \subseteq Names /\ ReadBy(batch) \subseteq Names
           /\ \A i \in DOMAIN batch : Reads(batch[i]) \subseteq ReadBy(batch)
  <1> DEFINE Calls == {"read", "write", "work"} \X Names
  <1>1. batch \in Seq(Calls)
    BY BatchesAssumption
  <1>2. \A c \in Calls : c[2] \in Names
    OBVIOUS
  <1> HIDE DEF Calls
  <1>3. ToSet(batch) \subseteq Calls
    BY <1>1 DEF ToSet
  <1>4. WrittenBy(batch) \subseteq Names
    BY <1>2, <1>3 DEF WrittenBy, Writes
  <1>5. ReadBy(batch) \subseteq Names
    BY <1>2, <1>3 DEF ReadBy, Reads
  <1>6. \A i \in DOMAIN batch : Reads(batch[i]) \subseteq ReadBy(batch)
    BY DEF ReadBy, ToSet
  <1> QED BY <1>1, <1>4, <1>5, <1>6 DEF Calls

\* The model answers and the results of its calls are added.
LEMMA AnswerStep ==
    ASSUME ConversationInv, Answer
    PROVE  ConversationInv'
  <1>1. phase = "asked" /\ Begun /\ record = NoRecord
    BY DEF Answer, ConversationInv, AtRest
  <1>2. PICK batch \in Batches :
          LET first == Cardinality(ToolAt(messages))
              results == [i \in DOMAIN batch |-> ToolMessage(first + i, Reads(batch[i]))]
          IN /\ messages' = Append(messages, Plain("assistant")) \o results
             /\ minted' = minted \cup WrittenBy(batch)
             /\ published' = published \cup WrittenBy(batch)
             /\ touched' = touched \cup WrittenBy(batch) \cup ReadBy(batch)
    BY DEF Answer
  <1> DEFINE first == Cardinality(ToolAt(messages))
             results == [i \in DOMAIN batch |-> ToolMessage(first + i, Reads(batch[i]))]
  <1>3. PICK full : full = read \cup ResultsIn("default")
    OBVIOUS
  <1>4. PICK s, old, before, owned :
          s = messages /\ old = read /\ before = touched
            /\ owned = touched \cup WrittenBy(batch) \cup ReadBy(batch)
    OBVIOUS
  <1>5. AllRead(s, full)
    BY <1>1, <1>3, <1>4, CompactedIsRead DEF Begun, AllRead
  <1>6. /\ batch \in Seq({"read", "write", "work"} \X Names)
        /\ WrittenBy(batch) \subseteq Names /\ ReadBy(batch) \subseteq Names
        /\ \A i \in DOMAIN batch : Reads(batch[i]) \subseteq ReadBy(batch)
    BY BatchNames DEF ConversationInv
  <1>7. first \in Nat
    <2>1. messages \in Seq(Message) /\ Len(messages) \in Nat
      BY <1>1 DEF Begun, Known
    <2>2. IsFiniteSet(1 .. Len(messages))
      BY <2>1, FS_Interval
    <2>3. ToolAt(messages) \subseteq 1 .. Len(messages)
      BY <2>1 DEF ToolAt
    <2>4. IsFiniteSet(ToolAt(messages))
      BY <2>2, <2>3, FS_Subset
    <2> QED BY <2>4, FS_CardinalityType
  <1> HIDE DEF first
  <1>8. /\ results \in Seq(Message)
        /\ \A i \in 1 .. Len(results) :
             results[i].role = "tool" /\ results[i].names \subseteq owned
    <2>1. DOMAIN batch = 1 .. Len(batch) /\ Len(batch) \in Nat
      BY <1>6
    <2>2. ASSUME NEW i \in 1 .. Len(batch)
          PROVE  ToolMessage(first + i, Reads(batch[i])) \in Message
      <3>1. PICK id, tags : id = first + i /\ tags = Reads(batch[i])
        OBVIOUS
      <3>2. id \in Nat /\ tags \subseteq Names
        BY <1>6, <1>7, <2>1, <3>1
      <3>3. ToolMessage(id, tags) \in Message
        BY <3>2 DEF ToolMessage, Message, Roles
      <3> QED BY <3>1, <3>3
    <2>3. results \in [1 .. Len(batch) -> Message]
      BY <2>1, <2>2
    <2>4. results \in Seq(Message) /\ Len(results) = Len(batch)
      BY <2>1, <2>3, SeqDef
    <2>5. ASSUME NEW i \in 1 .. Len(batch)
          PROVE  results[i].role = "tool" /\ results[i].names \subseteq owned
      <3>1. results[i] = ToolMessage(first + i, Reads(batch[i]))
        BY <2>1
      <3>2. results[i].role = "tool" /\ results[i].names = Reads(batch[i])
        BY <3>1 DEF ToolMessage
      <3> QED BY <1>4, <1>6, <2>1, <3>2
    <2> QED BY <2>4, <2>5
  <1>9. PICK added \in Seq(Message) : added = results
    BY <1>8
  <1>10. messages' = Extended(s, added)
    BY <1>2, <1>4, <1>9 DEF first, Extended
  <1> HIDE DEF results
  <1>11. PICK u : u = Extended(s, added)
    OBVIOUS
  <1>12. Known(u, full, owned) /\ Headed(u) /\ OneSnapshot(u)
    <2>1. Known(s, old, before) /\ Headed(s) /\ OneSnapshot(s) /\ before \subseteq owned
      BY <1>1, <1>4 DEF Begun
    <2>2. Results(added, owned)
      BY <1>8, <1>9 DEF Results
    <2> QED BY <1>5, <1>9, <1>11, <2>1, <2>2, Answered
  <1>13. messages' = u /\ read' = full /\ touched' = owned
    BY <1>2, <1>3, <1>4, <1>10, <1>11 DEF Answer
  <1>14. Begun' /\ messages' # <<>>
    BY <1>12, <1>13 DEF Begun, Headed
  <1>15. /\ rows' = rows /\ pending' = pending /\ iterations' = iterations /\ turns' = turns
         /\ phase' \in {"top", "idle"}
    BY DEF Answer, failure, bounds
  <1>16. record' # NoRecord => phase' = "idle" /\ record'.messages = messages'
    BY <1>1 DEF Answer, Saved
  <1>17. /\ minted' \subseteq touched' /\ touched' \subseteq Names /\ published' \subseteq Names
         /\ rows' \subseteq Names
    BY <1>2, <1>6, <1>15 DEF ConversationInv
  <1> QED BY <1>14, <1>15, <1>16, <1>17 DEF ConversationInv, AtRest

\* The inductive invariant: the messages keep their shape, a result with an answer
\* after it was read in full, names of a conversation were touched, and the list of
\* lessons is sorted by what failed later, in the state and in the record.
THEOREM InductivePrompt == Spec => []IInv
  <1>1. Init => IInv
    <2> SUFFICES ASSUME Init PROVE IInv
      OBVIOUS
    <2>1. LessonsInv
      BY LessonsCapAssumption DEF Init, LessonsInv, LessonTypes, Latest, Distinct, Holds
    <2>2. pending \in BOOLEAN
      BY DEF Init
    <2>3. ConversationInv
      BY <2>2, BoundsAssumption DEF Init, ConversationInv, AtRest
    <2> QED BY <2>1, <2>3 DEF IInv
  <1>2. IInv /\ [Next]_vars => IInv'
    <2> SUFFICES ASSUME IInv, [Next]_vars PROVE IInv'
      OBVIOUS
    <2> USE DEF IInv
    <2>1. LessonsInv'
      BY LessonsStep
    <2>2. CASE \E anew, continues \in BOOLEAN : StartTurn(anew, continues)
      BY <2>1, <2>2, StartTurnStep
    <2>3. CASE ResumeKept
      BY <2>1, <2>3, ResumeStep
    <2>4. CASE ResumeStored
      <3>1. /\ phase' = "raised" /\ phase \in AtRest
            /\ UNCHANGED <<messages, rows, minted, published, touched, read, record,
                           pending, iterations, turns>>
        BY <2>4 DEF ResumeStored, conversation, failure, bounds
      <3> QED BY <2>1, <3>1 DEF ConversationInv, Begun, AtRest
    <2>5. CASE OtherPublishes
      <3>1. /\ published' \subseteq Names
            /\ UNCHANGED <<messages, rows, minted, phase, touched, read, record,
                           pending, iterations, turns>>
        BY <2>5 DEF OtherPublishes, conversation, failure, bounds, ConversationInv
      <3> QED BY <2>1, <3>1 DEF ConversationInv, Begun
    <2>6. CASE LimitHit
      <3>1. PICK k \in MayFail : Fails(k, messages)
        BY <2>6 DEF LimitHit
      <3>2. /\ phase = "top" /\ UNCHANGED <<rows, minted, published, turns, read, touched>>
            /\ iterations < MaxIterations /\ iterations' = iterations + 1
        BY <2>6 DEF LimitHit
      <3>3. iterations' \in 0..MaxIterations
        BY <3>2, BoundsAssumption DEF ConversationInv
      <3>4. Begun /\ messages' = messages
        BY <3>1, <3>2 DEF Fails, ConversationInv, AtRest
      <3>5. Begun'
        BY <3>2, <3>4 DEF Begun
      <3> QED BY <2>1, <3>1, <3>2, <3>3, <3>5, FailsStep
    <2>7. CASE Request
      BY <2>1, <2>7, RequestStep
    <2>8. CASE RequestFails
      <3>1. PICK k \in MayFail : Fails(k, messages)
        BY <2>8 DEF RequestFails
      <3>2. /\ phase = "asked"
            /\ UNCHANGED <<rows, minted, published, turns, read, touched, iterations>>
        BY <2>8 DEF RequestFails, bounds
      <3>3. iterations' \in 0..MaxIterations
        BY <3>2 DEF ConversationInv
      <3>4. Begun /\ messages' = messages
        BY <3>1, <3>2 DEF Fails, ConversationInv, AtRest
      <3>5. Begun'
        BY <3>2, <3>4 DEF Begun
      <3> QED BY <2>1, <3>1, <3>2, <3>3, <3>5, FailsStep
    <2>9. CASE AnswerRejected
      BY <2>1, <2>9, RejectedStep
    <2>10. CASE Answer
      BY <2>1, <2>10, AnswerStep
    <2>11. CASE UNCHANGED vars
      <3>1. UNCHANGED <<messages, rows, minted, phase, published, touched, read, record,
                        pending, iterations, turns>>
        BY <2>11 DEF vars, conversation, failure, bounds
      <3> QED BY <2>1, <3>1 DEF ConversationInv, Begun
    <2> QED BY <2>2, <2>3, <2>4, <2>5, <2>6, <2>7, <2>8, <2>9, <2>10, <2>11 DEF Next
  <1> QED BY <1>1, <1>2, PTL DEF Spec

\* The types, the order of the first messages, and one snapshot, whatever ends the
\* requests and however turns and resumptions follow each other.
THEOREM PromptTypes == Spec => []TypeOK
  <1>1. IInv => TypeOK
    <2> SUFFICES ASSUME IInv PROVE TypeOK
      OBVIOUS
    <2>1. failed \subseteq Kinds /\ later \subseteq Kinds \X Kinds
      BY DEF IInv, LessonsInv, LessonTypes
    <2>2. minted \subseteq Names
      BY DEF IInv, ConversationInv
    <2>3. CASE messages = <<>>
      BY <2>1, <2>2, <2>3 DEF TypeOK, IInv, ConversationInv, AtRest
    <2>4. CASE messages # <<>>
      <3>1. /\ Known(messages, read, touched) /\ Headed(messages) /\ OneSnapshot(messages)
            /\ messages \in Seq(Message)
        BY <2>4 DEF IInv, ConversationInv, Begun, Known
      <3>2. \A i \in DOMAIN messages : messages[i].role \in Roles
        <4> TAKE i \in DOMAIN messages
        <4>1. messages[i] \in Message
          BY <3>1
        <4> QED BY <4>1 DEF Message, Roles
      <3>3. read \subseteq {messages[i].id : i \in ToolAt(messages)}
        BY <3>1 DEF Known, ToolAt
      <3>4. Cardinality({i \in DOMAIN messages : IsSnapshot(messages[i])}) = 1
        BY <3>1, RenderAll
      <3>5. phase = "asked" => IsSnapshot(Last(messages))
        BY DEF IInv, ConversationInv, Last
      <3> QED BY <2>1, <2>2, <3>1, <3>2, <3>3, <3>4, <3>5
              DEF TypeOK, Headed, IInv, ConversationInv
    <2> QED BY <2>3, <2>4
  <1> QED BY <1>1, InductivePrompt, PTL

\* No tool result is compacted that the model has not had in full in a request it
\* answered (infer_message_mode and the requests that fail in between).
THEOREM CompactedWereRead == Spec => []ResultsAreRead
  <1>1. IInv => ResultsAreRead
    <2> SUFFICES ASSUME IInv, phase = "asked" PROVE ResultsIn("minimal") \subseteq read
      BY DEF ResultsAreRead
    <2>1. Begun
      BY DEF IInv, ConversationInv, AtRest
    <2> QED BY <2>1, CompactedIsRead DEF Begun
  <1> QED BY <1>1, InductivePrompt, PTL

\* What a terminal has minted in the turn is listed to it, and of a hosted one all
\* that is listed was touched in the conversation (fuse_workspace_artifacts).
THEOREM ListedAreMine == Spec => []TurnArtifactsAreMine
  <1>1. IInv => TurnArtifactsAreMine
    BY DEF IInv, ConversationInv, TurnArtifactsAreMine, Last
  <1> QED BY <1>1, InductivePrompt, PTL

==============================================================================
