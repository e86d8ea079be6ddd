------------------------------ MODULE ProgramProofs ------------------------------
(***************************************************************************)
(* Proofs about Program, for any tables of plans whose blocks are nested.  *)
(* Each property holds for the tables that keep its rule; the argument is  *)
(* that what lies ahead after a step, where a failure leads to included,   *)
(* is made of what lay ahead before it, in the same order, and of nothing  *)
(* at level 0 less, so that the rule stays true of it.                     *)
(***************************************************************************)
EXTENDS PlanRules, SequenceTheorems, FiniteSetTheorems, FunctionTheorems, TLAPS

(* Sequences of steps.                                                     *)

LEMMA StepFacts ==
  ASSUME NEW p \in Seq(AllSteps)
  PROVE  /\ Len(p) \in Nat /\ DOMAIN p = 1 .. Len(p)
         /\ \A n \in 1 .. Len(p) :
               /\ p[n] \in AllSteps
               /\ p[n].level \in Nat
               /\ p[n].instead \in Seq(AllSteps)
               /\ \A t \in Steps(p[n].instead) : t.instead = <<>>
<1>1. Len(p) \in Nat /\ DOMAIN p = 1 .. Len(p)
  BY LenProperties
<1>2. \A n \in 1 .. Len(p) : p[n] \in AllSteps
  BY ElementOfSeq
<1>3. QED
  BY <1>1, <1>2, PlansAssumption

LEMMA SuffixFacts ==
  ASSUME NEW p \in Seq(AllSteps), NEW i \in 0 .. Len(p)
  PROVE  /\ Suffix(p, i) \in Seq(AllSteps)
         /\ Len(Suffix(p, i)) = Len(p) - i
         /\ \A n \in 1 .. Len(p) - i : n + i \in 1 .. Len(p) /\ Suffix(p, i)[n] = p[n + i]
<1>1. Len(p) \in Nat /\ i \in Nat /\ i <= Len(p) /\ \A n \in 1 .. Len(p) : p[n] \in AllSteps
  BY StepFacts
<1>2. i + 1 \in Int /\ Len(p) \in Int /\ \A n \in i + 1 .. Len(p) : p[n] \in AllSteps
  BY <1>1
<1>3. /\ Suffix(p, i) \in Seq(AllSteps)
      /\ Len(Suffix(p, i)) = IF i + 1 <= Len(p) THEN Len(p) - (i + 1) + 1 ELSE 0
      /\ \A n \in 1 .. Len(p) - (i + 1) + 1 : Suffix(p, i)[n] = p[(i + 1) + n - 1]
  BY <1>2, SubSeqProperties DEF Suffix
<1>4. Len(Suffix(p, i)) = Len(p) - i
  BY <1>1, <1>3
<1>5. ASSUME NEW n \in 1 .. Len(p) - i
      PROVE  n + i \in 1 .. Len(p) /\ Suffix(p, i)[n] = p[n + i]
  <2>1. n \in 1 .. Len(p) - (i + 1) + 1 /\ (i + 1) + n - 1 = n + i /\ n + i \in 1 .. Len(p)
    BY <1>1
  <2>2. QED
    BY <1>3, <2>1
<1>6. QED
  BY <1>3, <1>4, <1>5

LEMMA TailIsSuffix ==
  ASSUME NEW p \in Seq(AllSteps), p # <<>>
  PROVE  Tail(p) = Suffix(p, 1) /\ Len(p) >= 1
<1>1. Len(p) \in Nat /\ Len(p) # 0
  BY StepFacts, EmptySeq
<1>2. Tail(p) = SubSeq(p, 2, Len(p))
  BY TailIsSubSeq
<1>3. QED
  BY <1>1, <1>2 DEF Suffix

\* What lies ahead after a step: some b, and what lay behind the i-th step.
LEMMA JoinFacts ==
  ASSUME NEW p \in Seq(AllSteps), NEW b \in Seq(AllSteps), NEW i \in 0 .. Len(p)
  PROVE  LET q == b \o Suffix(p, i)
         IN  /\ q \in Seq(AllSteps)
             /\ Len(q) = Len(b) + Len(p) - i
             /\ DOMAIN q = 1 .. Len(q)
             /\ \A n \in 1 .. Len(b) : n \in DOMAIN q /\ q[n] = b[n]
             /\ \A n \in 1 .. Len(q) : n > Len(b) =>
                   n - Len(b) + i \in i + 1 .. Len(p) /\ q[n] = p[n - Len(b) + i]
             /\ \A j \in i + 1 .. Len(p) :
                   j - i + Len(b) \in 1 .. Len(q) /\ q[j - i + Len(b)] = p[j]
<1> DEFINE s == Suffix(p, i)
           q == b \o s
<1>1. Len(p) \in Nat /\ Len(b) \in Nat /\ i \in Nat /\ i <= Len(p)
  BY StepFacts
<1>2. /\ s \in Seq(AllSteps) /\ Len(s) = Len(p) - i
      /\ \A n \in 1 .. Len(p) - i : n + i \in 1 .. Len(p) /\ s[n] = p[n + i]
  BY SuffixFacts
<1> HIDE DEF s
<1>3. /\ q \in Seq(AllSteps) /\ Len(q) = Len(b) + Len(s)
      /\ \A n \in 1 .. Len(b) + Len(s) : q[n] = IF n <= Len(b) THEN b[n] ELSE s[n - Len(b)]
  BY <1>2, ConcatProperties
<1> HIDE DEF q
<1>4. Len(q) = Len(b) + Len(p) - i /\ DOMAIN q = 1 .. Len(q)
  BY <1>1, <1>2, <1>3, StepFacts
<1>5. ASSUME NEW n \in 1 .. Len(b)
      PROVE  n \in DOMAIN q /\ q[n] = b[n]
  <2>1. n \in 1 .. Len(b) + Len(s) /\ n <= Len(b) /\ n \in 1 .. Len(q)
    BY <1>1, <1>2, <1>4
  <2>2. QED
    BY <1>3, <1>4, <2>1
<1>6. ASSUME NEW n \in 1 .. Len(q), n > Len(b)
      PROVE  n - Len(b) + i \in i + 1 .. Len(p) /\ q[n] = p[n - Len(b) + i]
  <2>1. /\ n \in 1 .. Len(b) + Len(s) /\ ~(n <= Len(b)) /\ n - Len(b) \in 1 .. Len(p) - i
        /\ n - Len(b) + i \in i + 1 .. Len(p)
    BY <1>1, <1>2, <1>4, <1>6
  <2>2. QED
    BY <1>2, <1>3, <2>1
<1>7. ASSUME NEW j \in i + 1 .. Len(p)
      PROVE  j - i + Len(b) \in 1 .. Len(q) /\ q[j - i + Len(b)] = p[j]
  <2> DEFINE n == j - i + Len(b)
  <2>1. n \in 1 .. Len(q) /\ n > Len(b) /\ n - Len(b) + i = j
    BY <1>1, <1>4
  <2> HIDE DEF n
  <2>2. QED
    BY <1>6, <2>1 DEF n
<1>8. QED
  BY <1>3, <1>4, <1>5, <1>6, <1>7 DEF q, s

LEMMA SuffixOfJoin ==
  ASSUME NEW p \in Seq(AllSteps), NEW b \in Seq(AllSteps), NEW i \in 0 .. Len(p),
         NEW k \in 1 .. Len(b \o Suffix(p, i)), k > Len(b)
  PROVE  Suffix(b \o Suffix(p, i), k) = Suffix(p, k - Len(b) + i)
<1> DEFINE q == b \o Suffix(p, i)
           j == k - Len(b) + i
<1>1. Len(p) \in Nat /\ Len(b) \in Nat /\ i \in Nat /\ i <= Len(p)
  BY StepFacts
<1>2. /\ q \in Seq(AllSteps)
      /\ Len(q) = Len(b) + Len(p) - i
      /\ \A n \in 1 .. Len(q) : n > Len(b) => q[n] = p[n - Len(b) + i]
  BY JoinFacts
<1>3. k \in 1 .. Len(q)
  OBVIOUS
<1> HIDE DEF q
<1>4. k \in 0 .. Len(q) /\ j \in 0 .. Len(p) /\ Len(q) - k = Len(p) - j
  BY <1>1, <1>2, <1>3
<1> HIDE DEF j
<1>5. /\ Suffix(q, k) \in Seq(AllSteps) /\ Len(Suffix(q, k)) = Len(q) - k
      /\ \A n \in 1 .. Len(q) - k : n + k \in 1 .. Len(q) /\ Suffix(q, k)[n] = q[n + k]
  BY <1>2, <1>4, SuffixFacts
<1>6. /\ Suffix(p, j) \in Seq(AllSteps) /\ Len(Suffix(p, j)) = Len(p) - j
      /\ \A n \in 1 .. Len(p) - j : Suffix(p, j)[n] = p[n + j]
  BY <1>4, SuffixFacts
<1>7. ASSUME NEW n \in 1 .. Len(q) - k
      PROVE  Suffix(q, k)[n] = Suffix(p, j)[n]
  <2>1. /\ n + k \in 1 .. Len(q) /\ Suffix(q, k)[n] = q[n + k]
        /\ Suffix(p, j)[n] = p[n + j]
    BY <1>4, <1>5, <1>6
  <2>2. n + k > Len(b) /\ (n + k) - Len(b) + i = n + j
    BY <1>1, <1>2, <1>3 DEF j
  <2>3. QED
    BY <1>2, <2>1, <2>2
<1>8. Suffix(q, k) = Suffix(p, j)
  BY <1>4, <1>5, <1>6, <1>7, SeqEqual
<1>9. QED
  BY <1>8 DEF q, j

-----------------------------------------------------------------------------
(* Blocks.                                                                 *)

LEMMA NestedSuffix ==
  ASSUME NEW p \in Seq(AllSteps), Nested(p), NEW i \in 0 .. Len(p)
  PROVE  Nested(Suffix(p, i))
<1> DEFINE q == Suffix(p, i)
<1>1. Len(p) \in Nat /\ DOMAIN p = 1 .. Len(p) /\ i \in Nat /\ i <= Len(p)
  BY StepFacts
<1>2. /\ q \in Seq(AllSteps) /\ Len(q) = Len(p) - i
      /\ \A n \in 1 .. Len(p) - i : n + i \in 1 .. Len(p) /\ q[n] = p[n + i]
  BY SuffixFacts
<1> HIDE DEF q
<1>3. DOMAIN q = 1 .. Len(p) - i
  BY <1>2, StepFacts
<1>4. SUFFICES ASSUME NEW n \in 1 .. Len(p) - i, NEW level \in 1 .. q[n].level
               PROVE  \E k \in n .. Len(q) :
                         /\ q[k].op = "end" /\ q[k].level = level
                         /\ \A j \in n .. k - 1 : /\ q[j].level >= level
                                                  /\ ~(q[j].op = "end" /\ q[j].level = level)
  BY <1>3 DEF Nested, q
<1>5. n + i \in DOMAIN p /\ level \in 1 .. p[n + i].level
  BY <1>1, <1>2
<1>6. PICK h \in n + i .. Len(p) :
         /\ p[h].op = "end" /\ p[h].level = level
         /\ \A j \in n + i .. h - 1 : /\ p[j].level >= level
                                      /\ ~(p[j].op = "end" /\ p[j].level = level)
  BY <1>5 DEF Nested
<1>7. h - i \in n .. Len(q) /\ h - i \in 1 .. Len(p) - i /\ q[h - i] = p[h]
  <2>1. h - i \in n .. Len(q) /\ h - i \in 1 .. Len(p) - i /\ (h - i) + i = h
    BY <1>1, <1>2
  <2>2. q[h - i] = p[(h - i) + i]
    BY <1>2, <2>1
  <2>3. QED
    BY <2>1, <2>2
<1>8. ASSUME NEW j \in n .. (h - i) - 1
      PROVE  q[j].level >= level /\ ~(q[j].op = "end" /\ q[j].level = level)
  <2>1. j + i \in n + i .. h - 1 /\ j \in 1 .. Len(p) - i
    BY <1>1
  <2>2. q[j] = p[j + i]
    BY <1>2, <2>1
  <2>3. QED
    BY <1>6, <2>1, <2>2
<1>9. QED
  BY <1>6, <1>7, <1>8

\* Where a step may lead: behind the first step, or behind the end of a
\* block, after what it does instead.
Lead(p, i, b) ==
    \/ i = 1 /\ b = <<>>
    \/ p[i].op = "end" /\ b = p[i].instead /\ \A j \in 1 .. i : p[j].level > 0

LEMMA LeadNests ==
  ASSUME NEW p \in Seq(AllSteps), Nests(p), NEW i \in 1 .. Len(p), NEW b, Lead(p, i, b)
  PROVE  b \in Seq(AllSteps) /\ b \o Suffix(p, i) \in Seq(AllSteps) /\ Nests(b \o Suffix(p, i))
<1> DEFINE q == b \o Suffix(p, i)
<1>1. Len(p) \in Nat /\ DOMAIN p = 1 .. Len(p) /\ i \in 0 .. Len(p)
  BY StepFacts
<1>2. b \in Seq(AllSteps) /\ \A t \in Steps(b) : t.instead = <<>>
  <2>1. CASE b = <<>>
    BY <2>1 DEF Steps
  <2>2. CASE b = p[i].instead
    BY <2>2, StepFacts
  <2>3. QED
    BY <2>1, <2>2 DEF Lead
<1>3. /\ q \in Seq(AllSteps)
      /\ Len(q) = Len(b) + Len(p) - i /\ DOMAIN q = 1 .. Len(q)
      /\ \A n \in 1 .. Len(b) : n \in DOMAIN q /\ q[n] = b[n]
      /\ \A n \in 1 .. Len(q) : n > Len(b) =>
            n - Len(b) + i \in i + 1 .. Len(p) /\ q[n] = p[n - Len(b) + i]
  BY <1>1, <1>2, JoinFacts
<1>4. Len(b) \in Nat /\ DOMAIN b = 1 .. Len(b) /\ Len(q) \in Nat
  BY <1>2, <1>3, StepFacts
<1>5. Nested(q)
  <2>1. CASE b = <<>>
    <3>1. q = Suffix(p, i)
      BY <1>1, <2>1, SuffixFacts, ConcatEmptySeq
    <3>2. QED
      BY <1>1, <3>1, NestedSuffix DEF Nests
  <2>2. CASE p[i].op = "end" /\ b = p[i].instead
    BY <1>1, <2>2 DEF Nests
  <2>3. QED
    BY <2>1, <2>2 DEF Lead
<1>6. ASSUME NEW k \in DOMAIN q, q[k].op = "end"
      PROVE  Nested(q[k].instead \o Suffix(q, k))
  <2>1. CASE k <= Len(b)
    <3>1. k \in 1 .. Len(b) /\ k \in 0 .. Len(q)
      BY <1>3, <1>4, <2>1
    <3>2. q[k].instead = <<>>
      BY <1>2, <1>3, <1>4, <3>1 DEF Steps
    <3>3. Suffix(q, k) \in Seq(AllSteps) /\ Nested(Suffix(q, k))
      BY <1>3, <1>5, <3>1, SuffixFacts, NestedSuffix
    <3>4. <<>> \o Suffix(q, k) = Suffix(q, k)
      BY <3>3, ConcatEmptySeq
    <3>5. QED
      BY <3>2, <3>3, <3>4
  <2>2. CASE ~(k <= Len(b))
    <3> DEFINE j == k - Len(b) + i
    <3>1. k \in 1 .. Len(q) /\ k > Len(b)
      BY <1>3, <1>4, <2>2
    <3>2. j \in 1 .. Len(p) /\ q[k] = p[j]
      BY <1>1, <1>3, <3>1
    <3>3. Suffix(q, k) = Suffix(p, j)
      BY <1>1, <1>2, <3>1, SuffixOfJoin
    <3>4. QED
      BY <1>1, <1>6, <3>2, <3>3 DEF Nests
  <2>3. QED
    BY <2>1, <2>2
<1>7. QED
  BY <1>2, <1>3, <1>5, <1>6 DEF Nests

\* A step that fails inside a block leads behind the end of the block.
LEMMA AfterFailureLeads ==
  ASSUME NEW p \in Seq(AllSteps), Nests(p), p # <<>>, p[1].level # 0
  PROVE  \E i \in 1 .. Len(p) : /\ Lead(p, i, p[i].instead)
                                /\ p[i].op = "end" /\ \A j \in 1 .. i : p[j].level > 0
                                /\ AfterFailure(p, p[1].level) = p[i].instead \o Suffix(p, i)
<1> DEFINE l == p[1].level
           Closes(k) == /\ p[k].op = "end" /\ p[k].level = l
                     /\ \A j \in 1 .. k - 1 : ~(p[j].op = "end" /\ p[j].level = l)
<1>1. Len(p) \in Nat /\ DOMAIN p = 1 .. Len(p) /\ Len(p) >= 1 /\ l \in Nat /\ l >= 1
  BY StepFacts, TailIsSuffix
<1>2. PICK i \in 1 .. Len(p) :
         /\ p[i].op = "end" /\ p[i].level = l
         /\ \A j \in 1 .. i - 1 : p[j].level >= l /\ ~(p[j].op = "end" /\ p[j].level = l)
  <2>1. 1 \in DOMAIN p /\ l \in 1 .. l
    BY <1>1
  <2>2. QED
    BY <2>1 DEF Nests, Nested
<1>3. Closes(i)
  BY <1>2
<1>4. ASSUME NEW k \in 1 .. Len(p), Closes(k)
      PROVE  k = i
  <2>1. k < i => k \in 1 .. i - 1
    BY <1>1
  <2>2. i < k => i \in 1 .. k - 1
    BY <1>1
  <2>3. k \in Int /\ i \in Int
    BY <1>1
  <2>4. ~(k < i) /\ ~(i < k)
    BY <1>2, <1>3, <1>4, <2>1, <2>2
  <2>5. QED
    BY <2>3, <2>4
<1>5. (CHOOSE k \in 1 .. Len(p) : Closes(k)) = i
  <2> HIDE DEF Closes
  <2>1. QED
    BY <1>3, <1>4
<1>6. AfterFailure(p, l) = p[i].instead \o Suffix(p, i)
  BY <1>5 DEF AfterFailure, Suffix
<1>7. \A j \in 1 .. i : p[j].level > 0
  <2> SUFFICES ASSUME NEW j \in 1 .. i
               PROVE  p[j].level > 0
    OBVIOUS
  <2>1. j = i \/ j \in 1 .. i - 1
    BY <1>1
  <2>2. j \in 1 .. Len(p)
    BY <1>1
  <2>3. p[j].level \in Nat /\ p[j].level >= l
    BY <1>1, <1>2, <2>1, <2>2, StepFacts
  <2>4. QED
    BY <1>1, <2>3
<1>8. QED
  BY <1>2, <1>6, <1>7 DEF Lead

-----------------------------------------------------------------------------
(* What is ahead after a step comes, in its order, from what was ahead.    *)

\* The n-th step of q comes from the src[n]-th of p: it is that step, or is
\* done instead of it.  Outside the blocks only the first step can be gone.
Onward(p, q, src) ==
    /\ src \in [DOMAIN q -> DOMAIN p]
    /\ \A n \in DOMAIN q :
          /\ With(q[n]) \subseteq With(p[src[n]])
          /\ q[n].instead \in {<<>>, p[src[n]].instead}
    /\ \A n, m \in DOMAIN q : m < n =>
          \/ src[m] < src[n]
          \/ /\ src[m] = src[n] /\ With(q[m]) = {q[m]} /\ With(q[n]) = {q[n]}
             /\ \E k \in DOMAIN p[src[n]].instead : \E a \in 1 .. k - 1 :
                   p[src[n]].instead[a] = q[m] /\ p[src[n]].instead[k] = q[n]
    /\ \A j \in DOMAIN p : p[j].level = 0 =>
          j = 1 \/ \E n \in DOMAIN q : q[n] = p[j] /\ src[n] = j

LEMMA LeadGoesOnward ==
  ASSUME NEW p \in Seq(AllSteps), Nests(p), NEW i \in 1 .. Len(p), NEW b, Lead(p, i, b)
  PROVE  \E src : /\ Onward(p, b \o Suffix(p, i), src)
                  /\ \A n \in DOMAIN (b \o Suffix(p, i)) : b = <<>> => src[n] = n + i
<1> DEFINE q == b \o Suffix(p, i)
           Src(n) == IF n <= Len(b) THEN i ELSE n - Len(b) + i
           src == [n \in DOMAIN q |-> Src(n)]
<1>1. Len(p) \in Nat /\ DOMAIN p = 1 .. Len(p) /\ i \in 0 .. Len(p) /\ i \in Int
  BY StepFacts
<1>2. b \in Seq(AllSteps) /\ Len(b) \in Nat /\ DOMAIN b = 1 .. Len(b)
  BY LeadNests, StepFacts
<1>3. /\ q \in Seq(AllSteps) /\ Len(q) \in Nat
      /\ Len(q) = Len(b) + Len(p) - i /\ DOMAIN q = 1 .. Len(q)
      /\ \A n \in 1 .. Len(b) : n \in DOMAIN q /\ q[n] = b[n]
      /\ \A n \in 1 .. Len(q) : n > Len(b) =>
            n - Len(b) + i \in i + 1 .. Len(p) /\ q[n] = p[n - Len(b) + i]
      /\ \A j \in i + 1 .. Len(p) :
            j - i + Len(b) \in 1 .. Len(q) /\ q[j - i + Len(b)] = p[j]
  BY <1>1, <1>2, JoinFacts, StepFacts
<1> HIDE DEF q
<1>4. ASSUME NEW n \in DOMAIN q, n <= Len(b)
      PROVE  /\ src[n] = i /\ n \in DOMAIN b /\ b = p[i].instead
             /\ q[n] = p[i].instead[n] /\ q[n].instead = <<>>
             /\ With(q[n]) = {q[n]} /\ With(q[n]) \subseteq With(p[i])
  <2>1. src[n] = i /\ n \in 1 .. Len(b) /\ n \in DOMAIN b
    BY <1>2, <1>3, <1>4
  <2>2. b # <<>>
    BY <1>2, <2>1, EmptySeq
  <2>3. b = p[i].instead
    BY <2>2 DEF Lead
  <2>4. q[n] = p[i].instead[n]
    BY <1>3, <2>1, <2>3
  <2>5. q[n] \in Steps(p[i].instead)
    BY <2>1, <2>3, <2>4 DEF Steps
  <2>6. q[n].instead = <<>>
    BY <2>5, StepFacts
  <2>7. Steps(<<>>) = {}
    BY DEF Steps
  <2>8. QED
    BY <2>1, <2>3, <2>4, <2>5, <2>6, <2>7 DEF With
<1>5. ASSUME NEW n \in DOMAIN q, ~(n <= Len(b))
      PROVE  src[n] = n - Len(b) + i /\ src[n] \in i + 1 .. Len(p) /\ q[n] = p[src[n]]
  <2>1. n \in 1 .. Len(q) /\ n > Len(b) /\ src[n] = n - Len(b) + i
    BY <1>2, <1>3, <1>5
  <2>2. QED
    BY <1>3, <2>1
<1>6. src \in [DOMAIN q -> DOMAIN p]
  <2>1. ASSUME NEW n \in DOMAIN q
        PROVE  Src(n) \in 1 .. Len(p)
    <3>1. src[n] = Src(n)
      OBVIOUS
    <3>2. src[n] \in 1 .. Len(p)
      <4> HIDE DEF src, Src
      <4>1. QED
        BY <1>1, <1>4, <1>5
    <3>3. QED
      BY <3>1, <3>2
  <2> HIDE DEF Src
  <2>2. QED
    BY <1>1, <2>1
<1>7. \A n \in DOMAIN q : b = <<>> => src[n] = n + i
  <2> SUFFICES ASSUME NEW n \in DOMAIN q, b = <<>>
               PROVE  src[n] = n + i
    OBVIOUS
  <2>1. Len(b) = 0 /\ n \in 1 .. Len(q)
    BY <1>3, EmptySeq
  <2>2. QED
    BY <1>1, <2>1
<1>8. ASSUME NEW n \in DOMAIN q
      PROVE  With(q[n]) \subseteq With(p[src[n]]) /\ q[n].instead \in {<<>>, p[src[n]].instead}
  <2> HIDE DEF src
  <2>1. QED
    BY <1>4, <1>5
<1>9. ASSUME NEW n \in DOMAIN q, NEW m \in DOMAIN q, m < n
      PROVE  \/ src[m] < src[n]
             \/ /\ src[m] = src[n] /\ With(q[m]) = {q[m]} /\ With(q[n]) = {q[n]}
                /\ \E k \in DOMAIN p[src[n]].instead : \E a \in 1 .. k - 1 :
                      p[src[n]].instead[a] = q[m] /\ p[src[n]].instead[k] = q[n]
  <2> HIDE DEF src
  <2>0. n \in Nat /\ m \in Nat /\ m >= 1
    BY <1>3
  <2>1. CASE n <= Len(b)
    <3>1. m <= Len(b) /\ m \in 1 .. n - 1
      BY <1>2, <1>9, <2>0, <2>1
    <3>2. /\ src[n] = i /\ n \in DOMAIN p[i].instead /\ q[n] = p[i].instead[n]
          /\ With(q[n]) = {q[n]}
      BY <1>4, <2>1
    <3>3. src[m] = i /\ q[m] = p[i].instead[m] /\ With(q[m]) = {q[m]}
      BY <1>4, <3>1
    <3>4. QED
      BY <3>1, <3>2, <3>3
  <2>2. CASE ~(n <= Len(b)) /\ m <= Len(b)
    <3>1. src[n] \in i + 1 .. Len(p) /\ src[m] = i
      BY <1>4, <1>5, <2>2
    <3>2. QED
      BY <1>1, <3>1
  <2>3. CASE ~(n <= Len(b)) /\ ~(m <= Len(b))
    <3>1. src[n] = n - Len(b) + i /\ src[m] = m - Len(b) + i
      BY <1>5, <2>3
    <3>2. QED
      BY <1>1, <1>2, <1>9, <2>0, <3>1
  <2>4. QED
    BY <2>1, <2>2, <2>3
<1>10. ASSUME NEW j \in DOMAIN p, p[j].level = 0
       PROVE  j = 1 \/ \E n \in DOMAIN q : q[n] = p[j] /\ src[n] = j
  <2>1. CASE j > i
    <3> DEFINE n == j - i + Len(b)
    <3>1. j \in i + 1 .. Len(p)
      BY <1>1, <2>1
    <3>2. n \in DOMAIN q /\ q[n] = p[j]
      BY <1>3, <3>1
    <3>3. ~(n <= Len(b)) /\ n - Len(b) + i = j
      BY <1>1, <1>2, <2>1
    <3> HIDE DEF n
    <3>4. src[n] = j
      BY <3>2, <3>3
    <3>5. QED
      BY <3>2, <3>4
  <2>2. CASE ~(j > i)
    <3>1. j \in 1 .. i
      BY <1>1, <2>2
    <3>2. i # 1 => FALSE
      BY <1>10, <3>1 DEF Lead
    <3>3. QED
      BY <1>1, <3>1, <3>2
  <2>3. QED
    BY <2>1, <2>2
<1>11. Onward(p, q, src)
  <2> HIDE DEF src
  <2>1. QED
    BY <1>6, <1>8, <1>9, <1>10 DEF Onward
<1>12. QED
  BY <1>7, <1>11 DEF q

\* Going on: every step ahead was behind the first.
LEMMA TailGoesOnward ==
  ASSUME NEW p \in Seq(AllSteps), Nests(p), p # <<>>
  PROVE  /\ Tail(p) \in Seq(AllSteps) /\ Nests(Tail(p))
         /\ \E src : Onward(p, Tail(p), src) /\ \A n \in DOMAIN Tail(p) : src[n] > 1
<1>1. Len(p) \in Nat /\ 1 \in 1 .. Len(p) /\ 1 \in 0 .. Len(p)
  BY StepFacts, TailIsSuffix
<1>2. Suffix(p, 1) \in Seq(AllSteps)
  BY <1>1, SuffixFacts
<1>3. <<>> \o Suffix(p, 1) = Tail(p)
  BY <1>2, ConcatEmptySeq, TailIsSuffix
<1>4. Lead(p, 1, <<>>)
  BY DEF Lead
<1>5. Tail(p) \in Seq(AllSteps) /\ Nests(Tail(p))
  BY <1>1, <1>3, <1>4, LeadNests
<1>6. PICK src : Onward(p, Tail(p), src) /\ \A n \in DOMAIN Tail(p) : src[n] = n + 1
  <2>1. \E src : /\ Onward(p, <<>> \o Suffix(p, 1), src)
                 /\ \A n \in DOMAIN (<<>> \o Suffix(p, 1)) : <<>> = <<>> => src[n] = n + 1
    BY <1>1, <1>4, LeadGoesOnward
  <2>2. QED
    BY <1>3, <2>1
<1>7. \A n \in DOMAIN Tail(p) : src[n] > 1
  <2>1. DOMAIN Tail(p) = 1 .. Len(Tail(p)) /\ Len(Tail(p)) \in Nat
    BY <1>5, StepFacts
  <2>2. QED
    BY <1>6, <2>1
<1>8. QED
  BY <1>5, <1>6, <1>7

\* Failing inside a block.
LEMMA FailureGoesOnward ==
  ASSUME NEW p \in Seq(AllSteps), Nests(p), p # <<>>, p[1].level # 0
  PROVE  LET q == AfterFailure(p, p[1].level)
         IN  q \in Seq(AllSteps) /\ Nests(q) /\ \E src : Onward(p, q, src)
<1>1. PICK i \in 1 .. Len(p) : /\ Lead(p, i, p[i].instead)
                               /\ AfterFailure(p, p[1].level) = p[i].instead \o Suffix(p, i)
  BY AfterFailureLeads
<1>2. /\ p[i].instead \o Suffix(p, i) \in Seq(AllSteps)
      /\ Nests(p[i].instead \o Suffix(p, i))
  BY <1>1, LeadNests
<1>3. \E src : Onward(p, p[i].instead \o Suffix(p, i), src)
  BY <1>1, LeadGoesOnward
<1>4. QED
  BY <1>1, <1>2, <1>3

-----------------------------------------------------------------------------
(* What is ahead keeps the rules.                                          *)

LEMMA OnwardOrder ==
  ASSUME NEW p \in Seq(AllSteps), NEW q \in Seq(AllSteps), NEW src, Onward(p, q, src)
  PROVE  /\ \A n \in DOMAIN q : src[n] \in DOMAIN p
         /\ \A n, m \in DOMAIN q : src[m] < src[n] => m < n
         /\ \A n \in DOMAIN q : n \in Nat /\ n >= 1 /\ src[n] \in Nat
<1>1. DOMAIN p = 1 .. Len(p) /\ DOMAIN q = 1 .. Len(q) /\ Len(p) \in Nat /\ Len(q) \in Nat
  BY StepFacts
<1>2. \A n \in DOMAIN q : src[n] \in DOMAIN p
  BY DEF Onward
<1>3. \A n \in DOMAIN q : n \in Nat /\ n >= 1 /\ src[n] \in Nat
  BY <1>1, <1>2
<1>4. ASSUME NEW n \in DOMAIN q, NEW m \in DOMAIN q, src[m] < src[n]
      PROVE  m < n
  <2>1. CASE n < m
    <3>1. src[n] < src[m] \/ src[n] = src[m]
      BY <2>1 DEF Onward
    <3>2. QED
      BY <1>3, <1>4, <3>1
  <2>2. CASE n = m
    BY <1>3, <1>4, <2>2
  <2>3. QED
    BY <1>3, <2>1, <2>2
<1>5. QED
  BY <1>2, <1>3, <1>4

\* A step outside every block that was in front still is, or was the first.
LEMMA StillInFront ==
  ASSUME NEW p \in Seq(AllSteps), NEW q \in Seq(AllSteps), NEW src, Onward(p, q, src),
         NEW n \in DOMAIN q, NEW j \in 1 .. src[n] - 1, p[j].level = 0
  PROVE  j = 1 \/ \E m \in 1 .. n - 1 : q[m] = p[j]
<1>1. DOMAIN p = 1 .. Len(p) /\ Len(p) \in Nat
  BY StepFacts
<1>2. src[n] \in DOMAIN p /\ src[n] \in Nat /\ n \in Nat
  BY OnwardOrder
<1>3. j \in DOMAIN p
  BY <1>1, <1>2
<1>4. SUFFICES ASSUME j # 1
               PROVE  \E m \in 1 .. n - 1 : q[m] = p[j]
  OBVIOUS
<1>5. PICK m \in DOMAIN q : q[m] = p[j] /\ src[m] = j
  BY <1>3, <1>4 DEF Onward
<1>6. m < n /\ m \in Nat /\ m >= 1
  <2>1. src[m] < src[n]
    BY <1>2, <1>5
  <2>2. QED
    BY <2>1, OnwardOrder
<1>7. m \in 1 .. n - 1
  BY <1>2, <1>6
<1>8. QED
  BY <1>5, <1>7

LEMMA GatesStayInFront ==
  ASSUME NEW p \in Seq(AllSteps), NEW q \in Seq(AllSteps), NEW src, Onward(p, q, src),
         NEW who, NEW done, NEW made, GatesInFront(who, p, done), done \subseteq made,
         p[1].op \in {"allow", "login", "token"} /\ p[1].level = 0 =>
            <<p[1].op, p[1].of>> \in made
  PROVE  GatesInFront(who, q, made)
<1>1. SUFFICES ASSUME NEW n \in DOMAIN q, NEW t \in With(q[n]), t.op \in Changing \cup {"get"},
                      NEW g \in Needs(who, t.of), g \notin made
               PROVE  GateBefore(q, n, g)
  BY DEF GatesInFront
<1>2. src[n] \in DOMAIN p /\ t \in With(p[src[n]])
  BY <1>1, OnwardOrder DEF Onward
<1>3. GateBefore(p, src[n], g)
  BY <1>1, <1>2 DEF GatesInFront
<1>4. PICK j \in 1 .. src[n] - 1 :
         /\ p[j].op \in {"allow", "login", "token"} /\ p[j].level = 0
         /\ <<p[j].op, p[j].of>> = g
  BY <1>3 DEF GateBefore
<1>5. j # 1
  BY <1>1, <1>4
<1>6. PICK m \in 1 .. n - 1 : q[m] = p[j]
  BY <1>4, <1>5, StillInFront
<1>7. QED
  BY <1>4, <1>6 DEF GateBefore

LEMMA GateStaysAhead ==
  ASSUME NEW p \in Seq(AllSteps), NEW q \in Seq(AllSteps), NEW src, Onward(p, q, src),
         NEW g, GateBefore(p, Len(p) + 1, g),
         p[1].op \in {"allow", "login", "token"} /\ p[1].level = 0 => <<p[1].op, p[1].of>> # g
  PROVE  GateBefore(q, Len(q) + 1, g)
<1>1. /\ DOMAIN p = 1 .. Len(p) /\ Len(p) \in Nat
      /\ DOMAIN q = 1 .. Len(q) /\ Len(q) \in Nat
  BY StepFacts
<1>2. PICK j \in 1 .. (Len(p) + 1) - 1 :
         /\ p[j].op \in {"allow", "login", "token"} /\ p[j].level = 0
         /\ <<p[j].op, p[j].of>> = g
  BY DEF GateBefore
<1>3. j \in DOMAIN p /\ j # 1
  BY <1>1, <1>2
<1>4. PICK m \in DOMAIN q : q[m] = p[j]
  BY <1>2, <1>3 DEF Onward
<1>5. m \in 1 .. (Len(q) + 1) - 1
  BY <1>1
<1>6. QED
  BY <1>2, <1>4, <1>5 DEF GateBefore

LEMMA MayChangeCameFrom ==
  ASSUME NEW p \in Seq(AllSteps), NEW q \in Seq(AllSteps), NEW src, Onward(p, q, src),
         NEW n \in DOMAIN q, MayChange(q, n)
  PROVE  src[n] \in DOMAIN p /\ MayChange(p, src[n])
BY OnwardOrder DEF MayChange, Onward

LEMMA LookStaysInFront ==
  ASSUME NEW p \in Seq(AllSteps), NEW q \in Seq(AllSteps), NEW src, Onward(p, q, src),
         LooksBeforeChanging(p), ~(p[1].op = "dry" /\ p[1].level = 0)
  PROVE  LooksBeforeChanging(q)
<1>1. SUFFICES ASSUME NEW n \in DOMAIN q, MayChange(q, n)
               PROVE  \E m \in 1 .. n - 1 : q[m].op = "dry" /\ q[m].level = 0
  BY DEF LooksBeforeChanging
<1>2. src[n] \in DOMAIN p /\ MayChange(p, src[n])
  BY <1>1, MayChangeCameFrom
<1>3. PICK j \in 1 .. src[n] - 1 : p[j].op = "dry" /\ p[j].level = 0
  BY <1>2 DEF LooksBeforeChanging
<1>4. PICK m \in 1 .. n - 1 : q[m] = p[j]
  BY <1>3, StillInFront
<1>5. QED
  BY <1>3, <1>4

LEMMA StaysWithoutChange ==
  ASSUME NEW p \in Seq(AllSteps), NEW q \in Seq(AllSteps), NEW src, Onward(p, q, src),
         ChangesNothing(p)
  PROVE  ChangesNothing(q)
BY MayChangeCameFrom DEF ChangesNothing

LEMMA FailuresStillSurface ==
  ASSUME NEW p \in Seq(AllSteps), NEW q \in Seq(AllSteps), NEW src, Onward(p, q, src),
         FailuresSurface(p)
  PROVE  FailuresSurface(q)
<1>1. SUFFICES ASSUME NEW n \in DOMAIN q, NEW t \in With(q[n]), t.op \in Changing
               PROVE  t.level = 0
  BY DEF FailuresSurface
<1>2. src[n] \in DOMAIN p /\ t \in With(p[src[n]])
  BY OnwardOrder DEF Onward
<1>3. QED
  BY <1>1, <1>2 DEF FailuresSurface

LEMMA ChangesStayLast ==
  ASSUME NEW p \in Seq(AllSteps), NEW q \in Seq(AllSteps), NEW src, Onward(p, q, src),
         NEW who, ChangesLast(who, p)
  PROVE  ChangesLast(who, q)
<1>1. ASSUME NEW n \in DOMAIN q, NEW m \in 1 .. n - 1, MayChange(q, m), NEW t \in With(q[n])
      PROVE  ~MayEnd(who, t)
  <2>1. m \in DOMAIN q /\ m < n
    <3>1. DOMAIN q = 1 .. Len(q) /\ Len(q) \in Nat
      BY StepFacts
    <3>2. QED
      BY <3>1
  <2>2. /\ src[n] \in DOMAIN p /\ t \in With(p[src[n]]) /\ src[n] \in Nat
        /\ src[m] \in DOMAIN p /\ MayChange(p, src[m])
    BY <1>1, <2>1, OnwardOrder, MayChangeCameFrom DEF Onward
  <2>3. CASE src[m] < src[n]
    <3>1. src[m] \in 1 .. src[n] - 1
      <4>1. DOMAIN p = 1 .. Len(p) /\ Len(p) \in Nat
        BY StepFacts
      <4>2. QED
        BY <2>2, <2>3, <4>1
    <3>2. QED
      BY <2>2, <3>1 DEF ChangesLast
  <2>4. CASE /\ src[m] = src[n] /\ With(q[m]) = {q[m]} /\ With(q[n]) = {q[n]}
             /\ \E k \in DOMAIN p[src[n]].instead : \E a \in 1 .. k - 1 :
                   p[src[n]].instead[a] = q[m] /\ p[src[n]].instead[k] = q[n]
    <3>1. q[m].op \in Changing /\ t = q[n]
      BY <1>1, <2>4 DEF MayChange
    <3>2. QED
      BY <2>2, <2>4, <3>1 DEF ChangesLast
  <2>5. QED
    BY <2>1, <2>3, <2>4 DEF Onward
<1>2. ASSUME NEW n \in DOMAIN q, NEW b \in DOMAIN q[n].instead, NEW a \in 1 .. b - 1,
             q[n].instead[a].op \in Changing
      PROVE  ~MayEnd(who, q[n].instead[b])
  <2>1. src[n] \in DOMAIN p /\ q[n].instead \in {<<>>, p[src[n]].instead}
    BY OnwardOrder DEF Onward
  <2>2. q[n].instead = p[src[n]].instead
    BY <2>1
  <2>3. QED
    BY <1>2, <2>1, <2>2 DEF ChangesLast
<1>3. QED
  BY <1>1, <1>2 DEF ChangesLast

LEMMA RemembersStillLast ==
  ASSUME NEW p \in Seq(AllSteps), NEW q \in Seq(AllSteps), NEW src, Onward(p, q, src),
         NEW done \in BOOLEAN, NEW made \in BOOLEAN, RemembersLast(p, done),
         done \/ (p[1].op = "put" /\ p[1].level = 0) => made
  PROVE  RemembersLast(q, made)
<1>1. SUFFICES ASSUME NEW n \in DOMAIN q, NEW t \in With(q[n]),
                      t.op = "swap", t.of = "workflow.json"
               PROVE  /\ made \/ \E m \in 1 .. n - 1 : q[m].op = "put" /\ q[m].level = 0
                      /\ \A m \in DOMAIN q : \A u \in With(q[m]) :
                            u.op = "put" => m < n /\ u.level = 0
  BY DEF RemembersLast
<1>2. src[n] \in DOMAIN p /\ t \in With(p[src[n]])
  BY OnwardOrder DEF Onward
<1>3. /\ done \/ \E j \in 1 .. src[n] - 1 : p[j].op = "put" /\ p[j].level = 0
      /\ \A m \in DOMAIN p : \A u \in With(p[m]) : u.op = "put" => m < src[n] /\ u.level = 0
  BY <1>1, <1>2 DEF RemembersLast
<1>4. made \/ \E m \in 1 .. n - 1 : q[m].op = "put" /\ q[m].level = 0
  <2>1. SUFFICES ASSUME ~made
                 PROVE  \E m \in 1 .. n - 1 : q[m].op = "put" /\ q[m].level = 0
    OBVIOUS
  <2>2. PICK j \in 1 .. src[n] - 1 : p[j].op = "put" /\ p[j].level = 0
    BY <1>3, <2>1
  <2>3. PICK m \in 1 .. n - 1 : q[m] = p[j]
    BY <2>1, <2>2, StillInFront
  <2>4. QED
    BY <2>2, <2>3
<1>5. ASSUME NEW m \in DOMAIN q, NEW u \in With(q[m]), u.op = "put"
      PROVE  m < n /\ u.level = 0
  <2>1. src[m] \in DOMAIN p /\ u \in With(p[src[m]])
    BY OnwardOrder DEF Onward
  <2>2. src[m] < src[n] /\ u.level = 0
    BY <1>3, <1>5, <2>1
  <2>3. QED
    BY <2>2, OnwardOrder
<1>6. QED
  BY <1>4, <1>5

\* When nothing is ahead, the rules hold.
LEMMA NothingAhead ==
  /\ <<>> \in Seq(AllSteps) /\ Nests(<<>>) /\ Steps(<<>>) = {}
  /\ \A who, done : GatesInFront(who, <<>>, done)
  /\ \A g : ~GateBefore(<<>>, Len(<<>>) + 1, g)
  /\ LooksBeforeChanging(<<>>) /\ ChangesNothing(<<>>) /\ FailuresSurface(<<>>)
  /\ \A who : ChangesLast(who, <<>>)
  /\ \A made : RemembersLast(<<>>, made)
<1>1. DOMAIN <<>> = {} /\ Len(<<>>) = 0 /\ <<>> \in Seq(AllSteps)
  BY EmptySeq
<1>2. Nests(<<>>) /\ Steps(<<>>) = {}
  BY <1>1 DEF Nests, Nested, Steps
<1>3. \A g : ~GateBefore(<<>>, Len(<<>>) + 1, g)
  BY <1>1 DEF GateBefore
<1>4. /\ \A who, done : GatesInFront(who, <<>>, done)
      /\ LooksBeforeChanging(<<>>) /\ ChangesNothing(<<>>) /\ FailuresSurface(<<>>)
      /\ \A who : ChangesLast(who, <<>>)
      /\ \A made : RemembersLast(<<>>, made)
  BY <1>1 DEF GatesInFront, LooksBeforeChanging, ChangesNothing, FailuresSurface,
              ChangesLast, RemembersLast
<1>5. QED
  BY <1>1, <1>2, <1>3, <1>4

-----------------------------------------------------------------------------
(* The kinds of steps there are.                                           *)

Rests ==
    UNCHANGED <<phase, name, dryRun, path, passed, granted, ungranted, effects, outcome>>

\* A request to a service with a rate limiter uses a grant.
UsesGrant ==
    IF Now.op \in {"get", "put"} /\ Now.of \in Limited
    THEN Send ELSE UNCHANGED <<granted, ungranted>>

GetsGrant == granted' = [granted EXCEPT ![Now.of] = @ + 1] /\ UNCHANGED ungranted

\* The first step succeeds.
Advances ==
    /\ Working /\ GoOn /\ UNCHANGED <<name, dryRun>>
    /\ ~(Now.op = "dry" /\ dryRun)
    /\ passed \subseteq passed'
    /\ Now.op \in {"allow", "login", "token"} => <<Now.op, Now.of>> \in passed'
    /\ IF Now.op \in Changing \cup {"get"} THEN Effect("done") ELSE UNCHANGED effects
    /\ IF Now.op = "wait" THEN GetsGrant ELSE UsesGrant

\* It fails.
Fails ==
    /\ Working /\ Fail /\ UsesGrant /\ UNCHANGED <<name, dryRun, passed>>
    /\ Now.op \notin {"end", "call", "dry"}
    /\ Now.op = "wait" => phase = "answering"
    /\ \/ UNCHANGED effects
       \/ Now.op \in Changing \cup {"get"} /\ \E o \in {"refused", "unknown"} : Effect(o)

\* The dry run ends it, or nothing is left to do.
Previews ==
    /\ At("dry") /\ dryRun /\ EndWith("ok")
    /\ UNCHANGED <<name, dryRun, passed, granted, ungranted, effects>>

\* What was under way is over.
Ends ==
    \/ \E o \in {"ok", "error"} : AnswerDirectly(o) \/ Hangup(o)
    \/ Killed \/ Finish \/ Previews
    \/ Fails /\ EndWith("error")

LEMMA AdvanceKinds ==
  ASSUME PassGate \/ NoDryRun \/ CheckPasses \/ LeaveBlock \/ WaitRate \/ NewDeadline
         \/ Answered \/ PutDone \/ Saved \/ Swapped
  PROVE  Advances
<1>1. CASE PassGate
  BY <1>1 DEF PassGate, At, Advances, Changing, GetsGrant, UsesGrant
<1>2. CASE NoDryRun
  BY <1>2 DEF NoDryRun, At, Advances, Changing, GetsGrant, UsesGrant, NothingElse
<1>3. CASE CheckPasses
  BY <1>3 DEF CheckPasses, At, Advances, Changing, GetsGrant, UsesGrant, NothingElse
<1>4. CASE LeaveBlock
  BY <1>4 DEF LeaveBlock, At, Advances, Changing, GetsGrant, UsesGrant, NothingElse
<1>5. CASE WaitRate
  BY <1>5 DEF WaitRate, At, Advances, Changing, GetsGrant, UsesGrant
<1>6. CASE NewDeadline
  BY <1>6 DEF NewDeadline, At, Advances, Changing, GetsGrant, UsesGrant
<1>7. CASE Answered
  BY <1>7 DEF Answered, At, Advances, Changing, GetsGrant, UsesGrant, Send
<1>8. CASE PutDone
  BY <1>8 DEF PutDone, At, Advances, Changing, GetsGrant, UsesGrant, Send
<1>9. CASE Saved
  BY <1>9 DEF Saved, At, Advances, Changing, GetsGrant, UsesGrant, NothingElse
<1>10. CASE Swapped
  BY <1>10 DEF Swapped, At, Advances, Changing, GetsGrant, UsesGrant, NothingElse
<1>11. QED
  BY <1>1, <1>2, <1>3, <1>4, <1>5, <1>6, <1>7, <1>8, <1>9, <1>10

LEMMA FailureKinds ==
  ASSUME Refuse \/ CheckFails \/ TooLate \/ Unanswered \/ PutRefused \/ PutLost
         \/ Unsaved \/ Torn \/ Unswapped
  PROVE  Fails
<1>1. CASE Refuse
  BY <1>1 DEF Refuse, At, Fails, UsesGrant, NothingElse
<1>2. CASE CheckFails
  BY <1>2 DEF CheckFails, At, Fails, UsesGrant, NothingElse
<1>3. CASE TooLate
  BY <1>3 DEF TooLate, At, LeavesAnyway, Fails, UsesGrant, NothingElse
<1>4. CASE Unanswered
  BY <1>4 DEF Unanswered, At, Fails, UsesGrant, Send
<1>5. CASE PutRefused
  BY <1>5 DEF PutRefused, At, Fails, UsesGrant, Changing, Send
<1>6. CASE PutLost
  BY <1>6 DEF PutLost, At, Fails, UsesGrant, Changing, Send
<1>7. CASE Unsaved
  BY <1>7 DEF Unsaved, At, Fails, UsesGrant, Changing, NothingElse
<1>8. CASE Torn
  BY <1>8 DEF Torn, At, Fails, UsesGrant, Changing, NothingElse
<1>9. CASE Unswapped
  BY <1>9 DEF Unswapped, At, Fails, UsesGrant, Changing, NothingElse
<1>10. QED
  BY <1>1, <1>2, <1>3, <1>4, <1>5, <1>6, <1>7, <1>8, <1>9

LEMMA StepKinds ==
  ASSUME [Next]_vars
  PROVE  \/ \E c \in DOMAIN Command, d \in BOOLEAN : Execute(c, d)
         \/ \E t \in DOMAIN Tool : CallTool(t)
         \/ \E o \in {"ok", "error"} : AnswerDirectly(o) \/ Hangup(o)
         \/ Rests \/ Killed \/ Finish \/ Previews \/ Advances \/ Fails
<1>1. CASE UNCHANGED vars
  BY <1>1 DEF vars, Rests
<1>2. CASE Expire
  BY <1>2 DEF Expire, Rests
<1>3. CASE DryRunEnds
  BY <1>3 DEF DryRunEnds, Previews, NothingElse
<1>4. QED
  BY <1>1, <1>2, <1>3, AdvanceKinds, FailureKinds DEF Next, Proceed

-----------------------------------------------------------------------------
(* Types, blocks and phases, whatever the plans.                           *)

BaseInv == TypeOK /\ PathOK /\ PhaseOK

LEMMA GrantsTyped ==
  ASSUME TypeOK, [Next]_vars
  PROVE  granted' \in [Limited -> Nat] /\ ungranted' \in BOOLEAN /\ expired' \in BOOLEAN
<1>1. granted \in [Limited -> Nat] /\ ungranted \in BOOLEAN /\ expired \in BOOLEAN
  BY DEF TypeOK
<1>2. ASSUME Send
      PROVE  granted' \in [Limited -> Nat] /\ ungranted' \in BOOLEAN /\ expired' \in BOOLEAN
  <2>1. CASE Now.of \notin Limited
    BY <1>1, <1>2, <2>1 DEF Send
  <2>2. CASE Now.of \in Limited /\ granted[Now.of] > 0
    <3>1. granted[Now.of] - 1 \in Nat
      BY <1>1, <2>2
    <3>2. granted' = [granted EXCEPT ![Now.of] = @ - 1] /\ UNCHANGED <<ungranted, expired>>
      BY <1>2, <2>2 DEF Send
    <3>3. QED
      BY <1>1, <3>1, <3>2
  <2>3. CASE Now.of \in Limited /\ ~(granted[Now.of] > 0)
    BY <1>1, <1>2, <2>3 DEF Send
  <2>4. QED
    BY <2>1, <2>2, <2>3
<1>3. CASE WaitRate
  <2> DEFINE s == Now.of
  <2>1. granted' = [granted EXCEPT ![s] = granted[s] + 1] /\ UNCHANGED <<ungranted, expired>>
    BY <1>3 DEF WaitRate
  <2> HIDE DEF s
  <2>2. s \in Limited => granted[s] + 1 \in Nat
    BY <1>1
  <2>3. granted' \in [Limited -> Nat]
    BY <1>1, <2>1, <2>2
  <2>4. QED
    BY <1>1, <2>1, <2>3
<1>4. CASE \E t \in DOMAIN Tool : CallTool(t)
  <2>1. granted' = [s \in Limited |-> 0] /\ ungranted' = FALSE /\ expired' = FALSE
    BY <1>4 DEF CallTool
  <2>2. granted' \in [Limited -> Nat]
    BY <2>1
  <2>3. QED
    BY <2>1, <2>2
<1>5. CASE (\E c \in DOMAIN Command, d \in BOOLEAN : Execute(c, d)) \/ UNCHANGED vars
  BY <1>1, <1>5 DEF Execute, vars
<1>6. CASE \E o \in {"ok", "error"} : AnswerDirectly(o) \/ Hangup(o)
  BY <1>1, <1>6 DEF AnswerDirectly, Hangup
<1>7. CASE Expire \/ Killed \/ NewDeadline
  BY <1>1, <1>7 DEF Expire, Killed, NewDeadline, NothingElse
<1>8. CASE \/ Finish \/ PassGate \/ Refuse \/ DryRunEnds \/ NoDryRun
           \/ CheckPasses \/ CheckFails \/ LeaveBlock \/ TooLate
           \/ Saved \/ Unsaved \/ Torn \/ Swapped \/ Unswapped
  <2>1. UNCHANGED <<granted, ungranted, expired>>
    BY <1>8 DEF Finish, PassGate, Refuse, DryRunEnds, NoDryRun, CheckPasses, CheckFails,
                LeaveBlock, TooLate, Saved, Unsaved, Torn, Swapped, Unswapped, NothingElse
  <2>2. QED
    BY <1>1, <2>1
<1>9. CASE Answered \/ Unanswered \/ PutDone \/ PutRefused \/ PutLost
  BY <1>2, <1>9 DEF Answered, Unanswered, PutDone, PutRefused, PutLost
<1>10. QED
  BY <1>3, <1>4, <1>5, <1>6, <1>7, <1>8, <1>9 DEF Next, Proceed

\* A step of a plan leads to what keeps coming from what was ahead.
LEMMA PathFacts ==
  ASSUME PathOK, Working
  PROVE  /\ path \in Seq(AllSteps) /\ 1 \in DOMAIN path /\ path[1] \in Steps(path)
         /\ Now = path[1] /\ Now \in With(path[1]) /\ Now.level \in Nat
<1>1. path \in Seq(AllSteps) /\ path # <<>>
  BY DEF PathOK, Working
<1>2. DOMAIN path = 1 .. Len(path) /\ Len(path) \in Nat /\ Len(path) >= 1
  BY <1>1, StepFacts, TailIsSuffix
<1>3. 1 \in DOMAIN path
  BY <1>2
<1>4. path[1].level \in Nat
  BY <1>1, <1>2, <1>3, StepFacts
<1>5. QED
  BY <1>1, <1>3, <1>4 DEF Steps, With, Now

LEMMA AdvanceOnward ==
  ASSUME PathOK, Working, GoOn
  PROVE  /\ PathOK'
         /\ \E src : Onward(path, path', src) /\ \A n \in DOMAIN path' : src[n] > 1
BY TailGoesOnward DEF PathOK, Working, GoOn

LEMMA FailOnward ==
  ASSUME PathOK, Working, Fail
  PROVE  \/ Now.level = 0 /\ EndWith("error")
         \/ /\ Now.level # 0 /\ UNCHANGED <<phase, outcome>>
            /\ PathOK' /\ \E src : Onward(path, path', src)
<1>1. CASE Now.level = 0
  BY <1>1 DEF Fail
<1>2. CASE Now.level # 0
  <2>1. path' = AfterFailure(path, path[1].level) /\ UNCHANGED <<phase, outcome>>
    BY <1>2 DEF Fail, Now
  <2>2. path \in Seq(AllSteps) /\ Nests(path) /\ path # <<>> /\ path[1].level # 0
    BY <1>2 DEF PathOK, Working, Now
  <2>3. PathOK' /\ \E src : Onward(path, path', src)
    BY <2>1, <2>2, FailureGoesOnward DEF PathOK
  <2>4. QED
    BY <1>2, <2>1, <2>3
<1>3. QED
  BY <1>1, <1>2

LEMMA PlanFacts ==
  /\ \A c \in DOMAIN Command : Plan(c) = Command[c] /\ c \in Names /\ c \notin DOMAIN Tool
  /\ \A t \in DOMAIN Tool : Plan(t) = Tool[t] /\ t \in Names /\ t \notin DOMAIN Command
  /\ \A c \in DOMAIN Command : \A p \in Command[c] : p \in Seq(AllSteps) /\ Nests(p)
  /\ \A t \in DOMAIN Tool : \A p \in Tool[t] : p \in Seq(AllSteps) /\ Nests(p)
<1>1. /\ \A c \in DOMAIN Command : Plan(c) = Command[c] /\ c \in Names /\ c \notin DOMAIN Tool
      /\ \A t \in DOMAIN Tool : Plan(t) = Tool[t] /\ t \in Names /\ t \notin DOMAIN Command
  BY PlansAssumption DEF Plan, Names
<1>2. \A who \in Names : \A p \in Plan(who) : p \in Seq(AllSteps) /\ Nests(p)
  BY PlansAssumption
<1>3. QED
  BY <1>1, <1>2

LEMMA EffectTyped ==
  ASSUME TypeOK, NEW o \in Outcomes, Now.op \in Changing \cup {"get"}, Effect(o)
  PROVE  \A e \in effects' : e.op \in Changing \cup {"get"} /\ e.outcome \in Outcomes
<1>1. \A e \in effects : e.op \in Changing \cup {"get"} /\ e.outcome \in Outcomes
  BY DEF TypeOK
<1>2. effects' = effects \cup {[op |-> Now.op, of |-> Now.of, outcome |-> o]}
  BY DEF Effect
<1>3. QED
  BY <1>1, <1>2

LEMMA PathStep ==
  ASSUME PathOK, [Next]_vars
  PROVE  PathOK'
<1>1. CASE \E c \in DOMAIN Command, d \in BOOLEAN : Execute(c, d)
  BY <1>1, PlanFacts DEF Execute, PathOK
<1>2. CASE \E t \in DOMAIN Tool : CallTool(t)
  BY <1>2, PlanFacts DEF CallTool, PathOK
<1>3. CASE Rests \/ \E o \in {"ok", "error"} : AnswerDirectly(o) \/ Hangup(o)
  BY <1>3 DEF Rests, AnswerDirectly, Hangup, PathOK
<1>4. CASE Killed \/ Previews
  <2>1. path' = <<>>
    BY <1>4 DEF Killed, Previews, EndWith
  <2>2. QED
    BY <2>1, NothingAhead DEF PathOK
<1>5. CASE Finish
  <2>1. path' = path \/ path' = <<>>
    BY <1>5 DEF Finish, EndWith
  <2>2. QED
    BY <2>1, NothingAhead DEF PathOK
<1>6. CASE Advances
  BY <1>6, AdvanceOnward DEF Advances
<1>7. CASE Fails
  <2>1. Working /\ Fail
    BY <1>7 DEF Fails
  <2>2. CASE EndWith("error")
    <3>1. path' = <<>>
      BY <2>2 DEF EndWith
    <3>2. QED
      BY <3>1, NothingAhead DEF PathOK
  <2>3. QED
    BY <2>1, <2>2, FailOnward
<1>8. QED
  BY <1>1, <1>2, <1>3, <1>4, <1>5, <1>6, <1>7, StepKinds

\* Where a failure leaves the phase.
LEMMA FailPhases ==
  ASSUME PathOK, Fails
  PROVE  \/ path' # <<>> /\ UNCHANGED <<phase, outcome>>
         \/ path' = <<>> /\ UNCHANGED <<phase, outcome>>
         \/ path' = <<>> /\ EndWith("error")
<1>1. Working /\ Fail
  BY DEF Fails
<1>2. QED
  BY <1>1, FailOnward DEF EndWith

LEMMA PhaseStep ==
  ASSUME BaseInv, [Next]_vars
  PROVE  PhaseOK'
<1>1. /\ phase = "idle" => effects = {} /\ passed = {} /\ outcome = "none"
      /\ phase \in {"running", "answering", "killed"} => outcome = "none"
      /\ phase = "running" => name \in DOMAIN Command
      /\ phase = "answering" => name \in DOMAIN Tool
      /\ phase \in {"serving", "answering"} => "mcp-server" \in DOMAIN Command
      /\ PathOK
  BY DEF BaseInv, PhaseOK
<1>2. CASE \E c \in DOMAIN Command, d \in BOOLEAN : Execute(c, d)
  BY <1>1, <1>2 DEF Execute, PhaseOK
<1>3. CASE \E t \in DOMAIN Tool : CallTool(t)
  BY <1>1, <1>3 DEF CallTool, PhaseOK
<1>4. CASE \E o \in {"ok", "error"} : AnswerDirectly(o) \/ Hangup(o)
  BY <1>1, <1>4 DEF AnswerDirectly, Hangup, PhaseOK
<1>5. CASE Rests
  BY <1>1, <1>5 DEF Rests, PhaseOK
<1>6. CASE Killed
  BY <1>1, <1>6 DEF Killed, PhaseOK, NothingElse
<1>7. CASE Finish
  <2>1. /\ phase \in {"running", "answering"} /\ UNCHANGED name
        /\ \/ name = "mcp-server" /\ phase' = "serving"
           \/ phase = "running" /\ phase' = "exited"
           \/ phase = "answering" /\ phase' = "serving"
    BY <1>7 DEF Finish, EndWith, NothingElse
  <2>2. phase' = "serving" => "mcp-server" \in DOMAIN Command
    BY <1>1, <2>1, PlanFacts
  <2>3. QED
    BY <2>1, <2>2 DEF PhaseOK
<1>8. CASE Previews
  BY <1>1, <1>8 DEF Previews, EndWith, At, Working, PhaseOK
<1>9. CASE Advances
  BY <1>1, <1>9 DEF Advances, Working, GoOn, PhaseOK
<1>10. CASE Fails
  <2>1. /\ Working /\ UNCHANGED name
        /\ UNCHANGED <<phase, outcome>> \/ EndWith("error")
    BY <1>1, <1>10, FailPhases DEF Fails
  <2>2. QED
    BY <1>1, <2>1 DEF Working, EndWith, PhaseOK
<1>11. QED
  BY <1>2, <1>3, <1>4, <1>5, <1>6, <1>7, <1>8, <1>9, <1>10, StepKinds

LEMMA TypeStep ==
  ASSUME BaseInv, [Next]_vars
  PROVE  TypeOK'
<1> DEFINE Phases == {"idle", "running", "exited", "serving", "answering", "killed"}
           Named == name \in DOMAIN Command \cup DOMAIN Tool \cup {"none"}
           EffectsOK == \A e \in effects : e.op \in Changing \cup {"get"} /\ e.outcome \in Outcomes
           Ended == outcome \in {"none", "ok", "error"}
           OnlyAtWork == path # <<>> => phase \in {"running", "answering"}
           Rest == /\ phase \in Phases /\ Named /\ dryRun \in BOOLEAN
                   /\ EffectsOK /\ Ended /\ OnlyAtWork
<1>1. Rest /\ TypeOK /\ PathOK /\ PhaseOK
  BY DEF BaseInv, TypeOK
<1>2. CASE \E c \in DOMAIN Command, d \in BOOLEAN : Execute(c, d)
  <2>1. Rest'
    BY <1>1, <1>2 DEF Execute
  <2>2. QED
    BY <1>1, <2>1, GrantsTyped DEF TypeOK
<1>3. CASE \E t \in DOMAIN Tool : CallTool(t)
  <2>1. Rest'
    BY <1>1, <1>3 DEF CallTool
  <2>2. QED
    BY <1>1, <2>1, GrantsTyped DEF TypeOK
<1>4. CASE \E o \in {"ok", "error"} : AnswerDirectly(o) \/ Hangup(o)
  <2>1. phase = "serving" => "mcp-server" \in DOMAIN Command
    BY <1>1 DEF PhaseOK
  <2>2. Rest'
    BY <1>1, <1>4, <2>1 DEF AnswerDirectly, Hangup
  <2>3. QED
    BY <1>1, <2>2, GrantsTyped DEF TypeOK
<1>5. CASE Rests
  <2>1. Rest'
    BY <1>1, <1>5 DEF Rests
  <2>2. QED
    BY <1>1, <2>1, GrantsTyped DEF TypeOK
<1>6. CASE Killed
  <2>1. EffectsOK'
    <3>1. CASE Now.op \in {"put", "save"} /\ Effect("unknown")
      BY <1>1, <3>1, EffectTyped DEF Outcomes, Changing
    <3>2. CASE UNCHANGED effects
      BY <1>1, <3>2
    <3>3. QED
      BY <1>6, <3>1, <3>2 DEF Killed
  <2> HIDE DEF EffectsOK
  <2>2. Rest'
    BY <1>1, <1>6, <2>1 DEF Killed, NothingElse
  <2>3. QED
    BY <1>1, <2>2, GrantsTyped DEF TypeOK, EffectsOK
<1>7. CASE Finish
  <2>1. Rest'
    BY <1>1, <1>7 DEF Finish, EndWith, NothingElse
  <2>2. QED
    BY <1>1, <2>1, GrantsTyped DEF TypeOK
<1>8. CASE Previews
  <2>1. Rest'
    BY <1>1, <1>8 DEF Previews, EndWith
  <2>2. QED
    BY <1>1, <2>1, GrantsTyped DEF TypeOK
<1>9. CASE Advances
  <2>1. EffectsOK'
    <3>1. CASE Now.op \in Changing \cup {"get"}
      <4>1. Effect("done") /\ "done" \in Outcomes
        BY <1>9, <3>1 DEF Advances, Outcomes
      <4>2. QED
        BY <1>1, <3>1, <4>1, EffectTyped
    <3>2. CASE Now.op \notin Changing \cup {"get"}
      <4>1. UNCHANGED effects
        BY <1>9, <3>2 DEF Advances
      <4>2. QED
        BY <1>1, <4>1
    <3>3. QED
      BY <3>1, <3>2
  <2> HIDE DEF EffectsOK
  <2>2. Rest'
    BY <1>1, <1>9, <2>1 DEF Advances, Working, GoOn
  <2>3. QED
    BY <1>1, <2>2, GrantsTyped DEF TypeOK, EffectsOK
<1>10. CASE Fails
  <2>1. EffectsOK'
    <3>1. CASE Now.op \in Changing \cup {"get"} /\ \E o \in {"refused", "unknown"} : Effect(o)
      BY <1>1, <3>1, EffectTyped DEF Outcomes
    <3>2. CASE UNCHANGED effects
      BY <1>1, <3>2
    <3>3. QED
      BY <1>10, <3>1, <3>2 DEF Fails
  <2>2. /\ Working /\ UNCHANGED <<name, dryRun>>
        /\ \/ UNCHANGED <<phase, outcome>>
           \/ EndWith("error")
    BY <1>1, <1>10, FailPhases DEF Fails
  <2> HIDE DEF EffectsOK
  <2>3. Rest'
    BY <1>1, <2>1, <2>2 DEF Working, EndWith
  <2>4. QED
    BY <1>1, <2>3, GrantsTyped DEF TypeOK, EffectsOK
<1>11. QED
  BY <1>2, <1>3, <1>4, <1>5, <1>6, <1>7, <1>8, <1>9, <1>10, StepKinds

LEMMA BaseInit ==
  ASSUME Init
  PROVE  BaseInv
<1>1. granted \in [Limited -> Nat]
  BY DEF Init
<1>2. path = <<>>
  BY DEF Init
<1>3. PathOK
  BY <1>2, NothingAhead DEF PathOK
<1>4. QED
  BY <1>1, <1>2, <1>3 DEF Init, BaseInv, TypeOK, PhaseOK

LEMMA BaseStep ==
  ASSUME BaseInv, [Next]_vars
  PROVE  BaseInv'
BY PathStep, PhaseStep, TypeStep DEF BaseInv

LEMMA BaseHolds == Spec => []BaseInv
<1>1. Init => BaseInv
  BY BaseInit
<1>2. BaseInv /\ [Next]_vars => BaseInv'
  BY BaseStep
<1>3. QED
  BY <1>1, <1>2, PTL DEF Spec

\* Every variable keeps its type, and a process that is neither running a
\* command nor answering a request has nothing ahead, whatever the plans are.
THEOREM TypeCorrect == Spec => []TypeOK
<1>1. BaseInv => TypeOK
  BY DEF BaseInv
<1>2. QED
  BY <1>1, BaseHolds, PTL

-----------------------------------------------------------------------------
(* The gates.                                                              *)

\* What can be done now has all its gates behind it.
LEMMA GatesArePassed ==
  ASSUME BaseInv, GatesKept, Working, Now.op \in Changing \cup {"get"}
  PROVE  Needs(name, Now.of) \subseteq passed
<1>1. 1 \in DOMAIN path /\ Now \in With(path[1])
  BY PathFacts DEF BaseInv
<1>2. \A g : ~GateBefore(path, 1, g)
  BY DEF GateBefore
<1>3. QED
  BY <1>1, <1>2 DEF GatesKept, GatesInFront

LEMMA EffectGated ==
  ASSUME BaseInv, GatesKept, Working, Now.op \in Changing \cup {"get"},
         NEW o, Effect(o), UNCHANGED name, passed \subseteq passed'
  PROVE  \A e \in effects' : Needs(name', e.of) \subseteq passed'
<1>1. Needs(name, Now.of) \subseteq passed /\ \A e \in effects : Needs(name, e.of) \subseteq passed
  BY GatesArePassed DEF GatesKept
<1>2. effects' = effects \cup {[op |-> Now.op, of |-> Now.of, outcome |-> o]}
  BY DEF Effect
<1>3. QED
  BY <1>1, <1>2

LEMMA GatesStart ==
  ASSUME GatesRule, BaseInv, GatesKept,
         \/ \E c \in DOMAIN Command, d \in BOOLEAN : Execute(c, d)
         \/ \E t \in DOMAIN Tool : CallTool(t)
  PROVE  GatesKept'
<1>1. CASE \E c \in DOMAIN Command, d \in BOOLEAN : Execute(c, d)
  <2>1. PICK c \in DOMAIN Command : \E d \in BOOLEAN : Execute(c, d)
    BY <1>1
  <2>2. /\ phase' = "running" /\ name' = c /\ path' \in Command[c]
        /\ passed' = {} /\ effects' = {}
    BY <2>1 DEF Execute, BaseInv, PhaseOK
  <2>3. GatesInFront(c, path', {})
    BY <2>2 DEF GatesRule
  <2>4. name' = "mcp-server" => GateBefore(path', Len(path') + 1, GoogleGate)
    BY <2>2, PlanFacts DEF GatesRule
  <2>5. QED
    BY <2>2, <2>3, <2>4 DEF GatesKept
<1>2. CASE \E t \in DOMAIN Tool : CallTool(t)
  <2>1. PICK t \in DOMAIN Tool : CallTool(t)
    BY <1>2
  <2>2. /\ phase = "serving" /\ phase' = "answering" /\ name' = t /\ path' \in Tool[t]
        /\ passed' = {g \in passed : g[1] = "login"} /\ effects' = {}
    BY <2>1 DEF CallTool
  <2>3. GoogleGate \in passed'
    BY <2>2 DEF GatesKept, GoogleGate
  <2>4. GatesInFront(t, path', {GoogleGate})
    BY <2>2 DEF GatesRule
  <2>5. GatesInFront(t, path', passed')
    BY <2>3, <2>4 DEF GatesInFront
  <2>6. QED
    BY <2>2, <2>3, <2>5 DEF GatesKept
<1>3. QED
  BY <1>1, <1>2

LEMMA GatesEnd ==
  ASSUME BaseInv, GatesKept, Ends
  PROVE  GatesKept'
<1>1. /\ phase \in {"serving", "answering"} => GoogleGate \in passed
      /\ \A e \in effects : Needs(name, e.of) \subseteq passed
  BY DEF GatesKept
<1>2. ASSUME path' = <<>>, \A e \in effects' : Needs(name', e.of) \subseteq passed',
             phase' \in {"serving", "answering"} => GoogleGate \in passed',
             phase' # "running"
      PROVE  GatesKept'
  BY <1>2, NothingAhead DEF GatesKept
<1>3. CASE \E o \in {"ok", "error"} : AnswerDirectly(o) \/ Hangup(o)
  <2>1. phase = "serving" /\ path = <<>>
    BY <1>3 DEF AnswerDirectly, Hangup, BaseInv, TypeOK
  <2>2. QED
    BY <1>1, <1>2, <1>3, <2>1 DEF AnswerDirectly, Hangup
<1>4. CASE Killed
  <2>1. path' = <<>> /\ phase' = "killed" /\ UNCHANGED <<name, passed>>
    BY <1>4 DEF Killed, NothingElse
  <2>2. CASE path # <<>> /\ Now.op \in {"put", "save"}
    <3>1. Working /\ Now.op \in Changing \cup {"get"} /\ Effect("unknown")
      BY <1>4, <2>2 DEF Killed, Working, Changing
    <3>2. QED
      BY <1>2, <2>1, <3>1, EffectGated
  <2>3. CASE UNCHANGED effects
    BY <1>1, <1>2, <2>1, <2>3
  <2>4. QED
    BY <1>4, <2>2, <2>3 DEF Killed
<1>5. CASE Finish
  <2>1. /\ path = <<>> /\ path' = <<>> /\ UNCHANGED <<name, passed, effects>>
        /\ phase \in {"running", "answering"}
        /\ \/ name = "mcp-server" /\ phase' = "serving"
           \/ phase = "running" /\ phase' = "exited"
           \/ phase = "answering" /\ phase' = "serving"
    BY <1>5 DEF Finish, EndWith, NothingElse
  <2>2. phase = "running" /\ name = "mcp-server" => GoogleGate \in passed
    BY <2>1, NothingAhead DEF GatesKept
  <2>3. QED
    BY <1>1, <1>2, <2>1, <2>2
<1>6. CASE Previews \/ (Fails /\ EndWith("error"))
  <2>1. /\ phase \in {"running", "answering"} /\ path' = <<>> /\ UNCHANGED <<name, passed>>
        /\ phase' = IF phase = "running" THEN "exited" ELSE "serving"
    BY <1>6 DEF Previews, Fails, At, Working, EndWith
  <2>2. CASE UNCHANGED effects
    BY <1>1, <1>2, <2>1, <2>2
  <2>3. CASE /\ Fails /\ Now.op \in Changing \cup {"get"}
             /\ \E o \in {"refused", "unknown"} : Effect(o)
    <3>1. \A e \in effects' : Needs(name', e.of) \subseteq passed'
      BY <2>1, <2>3, EffectGated DEF Fails
    <3>2. QED
      BY <1>1, <1>2, <2>1, <3>1
  <2>4. QED
    BY <1>6, <2>2, <2>3 DEF Previews, Fails
<1>7. \/ \E o \in {"ok", "error"} : AnswerDirectly(o) \/ Hangup(o)
      \/ Killed \/ Finish \/ Previews
      \/ Fails /\ EndWith("error")
  BY DEF Ends
<1>8. QED
  BY <1>3, <1>4, <1>5, <1>6, <1>7

\* Going on, or failing inside a block.
LEMMA GatesOnward ==
  ASSUME BaseInv, GatesKept, UNCHANGED <<phase, name>>, Working,
         PathOK', NEW src, Onward(path, path', src), passed \subseteq passed',
         Now.level = 0 /\ Now.op \in {"allow", "login", "token"} => <<Now.op, Now.of>> \in passed',
         \/ UNCHANGED effects
         \/ Now.op \in Changing \cup {"get"} /\ \E o \in Outcomes : Effect(o)
  PROVE  GatesKept'
<1>1. path \in Seq(AllSteps) /\ path' \in Seq(AllSteps) /\ Now = path[1]
  BY PathFacts DEF BaseInv, PathOK
<1>2. GatesInFront(name', path', passed')
  BY <1>1, GatesStayInFront DEF GatesKept
<1>3. \A e \in effects' : Needs(name', e.of) \subseteq passed'
  <2>1. CASE UNCHANGED effects
    BY <2>1 DEF GatesKept
  <2>2. CASE Now.op \in Changing \cup {"get"} /\ \E o \in Outcomes : Effect(o)
    BY <2>2, EffectGated
  <2>3. QED
    BY <2>1, <2>2
<1>4. ASSUME name = "mcp-server", phase = "running", GoogleGate \notin passed'
      PROVE  GateBefore(path', Len(path') + 1, GoogleGate)
  <2>1. GateBefore(path, Len(path) + 1, GoogleGate)
    BY <1>4 DEF GatesKept
  <2>2. QED
    BY <1>1, <1>4, <2>1, GateStaysAhead
<1>5. QED
  BY <1>2, <1>3, <1>4 DEF GatesKept

LEMMA GatesStep ==
  ASSUME GatesRule, BaseInv, GatesKept, [Next]_vars
  PROVE  GatesKept'
<1>1. CASE \/ \E c \in DOMAIN Command, d \in BOOLEAN : Execute(c, d)
           \/ \E t \in DOMAIN Tool : CallTool(t)
  BY <1>1, GatesStart
<1>2. CASE \E o \in {"ok", "error"} : AnswerDirectly(o) \/ Hangup(o)
  BY <1>2, GatesEnd DEF Ends
<1>3. CASE Killed \/ Finish \/ Previews
  BY <1>3, GatesEnd DEF Ends
<1>4. CASE Rests
  BY <1>4 DEF Rests, GatesKept
<1>5. CASE Advances
  <2>1. PICK src : PathOK' /\ Onward(path, path', src)
    BY <1>5, AdvanceOnward DEF Advances, BaseInv
  <2>2. \/ UNCHANGED effects
        \/ Now.op \in Changing \cup {"get"} /\ \E o \in Outcomes : Effect(o)
    BY <1>5 DEF Advances, Outcomes
  <2>3. QED
    BY <1>5, <2>1, <2>2, GatesOnward DEF Advances, GoOn
<1>6. CASE Fails
  <2>1. CASE EndWith("error")
    BY <1>6, <2>1, GatesEnd DEF Ends
  <2>2. CASE /\ Now.level # 0 /\ UNCHANGED <<phase, outcome>>
             /\ PathOK' /\ \E src : Onward(path, path', src)
    <3>1. \/ UNCHANGED effects
          \/ Now.op \in Changing \cup {"get"} /\ \E o \in Outcomes : Effect(o)
      BY <1>6 DEF Fails, Outcomes
    <3>2. QED
      BY <1>6, <2>2, <3>1, GatesOnward DEF Fails
  <2>3. QED
    BY <1>6, <2>1, <2>2, FailOnward DEF Fails, BaseInv
<1>7. QED
  BY <1>1, <1>2, <1>3, <1>4, <1>5, <1>6, StepKinds

LEMMA GatesInit ==
  ASSUME Init
  PROVE  GatesKept
BY NothingAhead DEF Init, GatesKept

\* Nothing is asked of Google before EnsureAuth, of a provider before its
\* token is loaded, nor done by a command before the allowlist has let it,
\* whenever every plan has its gates in front.
THEOREM GatesComeFirst ==
  ASSUME GatesRule
  PROVE  Spec => []GatesFirst
<1>1. Init => GatesKept
  BY GatesInit
<1>2. BaseInv /\ GatesKept /\ [Next]_vars => GatesKept'
  BY GatesStep
<1>3. GatesKept => GatesFirst
  BY DEF GatesKept, GatesFirst, Needs, GoogleGate, LocalGate
<1>4. QED
  BY <1>1, <1>2, <1>3, BaseHolds, PTL DEF Spec

-----------------------------------------------------------------------------
(* What the other invariants ask of a step.                                *)

Starts ==
    \/ \E c \in DOMAIN Command, d \in BOOLEAN : Execute(c, d)
    \/ \E t \in DOMAIN Tool : CallTool(t)

LEMMA StartFacts ==
  ASSUME BaseInv, Starts
  PROVE  /\ effects' = {} /\ outcome' = "none"
         /\ \/ \E c \in DOMAIN Command : name' = c /\ path' \in Command[c]
            \/ \E t \in DOMAIN Tool : name' = t /\ path' \in Tool[t]
         /\ name' \in Names /\ path' \in Plan(name')
<1>1. CASE \E c \in DOMAIN Command, d \in BOOLEAN : Execute(c, d)
  <2>1. PICK c \in DOMAIN Command : \E d \in BOOLEAN : Execute(c, d)
    BY <1>1
  <2>2. name' = c /\ path' \in Command[c] /\ effects' = {} /\ outcome' = "none"
    BY <2>1 DEF Execute, BaseInv, PhaseOK
  <2>3. QED
    BY <2>2, PlanFacts
<1>2. CASE \E t \in DOMAIN Tool : CallTool(t)
  <2>1. PICK t \in DOMAIN Tool : CallTool(t)
    BY <1>2
  <2>2. name' = t /\ path' \in Tool[t] /\ effects' = {} /\ outcome' = "none"
    BY <2>1 DEF CallTool
  <2>3. QED
    BY <2>2, PlanFacts
<1>3. QED
  BY <1>1, <1>2 DEF Starts

\* A step that fails, or dies, may have left something behind.
LeavesBehind ==
    /\ Working /\ Now.op \in Changing \cup {"get"}
    /\ \E o \in {"refused", "unknown"} : Effect(o)

LEMMA EndFacts ==
  ASSUME BaseInv, Ends
  PROVE  /\ path' = <<>>
         /\ \/ effects' = {} /\ phase = "serving"
            \/ /\ UNCHANGED <<name, dryRun>> /\ phase \in {"running", "answering"}
               /\ \/ /\ UNCHANGED effects /\ outcome' # "error"
                     /\ UNCHANGED outcome \/ outcome' = "ok"
                  \/ LeavesBehind /\ UNCHANGED outcome /\ phase' = "killed"
                  \/ /\ Fails /\ outcome' = "error"
                     /\ UNCHANGED effects \/ LeavesBehind
<1>1. /\ phase = "serving" => path = <<>>
      /\ phase \in {"running", "answering"} => outcome = "none"
  BY DEF BaseInv, TypeOK, PhaseOK
<1>2. CASE \E o \in {"ok", "error"} : AnswerDirectly(o) \/ Hangup(o)
  BY <1>1, <1>2 DEF AnswerDirectly, Hangup
<1>3. CASE Killed
  <2>1. /\ path' = <<>> /\ phase' = "killed" /\ UNCHANGED <<name, dryRun, outcome>>
        /\ phase \in {"running", "answering"}
    BY <1>3 DEF Killed, NothingElse
  <2>2. LeavesBehind \/ UNCHANGED effects
    BY <1>3 DEF Killed, LeavesBehind, Working, Changing
  <2>3. QED
    BY <1>1, <2>1, <2>2
<1>4. CASE Finish
  BY <1>1, <1>4 DEF Finish, EndWith, NothingElse
<1>5. CASE Previews
  BY <1>5 DEF Previews, At, Working, EndWith
<1>6. CASE Fails /\ EndWith("error")
  <2>1. /\ path' = <<>> /\ outcome' = "error" /\ UNCHANGED <<name, dryRun>>
        /\ phase \in {"running", "answering"}
    BY <1>6 DEF Fails, EndWith, Working
  <2>2. UNCHANGED effects \/ LeavesBehind
    BY <1>6 DEF Fails, LeavesBehind
  <2>3. QED
    BY <1>6, <2>1, <2>2
<1>7. QED
  BY <1>2, <1>3, <1>4, <1>5, <1>6 DEF Ends

\* The step is done, or did not have to be.
Succeeds ==
    /\ Advances
    /\ path' \in Seq(AllSteps)
    /\ \E src : Onward(path, path', src) /\ \A n \in DOMAIN path' : src[n] > 1

\* It is not, and something else is done instead.
Evades ==
    /\ Fails /\ Now.level # 0 /\ UNCHANGED <<phase, outcome>>
    /\ path' \in Seq(AllSteps)
    /\ \E src : Onward(path, path', src)

LEMMA KindsOfSteps ==
  ASSUME BaseInv, [Next]_vars
  PROVE  Starts \/ Ends \/ Rests \/ Succeeds \/ Evades
<1>1. CASE Advances
  <2>1. PathOK' /\ \E src : Onward(path, path', src) /\ \A n \in DOMAIN path' : src[n] > 1
    BY <1>1, AdvanceOnward DEF Advances, BaseInv
  <2>2. QED
    BY <1>1, <2>1 DEF Succeeds, PathOK
<1>2. CASE Fails
  <2>1. CASE EndWith("error")
    BY <1>2, <2>1 DEF Ends
  <2>2. CASE /\ Now.level # 0 /\ UNCHANGED <<phase, outcome>>
             /\ PathOK' /\ \E src : Onward(path, path', src)
    BY <1>2, <2>2 DEF Evades, PathOK
  <2>3. QED
    BY <1>2, <2>1, <2>2, FailOnward DEF Fails, BaseInv
<1>3. CASE \E o \in {"ok", "error"} : AnswerDirectly(o) \/ Hangup(o)
  BY <1>3 DEF Ends
<1>4. CASE Killed \/ Finish \/ Previews
  BY <1>4 DEF Ends
<1>5. QED
  BY <1>1, <1>2, <1>3, <1>4, StepKinds DEF Starts

LEMMA ChangesKept ==
  ASSUME NEW CONSTANT outcomes, Changes(outcomes) = {},
         \/ UNCHANGED effects
         \/ \E o \in Outcomes : Effect(o) /\ (Now.op \notin Changing \/ o \notin outcomes)
  PROVE  Changes(outcomes)' = {}
<1>1. \A e \in effects : ~(e.op \in Changing /\ e.outcome \in outcomes)
  BY DEF Changes
<1>2. CASE UNCHANGED effects
  BY <1>1, <1>2 DEF Changes
<1>3. CASE \E o \in Outcomes : Effect(o) /\ (Now.op \notin Changing \/ o \notin outcomes)
  <2>1. PICK o \in Outcomes : Effect(o) /\ (Now.op \notin Changing \/ o \notin outcomes)
    BY <1>3
  <2>2. effects' = effects \cup {[op |-> Now.op, of |-> Now.of, outcome |-> o]}
    BY <2>1 DEF Effect
  <2>3. \A e \in effects' : ~(e.op \in Changing /\ e.outcome \in outcomes)
    BY <1>1, <2>1, <2>2
  <2>4. QED
    BY <2>3 DEF Changes
<1>4. QED
  BY <1>2, <1>3

LEMMA NoEffectNoChange ==
  ASSUME effects = {}
  PROVE  \A outcomes : Changes(outcomes) = {}
BY DEF Changes

-----------------------------------------------------------------------------
(* Previews.                                                               *)

Previewing ==
    (dryRun /\ name \in DOMAIN Command \ IgnoresDryRun) \/ name \in ReadOnlyTools

LEMMA PreviewParts ==
  ASSUME PreviewKept
  PROVE  Previewing => /\ Changes(Outcomes) = {}
                       /\ LooksBeforeChanging(path) \/ ChangesNothing(path)
BY DEF PreviewKept, Previewing

\* A preview is never about to change something.
LEMMA PreviewNeverChanges ==
  ASSUME BaseInv, PreviewKept, Previewing, Working
  PROVE  Now.op \notin Changing
<1>1. 1 \in DOMAIN path /\ Now \in With(path[1])
  BY PathFacts DEF BaseInv
<1>2. LooksBeforeChanging(path) \/ ChangesNothing(path)
  BY PreviewParts
<1>3. Now.op \in Changing => MayChange(path, 1)
  BY <1>1 DEF MayChange
<1>4. ~(\E j \in 1 .. 1 - 1 : path[j].op = "dry" /\ path[j].level = 0)
  OBVIOUS
<1>5. QED
  BY <1>1, <1>2, <1>3, <1>4 DEF LooksBeforeChanging, ChangesNothing

LEMMA PreviewStep ==
  ASSUME PreviewRule, BaseInv, PreviewKept, [Next]_vars
  PROVE  PreviewKept'
<1>1. CASE Starts
  <2>1. effects' = {}
    BY <1>1, StartFacts
  <2>2. Changes(Outcomes)' = {}
    BY <2>1 DEF Changes
  <2>3. CASE \E c \in DOMAIN Command : name' = c /\ path' \in Command[c]
    <3>1. name' \notin ReadOnlyTools
      BY <2>3, PlanFacts, PlansAssumption
    <3>2. name' \in DOMAIN Command \ IgnoresDryRun => LooksBeforeChanging(path')
      BY <2>3 DEF PreviewRule
    <3>3. QED
      BY <2>2, <3>1, <3>2 DEF PreviewKept
  <2>4. CASE \E t \in DOMAIN Tool : name' = t /\ path' \in Tool[t]
    <3>1. name' \notin DOMAIN Command
      BY <2>4, PlanFacts
    <3>2. name' \in ReadOnlyTools => ChangesNothing(path')
      BY <2>4 DEF PreviewRule
    <3>3. QED
      BY <2>2, <3>1, <3>2 DEF PreviewKept
  <2>5. QED
    BY <1>1, <2>3, <2>4, StartFacts
<1>2. CASE Ends
  <2>1. LooksBeforeChanging(path') /\ ChangesNothing(path')
    BY <1>2, EndFacts, NothingAhead
  <2>2. CASE effects' = {}
    <3>1. Changes(Outcomes)' = {}
      BY <2>2 DEF Changes
    <3>2. QED
      BY <2>1, <3>1 DEF PreviewKept
  <2>3. CASE UNCHANGED <<name, dryRun>> /\ (UNCHANGED effects \/ LeavesBehind)
    <3>1. ASSUME Previewing
          PROVE  Changes(Outcomes)' = {}
      <4>1. Changes(Outcomes) = {}
        BY <3>1, PreviewParts
      <4>2. LeavesBehind => \E o \in Outcomes : Effect(o) /\ Now.op \notin Changing
        BY <3>1, PreviewNeverChanges DEF LeavesBehind, Outcomes
      <4>3. QED
        BY <2>3, <4>1, <4>2, ChangesKept
    <3>2. QED
      BY <2>1, <2>3, <3>1 DEF PreviewKept, Previewing
  <2>4. QED
    BY <1>2, <2>2, <2>3, EndFacts
<1>3. CASE Rests
  BY <1>3 DEF Rests, PreviewKept, Changes
<1>4. ASSUME Working, UNCHANGED <<name, dryRun>>, path' \in Seq(AllSteps),
             NEW src, Onward(path, path', src), ~(Now.op = "dry" /\ Now.level = 0 /\ dryRun),
             UNCHANGED effects \/ \E o \in Outcomes : Effect(o)
      PROVE  PreviewKept'
  <2>1. path \in Seq(AllSteps) /\ Now = path[1]
    BY <1>4, PathFacts DEF BaseInv
  <2>2. ASSUME Previewing
        PROVE  Changes(Outcomes)' = {}
    <3>1. Changes(Outcomes) = {} /\ Now.op \notin Changing
      BY <1>4, <2>2, PreviewParts, PreviewNeverChanges
    <3>2. QED
      BY <1>4, <3>1, ChangesKept
  <2>3. ASSUME dryRun, LooksBeforeChanging(path)
        PROVE  LooksBeforeChanging(path')
    BY <1>4, <2>1, <2>3, LookStaysInFront
  <2>4. ChangesNothing(path) => ChangesNothing(path')
    BY <1>4, <2>1, StaysWithoutChange
  <2>5. QED
    BY <1>4, <2>2, <2>3, <2>4 DEF PreviewKept, Previewing
<1>5. CASE Succeeds
  <2>1. UNCHANGED effects \/ \E o \in Outcomes : Effect(o)
    BY <1>5 DEF Succeeds, Advances, Outcomes
  <2>2. QED
    BY <1>4, <1>5, <2>1 DEF Succeeds, Advances
<1>6. CASE Evades
  <2>1. UNCHANGED effects \/ \E o \in Outcomes : Effect(o)
    BY <1>6 DEF Evades, Fails, Outcomes
  <2>2. QED
    BY <1>4, <1>6, <2>1 DEF Evades, Fails
<1>7. QED
  BY <1>1, <1>2, <1>3, <1>5, <1>6, KindsOfSteps

LEMMA PreviewInit ==
  ASSUME Init
  PROVE  PreviewKept
BY NothingAhead, NoEffectNoChange DEF Init, PreviewKept

\* A preview changes nothing, whatever fails on the way, if every command has
\* its look at --dry-run before what it changes and no read-only tool has
\* anything to change.
THEOREM PreviewsAreHarmless ==
  ASSUME PreviewRule
  PROVE  Spec => []PreviewsChangeNothing
<1>1. Init => PreviewKept
  BY PreviewInit
<1>2. BaseInv /\ PreviewKept /\ [Next]_vars => PreviewKept'
  BY PreviewStep
<1>3. PreviewKept => PreviewsChangeNothing
  BY DEF PreviewKept, PreviewsChangeNothing
<1>4. QED
  BY <1>1, <1>2, <1>3, BaseHolds, PTL DEF Spec

-----------------------------------------------------------------------------
(* What is reported.                                                       *)

LEMMA ReportStep ==
  ASSUME ReportRule, BaseInv, ReportKept, [Next]_vars
  PROVE  ReportKept'
<1>0. phase \in {"running", "answering"} => outcome = "none"
  BY DEF BaseInv, PhaseOK
<1>1. CASE Starts
  <2>1. effects' = {} /\ name' \in Names /\ path' \in Plan(name')
    BY <1>1, StartFacts
  <2>2. Changes({"refused", "unknown"})' = {}
    BY <2>1 DEF Changes
  <2>3. QED
    BY <2>1, <2>2 DEF ReportKept, ReportRule
<1>2. CASE Ends
  <2>1. FailuresSurface(path')
    BY <1>2, EndFacts, NothingAhead
  <2>2. CASE effects' = {}
    <3>1. Changes({"refused", "unknown"})' = {}
      BY <2>2 DEF Changes
    <3>2. QED
      BY <2>1, <3>1 DEF ReportKept
  <2>3. CASE UNCHANGED <<name, effects>> /\ phase \in {"running", "answering"}
    <3>1. name \notin ReportsInside => Changes({"refused", "unknown"}) = {}
      BY <1>0, <2>3 DEF ReportKept
    <3>2. Changes({"refused", "unknown"})' = Changes({"refused", "unknown"})
      BY <2>3 DEF Changes
    <3>3. QED
      BY <2>1, <2>3, <3>1, <3>2 DEF ReportKept
  <2>4. CASE outcome' = "error" \/ phase' = "killed"
    BY <2>1, <2>4 DEF ReportKept
  <2>5. QED
    BY <1>2, <2>2, <2>3, <2>4, EndFacts
<1>3. CASE Rests
  BY <1>3 DEF Rests, ReportKept, Changes
<1>4. ASSUME Working, UNCHANGED name, path' \in Seq(AllSteps), NEW src, Onward(path, path', src),
             \/ UNCHANGED effects
             \/ \E o \in Outcomes :
                   /\ Effect(o)
                   /\ Now.op \notin Changing \/ o = "done" \/ Now.level # 0
      PROVE  ReportKept'
  <2>1. SUFFICES ASSUME name \notin ReportsInside
                 PROVE  FailuresSurface(path') /\ Changes({"refused", "unknown"})' = {}
    BY <1>4 DEF ReportKept
  <2>2. /\ path \in Seq(AllSteps) /\ 1 \in DOMAIN path /\ Now \in With(path[1])
        /\ FailuresSurface(path)
    BY <1>4, <2>1, PathFacts DEF BaseInv, ReportKept
  <2>3. FailuresSurface(path')
    BY <1>4, <2>2, FailuresStillSurface
  <2>4. Now.op \in Changing => Now.level = 0
    BY <2>2 DEF FailuresSurface
  <2>5. Changes({"refused", "unknown"}) = {}
    BY <1>0, <1>4, <2>1 DEF ReportKept, Working
  <2>6. \/ UNCHANGED effects
        \/ \E o \in Outcomes : Effect(o) /\ (Now.op \notin Changing \/ o \notin {"refused", "unknown"})
    BY <1>4, <2>4
  <2>7. QED
    BY <2>3, <2>5, <2>6, ChangesKept
<1>5. CASE Succeeds
  <2>1. UNCHANGED effects \/ (Effect("done") /\ "done" \in Outcomes)
    BY <1>5 DEF Succeeds, Advances, Outcomes
  <2>2. QED
    BY <1>4, <1>5, <2>1 DEF Succeeds, Advances
<1>6. CASE Evades
  <2>1. UNCHANGED effects \/ \E o \in Outcomes : Effect(o)
    BY <1>6 DEF Evades, Fails, Outcomes
  <2>2. QED
    BY <1>4, <1>6, <2>1 DEF Evades, Fails
<1>7. QED
  BY <1>1, <1>2, <1>3, <1>5, <1>6, KindsOfSteps

LEMMA ReportInit ==
  ASSUME Init
  PROVE  ReportKept
BY NothingAhead, NoEffectNoChange DEF Init, ReportKept

\* What is reported as done was done: no change that failed is passed over, by
\* whatever command or tool makes its changes outside every block.
THEOREM ReportsAreTrue ==
  ASSUME ReportRule
  PROVE  Spec => []OkMeansDone
<1>1. Init => ReportKept
  BY ReportInit
<1>2. BaseInv /\ ReportKept /\ [Next]_vars => ReportKept'
  BY ReportStep
<1>3. BaseInv /\ ReportKept => OkMeansDone
  BY DEF BaseInv, PhaseOK, ReportKept, OkMeansDone
<1>4. QED
  BY <1>1, <1>2, <1>3, BaseHolds, PTL DEF Spec

-----------------------------------------------------------------------------
(* What an error leaves.                                                   *)

\* When what was under way ends in an error, it was at a step that may end so.
LEMMA ErrorsComeFrom ==
  ASSUME BaseInv, Fails, outcome' = "error"
  PROVE  MayEnd(name, Now)
<1>1. Working /\ outcome = "none"
  BY DEF Fails, BaseInv, PhaseOK, Working
<1>2. Now.level = 0
  BY <1>1 DEF Fails, Fail
<1>3. Now.op = "wait" => name \in DOMAIN Tool
  BY DEF Fails, BaseInv, PhaseOK
<1>4. QED
  BY <1>2, <1>3 DEF Fails, MayEnd

LEMMA PartialStep ==
  ASSUME PartialRule, BaseInv, PartialKept, [Next]_vars
  PROVE  PartialKept'
<1>0. phase \in {"running", "answering"} => outcome = "none"
  BY DEF BaseInv, PhaseOK
<1>1. CASE Starts
  <2>1. effects' = {} /\ name' \in Names /\ path' \in Plan(name')
    BY <1>1, StartFacts
  <2>2. Changes({"done"})' = {}
    BY <2>1 DEF Changes
  <2>3. QED
    BY <2>1, <2>2 DEF PartialKept, PartialRule
<1>2. CASE Ends
  <2>1. path' = <<>> /\ ChangesLast(name', path') /\ Steps(path') = {}
    BY <1>2, EndFacts, NothingAhead
  <2>2. ASSUME outcome' # "error" \/ Changes({"done"})' = {}
        PROVE  PartialKept'
    BY <2>1, <2>2 DEF PartialKept
  <2>3. CASE effects' = {}
    <3>1. Changes({"done"})' = {}
      BY <2>3 DEF Changes
    <3>2. QED
      BY <2>2, <3>1
  <2>4. CASE outcome' # "error"
    BY <2>2, <2>4
  <2>5. CASE /\ UNCHANGED name /\ Fails /\ outcome' = "error"
             /\ UNCHANGED effects \/ LeavesBehind
    <3>1. SUFFICES ASSUME name \notin PartialWriters
                   PROVE  Changes({"done"})' = {}
      BY <2>1, <2>2, <2>5 DEF PartialKept
    <3>2. path[1] \in Steps(path) /\ Now \in With(path[1]) /\ MayEnd(name, Now)
      BY <2>5, PathFacts, ErrorsComeFrom DEF BaseInv, Fails
    <3>3. Changes({"done"}) = {}
      BY <3>1, <3>2 DEF PartialKept
    <3>4. \/ UNCHANGED effects
          \/ \E o \in Outcomes : Effect(o) /\ (Now.op \notin Changing \/ o \notin {"done"})
      BY <2>5 DEF LeavesBehind, Outcomes
    <3>5. QED
      BY <3>3, <3>4, ChangesKept
  <2>6. \/ effects' = {} \/ outcome' # "error"
        \/ /\ UNCHANGED name /\ Fails /\ outcome' = "error"
           /\ UNCHANGED effects \/ LeavesBehind
    BY <1>0, <1>2, EndFacts
  <2>7. QED
    BY <2>3, <2>4, <2>5, <2>6
<1>3. CASE Rests
  BY <1>3 DEF Rests, PartialKept, Changes
<1>4. ASSUME Working, UNCHANGED <<name, outcome>>, path' \in Seq(AllSteps),
             NEW src, Onward(path, path', src),
             \/ UNCHANGED effects
             \/ \E o \in Outcomes :
                   /\ Effect(o)
                   /\ o # "done" \/ \A n \in DOMAIN path' : src[n] > 1
      PROVE  PartialKept'
  <2>1. SUFFICES ASSUME name \notin PartialWriters
                 PROVE  /\ ChangesLast(name, path')
                        /\ outcome # "error"
                        /\ Changes({"done"})' # {} =>
                              \A s \in Steps(path') : \A t \in With(s) : ~MayEnd(name, t)
    BY <1>4 DEF PartialKept
  <2>2. /\ path \in Seq(AllSteps) /\ 1 \in DOMAIN path /\ Now \in With(path[1])
        /\ ChangesLast(name, path)
    BY <1>4, <2>1, PathFacts DEF BaseInv, PartialKept
  <2>3. ChangesLast(name, path')
    BY <1>4, <2>2, ChangesStayLast
  <2>4. SUFFICES ASSUME Changes({"done"})' # {}, NEW n \in DOMAIN path', NEW t \in With(path'[n])
                 PROVE  ~MayEnd(name, t)
    BY <1>0, <1>4, <2>3 DEF Working, Steps
  <2>5. src[n] \in DOMAIN path /\ t \in With(path[src[n]])
    BY <1>4, <2>2, OnwardOrder DEF Onward
  <2>6. CASE Changes({"done"}) # {}
    <3>1. path[src[n]] \in Steps(path)
      BY <2>5 DEF Steps
    <3>2. QED
      BY <2>1, <2>5, <2>6, <3>1 DEF PartialKept
  <2>7. CASE Changes({"done"}) = {}
    <3>1. Now.op \in Changing /\ src[n] > 1
      BY <1>4, <2>4, <2>7, ChangesKept
    <3>2. MayChange(path, 1)
      BY <2>2, <3>1 DEF MayChange
    <3>3. 1 \in 1 .. src[n] - 1
      <4>1. src[n] \in Nat
        BY <1>4, <2>2, OnwardOrder
      <4>2. QED
        BY <3>1, <4>1
    <3>4. QED
      BY <2>2, <2>5, <3>2, <3>3 DEF ChangesLast
  <2>8. QED
    BY <2>6, <2>7
<1>5. CASE Succeeds
  <2>1. PICK src : Onward(path, path', src) /\ \A n \in DOMAIN path' : src[n] > 1
    BY <1>5 DEF Succeeds
  <2>2. UNCHANGED effects \/ (Effect("done") /\ "done" \in Outcomes)
    BY <1>5 DEF Succeeds, Advances, Outcomes
  <2>3. QED
    BY <1>4, <1>5, <2>1, <2>2 DEF Succeeds, Advances, GoOn
<1>6. CASE Evades
  <2>1. UNCHANGED effects \/ \E o \in Outcomes : Effect(o) /\ o # "done"
    BY <1>6 DEF Evades, Fails, Outcomes
  <2>2. QED
    BY <1>4, <1>6, <2>1 DEF Evades, Fails
<1>7. QED
  BY <1>1, <1>2, <1>3, <1>5, <1>6, KindsOfSteps

LEMMA PartialInit ==
  ASSUME Init
  PROVE  PartialKept
BY NothingAhead, NoEffectNoChange DEF Init, PartialKept

\* After an error none of the changes has been made, if every command and tool
\* but those that may fail half done makes its changes last.
THEOREM ErrorsLeaveNothing ==
  ASSUME PartialRule
  PROVE  Spec => []ErrorMeansNothingChanged
<1>1. Init => PartialKept
  BY PartialInit
<1>2. BaseInv /\ PartialKept /\ [Next]_vars => PartialKept'
  BY PartialStep
<1>3. PartialKept => ErrorMeansNothingChanged
  BY DEF PartialKept, ErrorMeansNothingChanged
<1>4. QED
  BY <1>1, <1>2, <1>3, BaseHolds, PTL DEF Spec

-----------------------------------------------------------------------------
(* The spreadsheet of a workflow.                                          *)

Remembered == \E e \in effects : e.op = "swap" /\ e.of = "workflow.json" /\ e.outcome = "done"

WillRemember(p) == \E s \in Steps(p) : \E t \in With(s) : t.op = "swap" /\ t.of = "workflow.json"

NoPutIn(p) == \A s \in Steps(p) : \A t \in With(s) : t.op # "put"

LEMMA SheetParts ==
  SheetKept <=> /\ RemembersLast(path, Puts # {})
                /\ WillRemember(path) => AllDone
                /\ Remembered => Puts # {} /\ AllDone /\ NoPutIn(path)
BY DEF SheetKept, Remembered, WillRemember, NoPutIn

LEMMA PutsAfter ==
  ASSUME NEW o \in Outcomes, Effect(o)
  PROVE  /\ Now.op # "put" => Puts' = Puts /\ (AllDone => AllDone')
         /\ Now.op = "put" => Puts' # {} /\ (AllDone /\ o = "done" => AllDone')
         /\ Remembered' => \/ Remembered
                           \/ Now.op = "swap" /\ Now.of = "workflow.json" /\ o = "done"
<1>1. effects' = effects \cup {[op |-> Now.op, of |-> Now.of, outcome |-> o]}
  BY DEF Effect
<1>2. Now.op # "put" => Puts' = Puts /\ (AllDone => AllDone')
  BY <1>1 DEF Puts, AllDone
<1>3. Now.op = "put" => Puts' # {} /\ (AllDone /\ o = "done" => AllDone')
  <2>1. SUFFICES ASSUME Now.op = "put"
                 PROVE  Puts' # {} /\ (AllDone /\ o = "done" => AllDone')
    OBVIOUS
  <2>2. [op |-> Now.op, of |-> Now.of, outcome |-> o] \in Puts'
    BY <1>1, <2>1 DEF Puts
  <2>3. ASSUME AllDone, o = "done"
        PROVE  AllDone'
    <3>1. \A e \in effects : e.op = "put" => e.outcome = "done"
      BY <2>3 DEF AllDone, Puts
    <3>2. \A e \in effects' : e.op = "put" => e.outcome = "done"
      BY <1>1, <2>3, <3>1
    <3>3. QED
      BY <3>2 DEF AllDone, Puts
  <2>4. QED
    BY <2>2, <2>3
<1>4. Remembered' => \/ Remembered
                     \/ Now.op = "swap" /\ Now.of = "workflow.json" /\ o = "done"
  BY <1>1 DEF Remembered
<1>5. QED
  BY <1>2, <1>3, <1>4

\* The plans remember the id behind the changes, so the state does.
LEMMA SheetNow ==
  ASSUME BaseInv, SheetKept, Working
  PROVE  /\ Now.op = "swap" /\ Now.of = "workflow.json" => Puts # {} /\ AllDone /\ NoPutIn(path)
         /\ Now.op = "put" => ~Remembered
         /\ Now.op = "put" /\ WillRemember(path) => Now.level = 0
<1>1. /\ path \in Seq(AllSteps) /\ 1 \in DOMAIN path /\ path[1] \in Steps(path)
      /\ Now \in With(path[1])
  BY PathFacts DEF BaseInv
<1>2. /\ RemembersLast(path, Puts # {})
      /\ WillRemember(path) => AllDone
      /\ Remembered => NoPutIn(path)
  BY SheetParts
<1>3. ASSUME Now.op = "swap", Now.of = "workflow.json"
      PROVE  Puts # {} /\ AllDone /\ NoPutIn(path)
  <2>1. WillRemember(path)
    BY <1>1, <1>3 DEF WillRemember
  <2>2. /\ Puts # {} \/ \E j \in 1 .. 1 - 1 : path[j].op = "put" /\ path[j].level = 0
        /\ \A m \in DOMAIN path : \A u \in With(path[m]) : u.op = "put" => m < 1 /\ u.level = 0
    BY <1>1, <1>2, <1>3 DEF RemembersLast
  <2>3. Puts # {}
    BY <2>2
  <2>4. \A m \in DOMAIN path : ~(m < 1)
    BY <1>1, StepFacts
  <2>5. NoPutIn(path)
    BY <2>2, <2>4 DEF NoPutIn, Steps
  <2>6. QED
    BY <1>2, <2>1, <2>3, <2>5
<1>4. Now.op = "put" => ~Remembered
  BY <1>1, <1>2 DEF NoPutIn
<1>5. Now.op = "put" /\ WillRemember(path) => Now.level = 0
  BY <1>1, <1>2 DEF WillRemember, Steps, RemembersLast
<1>6. QED
  BY <1>3, <1>4, <1>5

LEMMA SheetStep ==
  ASSUME SheetRule, BaseInv, SheetKept, [Next]_vars
  PROVE  SheetKept'
<1>0. /\ RemembersLast(path, Puts # {})
      /\ WillRemember(path) => AllDone
      /\ Remembered => Puts # {} /\ AllDone /\ NoPutIn(path)
  BY SheetParts
<1>1. ASSUME RemembersLast(path', Puts' # {}),
             WillRemember(path') => AllDone',
             Remembered' => Puts' # {} /\ AllDone' /\ NoPutIn(path')
      PROVE  SheetKept'
  BY <1>1 DEF SheetKept, Remembered, WillRemember, NoPutIn
<1>2. CASE Starts
  <2>1. effects' = {} /\ RemembersLast(path', FALSE)
    BY <1>2, StartFacts DEF SheetRule
  <2>2. (Puts' # {}) = FALSE /\ AllDone' /\ ~Remembered'
    BY <2>1 DEF Puts, AllDone, Remembered
  <2>3. QED
    BY <1>1, <2>1, <2>2
<1>3. CASE Ends
  <2>1. path' = <<>> /\ RemembersLast(path', Puts' # {}) /\ Steps(path') = {}
    BY <1>3, EndFacts, NothingAhead
  <2>2. ~WillRemember(path') /\ NoPutIn(path')
    BY <2>1 DEF WillRemember, NoPutIn
  <2>3. Remembered' => Puts' # {} /\ AllDone'
    <3>1. CASE effects' = {}
      BY <3>1 DEF Remembered
    <3>2. CASE UNCHANGED effects
      BY <1>0, <3>2 DEF Remembered, Puts, AllDone
    <3>3. CASE LeavesBehind
      <4>1. PICK o \in {"refused", "unknown"} : Effect(o)
        BY <3>3 DEF LeavesBehind
      <4>2. o \in Outcomes /\ o # "done"
        BY DEF Outcomes
      <4>3. Remembered' => Remembered /\ Now.op # "put"
        BY <3>3, <4>1, <4>2, PutsAfter, SheetNow DEF LeavesBehind
      <4>4. QED
        BY <1>0, <4>1, <4>2, <4>3, PutsAfter
    <3>4. QED
      BY <1>3, <3>1, <3>2, <3>3, EndFacts
  <2>4. QED
    BY <1>1, <2>1, <2>2, <2>3
<1>4. CASE Rests
  BY <1>4 DEF Rests, SheetKept, Puts, AllDone
<1>5. ASSUME Working, path' \in Seq(AllSteps), NEW src, Onward(path, path', src),
             \/ UNCHANGED effects /\ (Now.op = "put" => Now.level # 0)
             \/ Effect("done")
             \/ Now.level # 0 /\ \E o \in {"refused", "unknown"} : Effect(o)
      PROVE  SheetKept'
  <2>1. path \in Seq(AllSteps) /\ Now = path[1]
    BY <1>5, PathFacts DEF BaseInv
  <2>2. \A n \in DOMAIN path' : /\ src[n] \in DOMAIN path /\ path[src[n]] \in Steps(path)
                                /\ With(path'[n]) \subseteq With(path[src[n]])
    BY <1>5, <2>1, OnwardOrder DEF Onward, Steps
  <2>3. WillRemember(path') => WillRemember(path)
    BY <2>2 DEF WillRemember, Steps
  <2>4. NoPutIn(path) => NoPutIn(path')
    BY <2>2 DEF NoPutIn, Steps
  <2>5. ASSUME Puts # {} \/ (Now.op = "put" /\ Now.level = 0) => Puts' # {}
        PROVE  RemembersLast(path', Puts' # {})
    BY <1>0, <1>5, <2>1, <2>5, RemembersStillLast
  <2>6. CASE UNCHANGED effects /\ (Now.op = "put" => Now.level # 0)
    <3>1. Puts' = Puts /\ AllDone' = AllDone /\ Remembered' = Remembered
      BY <2>6 DEF Puts, AllDone, Remembered
    <3>2. QED
      BY <1>0, <1>1, <2>3, <2>4, <2>5, <2>6, <3>1
  <2>7. CASE Effect("done")
    <3>1. "done" \in Outcomes
      BY DEF Outcomes
    <3>2. CASE Now.op = "put"
      <4>1. Puts' # {} /\ (AllDone => AllDone') /\ ~Remembered'
        BY <1>5, <2>7, <3>1, <3>2, PutsAfter, SheetNow
      <4>2. QED
        BY <1>0, <1>1, <2>3, <2>5, <4>1
    <3>3. CASE Now.op # "put"
      <4>1. Puts' = Puts /\ (AllDone => AllDone')
        BY <2>7, <3>1, <3>3, PutsAfter
      <4>2. Remembered' => Puts # {} /\ AllDone /\ NoPutIn(path)
        BY <1>0, <1>5, <2>7, <3>1, PutsAfter, SheetNow
      <4>3. QED
        BY <1>0, <1>1, <2>3, <2>4, <2>5, <3>3, <4>1, <4>2
    <3>4. QED
      BY <3>2, <3>3
  <2>8. CASE Now.level # 0 /\ \E o \in {"refused", "unknown"} : Effect(o)
    <3>1. PICK o \in {"refused", "unknown"} : Effect(o)
      BY <2>8
    <3>2. o \in Outcomes /\ o # "done"
      BY DEF Outcomes
    <3>3. CASE Now.op = "put"
      <4>1. Puts' # {} /\ ~Remembered' /\ ~WillRemember(path)
        BY <1>5, <2>8, <3>1, <3>2, <3>3, PutsAfter, SheetNow
      <4>2. QED
        BY <1>1, <2>3, <2>5, <4>1
    <3>4. CASE Now.op # "put"
      <4>1. Puts' = Puts /\ (AllDone => AllDone') /\ (Remembered' => Remembered)
        BY <3>1, <3>2, <3>4, PutsAfter
      <4>2. QED
        BY <1>0, <1>1, <2>3, <2>4, <2>5, <3>4, <4>1
    <3>5. QED
      BY <3>3, <3>4
  <2>9. QED
    BY <1>5, <2>6, <2>7, <2>8
<1>6. CASE Succeeds
  <2>1. Effect("done") \/ (UNCHANGED effects /\ Now.op # "put")
    BY <1>6 DEF Succeeds, Advances, Changing
  <2>2. QED
    BY <1>5, <1>6, <2>1 DEF Succeeds, Advances
<1>7. CASE Evades
  BY <1>5, <1>7 DEF Evades, Fails
<1>8. QED
  BY <1>2, <1>3, <1>4, <1>6, <1>7, KindsOfSteps

LEMMA SheetInit ==
  ASSUME Init
  PROVE  SheetKept
<1>1. path = <<>> /\ effects = {}
  BY DEF Init
<1>2. RemembersLast(path, Puts # {}) /\ Steps(path) = {}
  BY <1>1, NothingAhead
<1>3. QED
  BY <1>1, <1>2 DEF SheetKept, Puts, AllDone

\* The id of a workflow's spreadsheet is remembered only when the spreadsheet
\* has been made and everything sent to it was done, also when the process
\* dies in between, if every plan remembers it last.
THEOREM RememberedSheetsAreReady ==
  ASSUME SheetRule
  PROVE  Spec => []RememberedSheetIsReady
<1>1. Init => SheetKept
  BY SheetInit
<1>2. BaseInv /\ SheetKept /\ [Next]_vars => SheetKept'
  BY SheetStep
<1>3. SheetKept => RememberedSheetIsReady
  BY DEF SheetKept, RememberedSheetIsReady, Puts, AllDone
<1>4. QED
  BY <1>1, <1>2, <1>3, BaseHolds, PTL DEF Spec

-----------------------------------------------------------------------------
(* Counting steps.                                                         *)

Hits(p, ops, s, a, b) == {j \in a .. b : p[j].op \in ops /\ p[j].of = s}

LEMMA CountFacts ==
  ASSUME NEW p, NEW ops, NEW s, NEW a \in Int, NEW b \in Int
  PROVE  /\ IsFiniteSet(Hits(p, ops, s, a, b))
         /\ Count(p, ops, s, a, b) = Cardinality(Hits(p, ops, s, a, b))
         /\ Count(p, ops, s, a, b) \in Nat
         /\ b < a => Count(p, ops, s, a, b) = 0
<1>1. IsFiniteSet(a .. b) /\ Hits(p, ops, s, a, b) \in SUBSET (a .. b)
  BY FS_Interval DEF Hits
<1>2. IsFiniteSet(Hits(p, ops, s, a, b))
  BY <1>1, FS_Subset
<1>3. Count(p, ops, s, a, b) = Cardinality(Hits(p, ops, s, a, b))
  BY DEF Count, Hits
<1>4. b < a => Hits(p, ops, s, a, b) = {}
  BY DEF Hits
<1>5. QED
  BY <1>2, <1>3, <1>4, FS_CardinalityType, FS_EmptySet

LEMMA CountOne ==
  ASSUME NEW p, NEW ops, NEW s, NEW a \in Int
  PROVE  Count(p, ops, s, a, a) = IF p[a].op \in ops /\ p[a].of = s THEN 1 ELSE 0
<1>1. Count(p, ops, s, a, a) = Cardinality(Hits(p, ops, s, a, a))
  BY CountFacts
<1>2. CASE p[a].op \in ops /\ p[a].of = s
  <2>1. Hits(p, ops, s, a, a) = {a}
    BY <1>2 DEF Hits
  <2>2. QED
    BY <1>1, <1>2, <2>1, FS_Singleton
<1>3. CASE ~(p[a].op \in ops /\ p[a].of = s)
  <2>1. Hits(p, ops, s, a, a) = {}
    BY <1>3 DEF Hits
  <2>2. QED
    BY <1>1, <1>3, <2>1, FS_EmptySet
<1>4. QED
  BY <1>2, <1>3

LEMMA CountSplit ==
  ASSUME NEW p, NEW ops, NEW s, NEW a \in Int, NEW m \in Int, NEW b \in Int,
         a <= m + 1, m <= b
  PROVE  Count(p, ops, s, a, b) = Count(p, ops, s, a, m) + Count(p, ops, s, m + 1, b)
<1> DEFINE A == Hits(p, ops, s, a, m)
           B == Hits(p, ops, s, m + 1, b)
<1>1. m + 1 \in Int
  OBVIOUS
<1>2. /\ IsFiniteSet(A) /\ IsFiniteSet(B)
      /\ Count(p, ops, s, a, m) = Cardinality(A) /\ Cardinality(A) \in Nat
      /\ Count(p, ops, s, m + 1, b) = Cardinality(B) /\ Cardinality(B) \in Nat
      /\ Count(p, ops, s, a, b) = Cardinality(Hits(p, ops, s, a, b))
  BY <1>1, CountFacts
<1>3. Hits(p, ops, s, a, b) = A \cup B /\ A \cap B = {}
  BY DEF Hits
<1> HIDE DEF A, B
<1>4. Cardinality(A \cup B) = Cardinality(A) + Cardinality(B) - 0
  BY <1>2, <1>3, FS_Union, FS_EmptySet
<1>5. QED
  BY <1>2, <1>3, <1>4

Moved(p, q, a, b, k) == \A j \in a .. b : q[j] = p[j + k]

\* The same steps at other places are as many.
LEMMA CountShift ==
  ASSUME NEW p, NEW q, NEW ops, NEW s, NEW a \in Int, NEW b \in Int, NEW k \in Int,
         Moved(p, q, a, b, k)
  PROVE  Count(q, ops, s, a, b) = Count(p, ops, s, a + k, b + k)
<1> DEFINE S == Hits(q, ops, s, a, b)
           T == Hits(p, ops, s, a + k, b + k)
           F == [j \in S |-> j + k]
<1>1. a + k \in Int /\ b + k \in Int
  OBVIOUS
<1>2. /\ IsFiniteSet(S) /\ Count(q, ops, s, a, b) = Cardinality(S)
      /\ Count(p, ops, s, a + k, b + k) = Cardinality(T)
  BY <1>1, CountFacts
<1>3. ASSUME NEW j \in S
      PROVE  j \in Int /\ j + k \in T
  BY DEF Hits, Moved
<1>4. ASSUME NEW n \in T
      PROVE  n \in Int /\ n - k \in S /\ (n - k) + k = n
  <2>1. n \in Int /\ n - k \in a .. b /\ (n - k) + k = n
    BY DEF Hits
  <2>2. q[n - k] = p[(n - k) + k]
    BY <2>1 DEF Moved
  <2>3. q[n - k] = p[n]
    BY <2>1, <2>2
  <2>4. QED
    BY <2>1, <2>3 DEF Hits
<1> HIDE DEF S, T
<1>5. F \in [S -> T]
  BY <1>3
<1>6. ASSUME NEW x \in S, NEW y \in S, F[x] = F[y]
      PROVE  x = y
  <2>1. x \in Int /\ y \in Int
    BY <1>3
  <2>2. x + k = y + k
    BY <1>6
  <2>3. QED
    BY <2>1, <2>2
<1>7. \A n \in T : \E j \in S : F[j] = n
  BY <1>4
<1> HIDE DEF F
<1>8. F \in Bijection(S, T)
  BY <1>5, <1>6, <1>7, Fun_IsBij
<1>9. Cardinality(T) = Cardinality(S)
  BY <1>2, <1>8, FS_Bijection DEF ExistsBijection
<1>10. QED
  BY <1>2, <1>9

\* In what lies ahead after b there are as many as in both parts.
LEMMA CountJoin ==
  ASSUME NEW p \in Seq(AllSteps), NEW b \in Seq(AllSteps), NEW i \in 0 .. Len(p),
         NEW ops, NEW s, NEW n \in 1 .. Len(b \o Suffix(p, i))
  PROVE  /\ n <= Len(b) => Count(b \o Suffix(p, i), ops, s, 1, n - 1) = Count(b, ops, s, 1, n - 1)
         /\ n > Len(b) =>
               Count(b \o Suffix(p, i), ops, s, 1, n - 1)
                  = Count(b, ops, s, 1, Len(b)) + Count(p, ops, s, i + 1, n - Len(b) + i - 1)
<1> DEFINE q == b \o Suffix(p, i)
<1>1. Len(p) \in Nat /\ Len(b) \in Nat /\ i \in Nat /\ i <= Len(p)
  BY StepFacts
<1>2. /\ Len(q) = Len(b) + Len(p) - i
      /\ \A m \in 1 .. Len(b) : q[m] = b[m]
      /\ \A m \in 1 .. Len(q) : m > Len(b) => q[m] = p[m - Len(b) + i]
  BY JoinFacts
<1>3. n \in 1 .. Len(q)
  OBVIOUS
<1> HIDE DEF q
<1>4. n \in Nat /\ n >= 1 /\ n - 1 \in Int /\ n - 1 <= Len(q)
  BY <1>1, <1>2, <1>3
<1>5. ASSUME NEW m \in Int, m <= Len(b)
      PROVE  Count(q, ops, s, 1, m) = Count(b, ops, s, 1, m)
  <2>1. Moved(b, q, 1, m, 0)
    BY <1>1, <1>2, <1>5 DEF Moved
  <2>2. Count(q, ops, s, 1, m) = Count(b, ops, s, 1 + 0, m + 0)
    BY <2>1, CountShift
  <2>3. QED
    BY <2>2
<1>6. ASSUME n > Len(b)
      PROVE  Count(q, ops, s, 1, n - 1)
                = Count(b, ops, s, 1, Len(b)) + Count(p, ops, s, i + 1, n - Len(b) + i - 1)
  <2> DEFINE k == i - Len(b)
  <2>1. k \in Int /\ Len(b) \in Int /\ Len(b) + 1 \in Int
    BY <1>1
  <2>2. Moved(p, q, Len(b) + 1, n - 1, k)
    <3> SUFFICES ASSUME NEW j \in Len(b) + 1 .. n - 1
                 PROVE  q[j] = p[j + k]
      BY DEF Moved
    <3>1. j \in 1 .. Len(q) /\ j > Len(b) /\ j - Len(b) + i = j + k
      BY <1>1, <1>4
    <3>2. q[j] = p[j - Len(b) + i]
      BY <1>2, <3>1
    <3>3. QED
      BY <3>1, <3>2
  <2>3. (Len(b) + 1) + k = i + 1 /\ (n - 1) + k = n - Len(b) + i - 1
    BY <1>1, <1>4
  <2> HIDE DEF k
  <2>4. Count(q, ops, s, Len(b) + 1, n - 1) = Count(p, ops, s, (Len(b) + 1) + k, (n - 1) + k)
    BY <1>4, <2>1, <2>2, CountShift
  <2>5. 1 <= Len(b) + 1 /\ Len(b) <= n - 1
    BY <1>1, <1>4, <1>6
  <2>6. Count(q, ops, s, 1, n - 1)
           = Count(q, ops, s, 1, Len(b)) + Count(q, ops, s, Len(b) + 1, n - 1)
    BY <1>4, <2>1, <2>5, CountSplit
  <2>7. Count(q, ops, s, 1, Len(b)) = Count(b, ops, s, 1, Len(b))
    BY <1>1, <1>5
  <2>8. QED
    BY <2>3, <2>4, <2>6, <2>7
<1>7. n <= Len(b) => Count(q, ops, s, 1, n - 1) = Count(b, ops, s, 1, n - 1)
  BY <1>1, <1>4, <1>5
<1>8. QED
  BY <1>6, <1>7 DEF q

-----------------------------------------------------------------------------
(* Requests and grants.                                                    *)

LEMMA BlocksOfSuffixPay ==
  ASSUME NEW p \in Seq(AllSteps), BlocksPay(p), NEW i \in 0 .. Len(p)
  PROVE  BlocksPay(Suffix(p, i))
<1> DEFINE q == Suffix(p, i)
<1>1. Len(p) \in Nat /\ DOMAIN p = 1 .. Len(p) /\ i \in Nat /\ i <= Len(p)
  BY StepFacts
<1>2. /\ q \in Seq(AllSteps) /\ Len(q) = Len(p) - i
      /\ \A n \in 1 .. Len(p) - i : n + i \in 1 .. Len(p) /\ q[n] = p[n + i]
  BY SuffixFacts
<1> HIDE DEF q
<1>3. DOMAIN q = 1 .. Len(p) - i
  BY <1>2, StepFacts
<1>4. SUFFICES ASSUME NEW k \in DOMAIN q, NEW n \in 1 .. k, q[k].op = "end",
                      \A j \in n .. k : q[j].level > 0, NEW s \in Limited
               PROVE  Waits(q, s, n, k) <= Requests(q, s, n, k)
  BY DEF BlocksPay, q
<1>5. n \in Int /\ k \in Int /\ i \in Int /\ n + i \in 1 .. k + i /\ k + i \in DOMAIN p
  BY <1>1, <1>3
<1>6. Moved(p, q, n, k, i)
  <2> SUFFICES ASSUME NEW j \in n .. k
               PROVE  q[j] = p[j + i]
    BY DEF Moved
  <2>1. j \in 1 .. Len(p) - i
    BY <1>1, <1>3
  <2>2. QED
    BY <1>2, <2>1
<1>7. \A j \in n + i .. k + i : p[j].level > 0
  <2> SUFFICES ASSUME NEW j \in n + i .. k + i
               PROVE  p[j].level > 0
    OBVIOUS
  <2>1. j - i \in n .. k /\ (j - i) + i = j
    BY <1>1, <1>5
  <2>2. q[j - i] = p[(j - i) + i]
    BY <1>6, <2>1 DEF Moved
  <2>3. QED
    BY <1>4, <2>1, <2>2
<1>8. p[k + i].op = "end"
  <2>1. k \in n .. k
    BY <1>5, <1>3
  <2>2. QED
    BY <1>4, <1>6, <2>1 DEF Moved
<1>9. Waits(p, s, n + i, k + i) <= Requests(p, s, n + i, k + i)
  BY <1>5, <1>7, <1>8 DEF BlocksPay
<1>10. /\ Waits(q, s, n, k) = Waits(p, s, n + i, k + i)
       /\ Requests(q, s, n, k) = Requests(p, s, n + i, k + i)
  BY <1>5, <1>6, CountShift DEF Waits, Requests
<1>11. QED
  BY <1>9, <1>10

LEMMA NothingPays ==
  ASSUME NEW grants
  PROVE  Covered(<<>>, grants) /\ PaysForItself(<<>>) /\ BlocksPay(<<>>) /\ Pays(<<>>)
<1>1. DOMAIN <<>> = {} /\ Len(<<>>) = 0
  BY EmptySeq
<1>2. \A g : Covered(<<>>, g)
  BY <1>1 DEF Covered
<1>3. ASSUME NEW s \in Limited
      PROVE  Requests(<<>>, s, 1, Len(<<>>)) <= Waits(<<>>, s, 1, Len(<<>>))
  <2>1. Requests(<<>>, s, 1, 0) = 0 /\ Waits(<<>>, s, 1, 0) = 0
    BY CountFacts DEF Waits, Requests
  <2>2. QED
    BY <1>1, <2>1
<1>4. BlocksPay(<<>>)
  BY <1>1 DEF BlocksPay
<1>5. QED
  BY <1>1, <1>2, <1>3, <1>4 DEF PaysForItself, Pays

LEMMA LeadPays ==
  ASSUME NEW p \in Seq(AllSteps), Nests(p), Pays(p), NEW i \in 1 .. Len(p), NEW b, Lead(p, i, b)
  PROVE  Pays(b \o Suffix(p, i)) /\ PaysForItself(b)
<1> DEFINE q == b \o Suffix(p, i)
<1>1. Len(p) \in Nat /\ DOMAIN p = 1 .. Len(p) /\ i \in 0 .. Len(p)
  BY StepFacts
<1>2. b \in Seq(AllSteps) /\ q \in Seq(AllSteps)
  BY LeadNests
<1>3. Len(b) \in Nat /\ DOMAIN b = 1 .. Len(b) /\ Len(q) \in Nat /\ DOMAIN q = 1 .. Len(q)
  BY <1>2, StepFacts
<1>4. PaysForItself(b)
  BY <1>1, NothingPays DEF Lead, Pays
<1>5. BlocksPay(q)
  <2>1. CASE b = <<>>
    <3>1. q = Suffix(p, i)
      BY <1>1, <2>1, SuffixFacts, ConcatEmptySeq
    <3>2. QED
      BY <1>1, <3>1, BlocksOfSuffixPay DEF Pays
  <2>2. CASE p[i].op = "end" /\ b = p[i].instead
    BY <1>1, <2>2 DEF Pays
  <2>3. QED
    BY <2>1, <2>2 DEF Lead
<1>6. ASSUME NEW k \in DOMAIN q, q[k].op = "end"
      PROVE  BlocksPay(q[k].instead \o Suffix(q, k)) /\ PaysForItself(q[k].instead)
  <2>1. CASE k <= Len(b)
    <3>1. k \in 1 .. Len(b) /\ k \in 0 .. Len(q)
      BY <1>3, <2>1
    <3>2. q[k] = b[k]
      BY <1>1, <1>2, <3>1, JoinFacts
    <3>3. b = p[i].instead
      BY <3>1, EmptySeq DEF Lead
    <3>4. q[k].instead = <<>>
      BY <1>3, <3>1, <3>2, <3>3, StepFacts DEF Steps
    <3>5. Suffix(q, k) \in Seq(AllSteps) /\ BlocksPay(Suffix(q, k))
      BY <1>2, <1>5, <3>1, SuffixFacts, BlocksOfSuffixPay
    <3>6. <<>> \o Suffix(q, k) = Suffix(q, k)
      BY <3>5, ConcatEmptySeq
    <3>7. QED
      BY <3>4, <3>5, <3>6, NothingPays
  <2>2. CASE ~(k <= Len(b))
    <3> DEFINE j == k - Len(b) + i
    <3>1. k \in 1 .. Len(q) /\ k > Len(b)
      BY <1>3, <2>2
    <3>2. j \in i + 1 .. Len(p) /\ q[k] = p[j]
      BY <1>1, <1>2, <3>1, JoinFacts
    <3>3. j \in DOMAIN p
      BY <1>1, <3>2
    <3>4. Suffix(q, k) = Suffix(p, j)
      BY <1>1, <1>2, <3>1, SuffixOfJoin
    <3>5. QED
      BY <1>6, <3>2, <3>3, <3>4 DEF Pays
  <2>3. QED
    BY <2>1, <2>2
<1>7. QED
  BY <1>4, <1>5, <1>6 DEF Pays

LEMMA Sums ==
  \A l, g, wi, ri, wj, rj, wb, rb \in Nat :
     l + ri >= g + wi /\ g + (wi + wj) > ri + rj /\ rb <= wb => l + (wb + wj) > rb + rj
OBVIOUS

\* What is left of the grants covers what is ahead, if no more of them are
\* gone than requests are behind.
LEMMA LeadCovered ==
  ASSUME NEW p \in Seq(AllSteps), NEW b \in Seq(AllSteps), NEW i \in 0 .. Len(p),
         PaysForItself(b), NEW grants \in [Limited -> Nat], NEW left \in [Limited -> Nat],
         Covered(p, grants),
         \A s \in Limited : left[s] + Requests(p, s, 1, i) >= grants[s] + Waits(p, s, 1, i)
  PROVE  Covered(b \o Suffix(p, i), left)
<1> DEFINE q == b \o Suffix(p, i)
<1>1. Len(p) \in Nat /\ DOMAIN p = 1 .. Len(p) /\ Len(b) \in Nat /\ DOMAIN b = 1 .. Len(b) /\ i \in Nat
  BY StepFacts
<1>2. /\ q \in Seq(AllSteps)
      /\ DOMAIN q = 1 .. Len(q)
      /\ \A n \in 1 .. Len(b) : q[n] = b[n]
      /\ \A n \in 1 .. Len(q) : n > Len(b) =>
            n - Len(b) + i \in i + 1 .. Len(p) /\ q[n] = p[n - Len(b) + i]
  BY JoinFacts
<1>3. ASSUME NEW ops, NEW s, NEW n \in 1 .. Len(q)
      PROVE  /\ n <= Len(b) => Count(q, ops, s, 1, n - 1) = Count(b, ops, s, 1, n - 1)
             /\ n > Len(b) =>
                   Count(q, ops, s, 1, n - 1)
                      = Count(b, ops, s, 1, Len(b)) + Count(p, ops, s, i + 1, n - Len(b) + i - 1)
  BY CountJoin
<1> HIDE DEF q
<1>4. Len(q) \in Nat
  BY <1>2, StepFacts
<1>5. SUFFICES ASSUME NEW n \in 1 .. Len(q), q[n].op \in {"get", "put"},
                      NEW s \in Limited, q[n].of = s
               PROVE  left[s] + Waits(q, s, 1, n - 1) > Requests(q, s, 1, n - 1)
  BY <1>2 DEF Covered, q
<1>6. left[s] \in Nat /\ grants[s] \in Nat
  OBVIOUS
<1>7. CASE n <= Len(b)
  <2>1. n \in DOMAIN b /\ q[n] = b[n] /\ n - 1 \in Int
    BY <1>1, <1>2, <1>4, <1>7
  <2>2. NoGrants[s] + Waits(b, s, 1, n - 1) > Requests(b, s, 1, n - 1) /\ NoGrants[s] = 0
    BY <1>5, <2>1 DEF PaysForItself, Covered, NoGrants
  <2>3. /\ Waits(q, s, 1, n - 1) = Waits(b, s, 1, n - 1)
        /\ Requests(q, s, 1, n - 1) = Requests(b, s, 1, n - 1)
    BY <1>3, <1>7 DEF Waits, Requests
  <2>4. Waits(b, s, 1, n - 1) \in Nat /\ Requests(b, s, 1, n - 1) \in Nat
    BY <2>1, CountFacts DEF Waits, Requests
  <2>5. QED
    BY <1>6, <2>2, <2>3, <2>4
<1>8. CASE ~(n <= Len(b))
  <2>1. n > Len(b)
    BY <1>1, <1>4, <1>8
  <2>2. PICK j \in Int : j = n - Len(b) + i
    <3>1. n - Len(b) + i \in Int
      BY <1>1, <1>4
    <3>2. QED
      BY <3>1
  <2>3. j \in i + 1 .. Len(p) /\ q[n] = p[j]
    BY <1>2, <2>1, <2>2
  <2>4. j \in DOMAIN p /\ j - 1 \in Int /\ i \in Int /\ 1 <= i + 1 /\ i <= j - 1 /\ i + 1 \in Int
    BY <1>1, <2>3
  <2>5. grants[s] + Waits(p, s, 1, j - 1) > Requests(p, s, 1, j - 1)
    BY <1>5, <2>3, <2>4 DEF Covered
  <2>6. /\ Waits(q, s, 1, n - 1) = Waits(b, s, 1, Len(b)) + Waits(p, s, i + 1, j - 1)
        /\ Requests(q, s, 1, n - 1) = Requests(b, s, 1, Len(b)) + Requests(p, s, i + 1, j - 1)
    BY <1>3, <2>1, <2>2 DEF Waits, Requests
  <2>7. /\ Waits(p, s, 1, j - 1) = Waits(p, s, 1, i) + Waits(p, s, i + 1, j - 1)
        /\ Requests(p, s, 1, j - 1) = Requests(p, s, 1, i) + Requests(p, s, i + 1, j - 1)
    BY <2>4, CountSplit DEF Waits, Requests
  <2>8. Requests(b, s, 1, Len(b)) <= Waits(b, s, 1, Len(b))
    BY DEF PaysForItself
  <2>9. left[s] + Requests(p, s, 1, i) >= grants[s] + Waits(p, s, 1, i)
    OBVIOUS
  <2>10. /\ Waits(b, s, 1, Len(b)) \in Nat /\ Requests(b, s, 1, Len(b)) \in Nat
         /\ Waits(p, s, 1, i) \in Nat /\ Requests(p, s, 1, i) \in Nat
         /\ Waits(p, s, i + 1, j - 1) \in Nat /\ Requests(p, s, i + 1, j - 1) \in Nat
    BY <1>1, <2>4, CountFacts DEF Waits, Requests
  <2>11. grants[s] + (Waits(p, s, 1, i) + Waits(p, s, i + 1, j - 1))
            > Requests(p, s, 1, i) + Requests(p, s, i + 1, j - 1)
    BY <2>5, <2>7
  <2>12. left[s] + (Waits(b, s, 1, Len(b)) + Waits(p, s, i + 1, j - 1))
            > Requests(b, s, 1, Len(b)) + Requests(p, s, i + 1, j - 1)
    BY <1>6, <2>8, <2>9, <2>10, <2>11, Sums
  <2>13. QED
    BY <2>6, <2>12
<1>9. QED
  BY <1>7, <1>8

LEMMA GrantForNow ==
  ASSUME BaseInv, GrantsKept, name \notin MoreRequests, Working,
         Now.op \in {"get", "put"}, Now.of \in Limited
  PROVE  granted[Now.of] > 0
<1>1. 1 \in DOMAIN path /\ Now = path[1]
  BY PathFacts DEF BaseInv
<1>2. granted[Now.of] + Waits(path, Now.of, 1, 1 - 1) > Requests(path, Now.of, 1, 1 - 1)
  BY <1>1 DEF GrantsKept, Covered
<1>3. Waits(path, Now.of, 1, 1 - 1) = 0 /\ Requests(path, Now.of, 1, 1 - 1) = 0
  BY CountFacts DEF Waits, Requests
<1>4. granted[Now.of] \in Nat
  BY DEF BaseInv, TypeOK
<1>5. QED
  BY <1>2, <1>3, <1>4

\* It is used, and nothing else is.
LEMMA GrantIsUsed ==
  ASSUME BaseInv, GrantsKept, name \notin MoreRequests, Working, UsesGrant
  PROVE  /\ granted' \in [Limited -> Nat] /\ UNCHANGED ungranted
         /\ \A s \in Limited :
               granted'[s] = IF Now.op \in {"get", "put"} /\ Now.of = s
                             THEN granted[s] - 1 ELSE granted[s]
<1>1. granted \in [Limited -> Nat]
  BY DEF BaseInv, TypeOK
<1>2. CASE Now.op \in {"get", "put"} /\ Now.of \in Limited
  <2> DEFINE s == Now.of
  <2>1. granted[s] > 0 /\ s \in Limited
    BY <1>2, GrantForNow
  <2>2. granted' = [granted EXCEPT ![s] = granted[s] - 1] /\ UNCHANGED ungranted
    BY <1>2, <2>1 DEF UsesGrant, Send
  <2> HIDE DEF s
  <2>3. granted[s] - 1 \in Nat
    BY <1>1, <2>1
  <2>4. granted' \in [Limited -> Nat]
    BY <1>1, <2>2, <2>3
  <2>5. \A u \in Limited : granted'[u] = IF s = u THEN granted[u] - 1 ELSE granted[u]
    BY <1>1, <2>1, <2>2
  <2>6. QED
    BY <1>2, <2>2, <2>4, <2>5 DEF s
<1>3. CASE ~(Now.op \in {"get", "put"} /\ Now.of \in Limited)
  BY <1>1, <1>3 DEF UsesGrant
<1>4. QED
  BY <1>2, <1>3

\* A step that succeeds leaves enough for those behind it.
LEMMA SuccessIsCovered ==
  ASSUME BaseInv, GrantsKept, name \notin MoreRequests, Advances
  PROVE  /\ UNCHANGED ungranted /\ granted' \in [Limited -> Nat]
         /\ \A s \in Limited :
               granted'[s] + Requests(path, s, 1, 1) >= granted[s] + Waits(path, s, 1, 1)
<1>1. granted \in [Limited -> Nat] /\ Now = path[1] /\ Working
  BY PathFacts DEF BaseInv, TypeOK, Advances
<1>2. CASE Now.op = "wait"
  <2> DEFINE w == Now.of
  <2>1. granted' = [granted EXCEPT ![w] = granted[w] + 1] /\ UNCHANGED ungranted
    BY <1>2 DEF Advances, GetsGrant
  <2>2. ASSUME NEW s \in Limited
        PROVE  Waits(path, s, 1, 1) = (IF w = s THEN 1 ELSE 0) /\ Requests(path, s, 1, 1) = 0
    BY <1>1, <1>2, CountOne DEF Waits, Requests
  <2> HIDE DEF w
  <2>3. \A s \in Limited : granted'[s] = IF w = s THEN granted[s] + 1 ELSE granted[s]
    BY <1>1, <2>1
  <2>4. granted' \in [Limited -> Nat]
    <3>1. w \in Limited => granted[w] + 1 \in Nat
      BY <1>1
    <3>2. QED
      BY <1>1, <2>1, <3>1
  <2>5. ASSUME NEW s \in Limited
        PROVE  granted'[s] + Requests(path, s, 1, 1) >= granted[s] + Waits(path, s, 1, 1)
    <3>1. granted[s] \in Nat
      BY <1>1
    <3>2. QED
      BY <2>2, <2>3, <3>1
  <2>6. QED
    BY <2>1, <2>4, <2>5
<1>3. CASE Now.op # "wait"
  <2>1. /\ granted' \in [Limited -> Nat] /\ UNCHANGED ungranted
        /\ \A s \in Limited :
              granted'[s] = IF Now.op \in {"get", "put"} /\ Now.of = s
                            THEN granted[s] - 1 ELSE granted[s]
    BY <1>1, <1>3, GrantIsUsed DEF Advances
  <2>2. ASSUME NEW s \in Limited
        PROVE  granted'[s] + Requests(path, s, 1, 1) >= granted[s] + Waits(path, s, 1, 1)
    <3>1. /\ Waits(path, s, 1, 1) = 0
          /\ Requests(path, s, 1, 1) = IF Now.op \in {"get", "put"} /\ Now.of = s THEN 1 ELSE 0
      BY <1>1, <1>3, CountOne DEF Waits, Requests
    <3>2. granted[s] \in Nat
      BY <1>1
    <3>3. QED
      BY <2>1, <3>1, <3>2
  <2>3. QED
    BY <2>1, <2>2
<1>4. QED
  BY <1>2, <1>3

\* A step that fails in a block leaves enough for those behind the block.
LEMMA FailureIsCovered ==
  ASSUME BaseInv, GrantsKept, name \notin MoreRequests, Fails,
         NEW i \in DOMAIN path, path[i].op = "end", \A j \in 1 .. i : path[j].level > 0,
         NEW s \in Limited
  PROVE  granted'[s] + Requests(path, s, 1, i) >= granted[s] + Waits(path, s, 1, i)
<1>1. /\ path \in Seq(AllSteps) /\ 1 \in DOMAIN path /\ Now = path[1] /\ Working
      /\ granted[s] \in Nat
  BY PathFacts DEF BaseInv, TypeOK, Fails
<1>2. DOMAIN path = 1 .. Len(path) /\ Len(path) \in Nat /\ i \in Int /\ i >= 1 /\ 1 \in 1 .. i
  BY <1>1, StepFacts
<1>3. granted'[s] = IF Now.op \in {"get", "put"} /\ Now.of = s THEN granted[s] - 1 ELSE granted[s]
  BY <1>1, GrantIsUsed DEF Fails
<1>4. \A n \in 1 .. i : Waits(path, s, n, i) <= Requests(path, s, n, i)
  <2> SUFFICES ASSUME NEW n \in 1 .. i
               PROVE  Waits(path, s, n, i) <= Requests(path, s, n, i)
    OBVIOUS
  <2>1. \A j \in n .. i : path[j].level > 0
    BY <1>2
  <2>2. QED
    BY <2>1 DEF GrantsKept, Pays, BlocksPay
<1>5. Waits(path, s, 1, i) \in Nat /\ Requests(path, s, 1, i) \in Nat
  BY <1>2, CountFacts DEF Waits, Requests
<1>6. CASE ~(Now.op \in {"get", "put"} /\ Now.of = s)
  <2>1. Waits(path, s, 1, i) <= Requests(path, s, 1, i)
    BY <1>2, <1>4
  <2>2. granted'[s] = granted[s]
    BY <1>3, <1>6
  <2>3. QED
    BY <1>1, <1>5, <2>1, <2>2
<1>7. CASE Now.op \in {"get", "put"} /\ Now.of = s
  <2>1. i # 1
    BY <1>1, <1>7
  <2>2. 2 \in 1 .. i /\ 1 <= 1 + 1 /\ 1 <= i /\ 1 + 1 = 2
    BY <1>2, <2>1
  <2>3. Waits(path, s, 2, i) <= Requests(path, s, 2, i)
    BY <1>4, <2>2
  <2>4. /\ Waits(path, s, 1, i) = Waits(path, s, 1, 1) + Waits(path, s, 2, i)
        /\ Requests(path, s, 1, i) = Requests(path, s, 1, 1) + Requests(path, s, 2, i)
    <3>1. /\ Waits(path, s, 1, i) = Waits(path, s, 1, 1) + Waits(path, s, 1 + 1, i)
          /\ Requests(path, s, 1, i) = Requests(path, s, 1, 1) + Requests(path, s, 1 + 1, i)
      BY <1>2, <2>2, CountSplit DEF Waits, Requests
    <3>2. QED
      BY <2>2, <3>1
  <2>5. Waits(path, s, 1, 1) = 0 /\ Requests(path, s, 1, 1) = 1
    BY <1>1, <1>7, CountOne DEF Waits, Requests
  <2>6. Waits(path, s, 2, i) \in Nat /\ Requests(path, s, 2, i) \in Nat
    BY <1>2, CountFacts DEF Waits, Requests
  <2>7. granted'[s] = granted[s] - 1
    BY <1>3, <1>7
  <2>8. QED
    BY <1>1, <2>3, <2>4, <2>5, <2>6, <2>7
<1>8. QED
  BY <1>6, <1>7

LEMMA GrantsGoOnward ==
  ASSUME BaseInv, GrantsKept, name \notin MoreRequests,
         NEW i \in 1 .. Len(path), NEW b, Lead(path, i, b),
         path' = b \o Suffix(path, i), granted' \in [Limited -> Nat],
         \A s \in Limited :
            granted'[s] + Requests(path, s, 1, i) >= granted[s] + Waits(path, s, 1, i)
  PROVE  Covered(path', granted') /\ Pays(path')
<1>1. path \in Seq(AllSteps) /\ Nests(path) /\ granted \in [Limited -> Nat]
  BY DEF BaseInv, PathOK, TypeOK
<1>2. Covered(path, granted) /\ Pays(path)
  BY DEF GrantsKept
<1>3. i \in 0 .. Len(path) /\ b \in Seq(AllSteps)
  BY <1>1, LeadNests, StepFacts
<1>4. Pays(b \o Suffix(path, i)) /\ PaysForItself(b)
  BY <1>1, <1>2, LeadPays
<1>5. Covered(b \o Suffix(path, i), granted')
  BY <1>1, <1>2, <1>3, <1>4, LeadCovered
<1>6. QED
  BY <1>4, <1>5

LEMMA GrantsStart ==
  ASSUME GrantsRule, BaseInv, GrantsKept, Starts
  PROVE  GrantsKept'
<1>1. name' \in Names /\ path' \in Plan(name')
  BY StartFacts
<1>2. phase' # "idle" /\ granted' = NoGrants /\ ungranted' = FALSE
  <2>1. CASE \E c \in DOMAIN Command, d \in BOOLEAN : Execute(c, d)
    BY <2>1 DEF Execute, GrantsKept, BaseInv, TypeOK
  <2>2. CASE \E t \in DOMAIN Tool : CallTool(t)
    BY <2>2 DEF CallTool, NoGrants
  <2>3. QED
    BY <2>1, <2>2 DEF Starts
<1>3. name' \notin MoreRequests => Covered(path', NoGrants) /\ Pays(path')
  BY <1>1 DEF GrantsRule
<1>4. QED
  BY <1>2, <1>3 DEF GrantsKept

LEMMA GrantsEnd ==
  ASSUME BaseInv, GrantsKept, Ends
  PROVE  GrantsKept'
<1>1. path' = <<>>
  BY EndFacts
<1>2. Covered(path', granted') /\ Pays(path')
  BY <1>1, NothingPays
<1>3. phase' # "idle" /\ (name' \notin MoreRequests => ~ungranted')
  <2>1. name \notin MoreRequests => ~ungranted
    BY DEF GrantsKept
  <2>2. CASE \E o \in {"ok", "error"} : AnswerDirectly(o) \/ Hangup(o)
    BY <2>2 DEF AnswerDirectly, Hangup
  <2>3. CASE Killed
    BY <2>1, <2>3 DEF Killed, NothingElse
  <2>4. CASE Finish
    BY <2>1, <2>4 DEF Finish, EndWith, NothingElse
  <2>5. CASE Previews
    BY <2>1, <2>5 DEF Previews, EndWith
  <2>6. CASE Fails /\ EndWith("error")
    <3>1. phase' # "idle" /\ UNCHANGED name
      BY <2>6 DEF Fails, EndWith
    <3>2. name \notin MoreRequests => UNCHANGED ungranted
      BY <2>6, GrantIsUsed DEF Fails
    <3>3. QED
      BY <2>1, <3>1, <3>2
  <2>7. QED
    BY <2>2, <2>3, <2>4, <2>5, <2>6 DEF Ends
<1>4. QED
  BY <1>2, <1>3 DEF GrantsKept

LEMMA GrantsStep ==
  ASSUME GrantsRule, BaseInv, GrantsKept, [Next]_vars
  PROVE  GrantsKept'
<1>1. CASE Starts
  BY <1>1, GrantsStart
<1>2. CASE Ends
  BY <1>2, GrantsEnd
<1>3. CASE Rests
  BY <1>3 DEF Rests, GrantsKept
<1>4. ASSUME Working, UNCHANGED <<phase, name>>,
             name \notin MoreRequests =>
                UNCHANGED ungranted /\ Covered(path', granted') /\ Pays(path')
      PROVE  GrantsKept'
  BY <1>4 DEF GrantsKept, Working
<1>5. CASE Succeeds
  <2>1. Working /\ GoOn /\ UNCHANGED <<phase, name>> /\ Advances
    BY <1>5 DEF Succeeds, Advances, GoOn
  <2>2. ASSUME name \notin MoreRequests
        PROVE  UNCHANGED ungranted /\ Covered(path', granted') /\ Pays(path')
    <3>1. path \in Seq(AllSteps) /\ path # <<>> /\ path' = Tail(path)
      BY <2>1 DEF BaseInv, PathOK, Working, GoOn
    <3>2. Tail(path) = Suffix(path, 1) /\ 1 \in 1 .. Len(path) /\ 1 \in 0 .. Len(path)
      BY <3>1, TailIsSuffix, StepFacts
    <3>3. Suffix(path, 1) \in Seq(AllSteps)
      BY <3>1, <3>2, SuffixFacts
    <3>4. path' = <<>> \o Suffix(path, 1)
      BY <3>1, <3>2, <3>3, ConcatEmptySeq
    <3>5. Lead(path, 1, <<>>)
      BY DEF Lead
    <3>6. /\ UNCHANGED ungranted /\ granted' \in [Limited -> Nat]
          /\ \A s \in Limited :
                granted'[s] + Requests(path, s, 1, 1) >= granted[s] + Waits(path, s, 1, 1)
      BY <2>1, <2>2, SuccessIsCovered
    <3>7. QED
      BY <2>2, <3>2, <3>4, <3>5, <3>6, GrantsGoOnward
  <2>3. QED
    BY <1>4, <2>1, <2>2
<1>6. CASE Evades
  <2>1. Working /\ Fail /\ UsesGrant /\ UNCHANGED <<phase, name>> /\ Now.level # 0 /\ Fails
    BY <1>6 DEF Evades, Fails
  <2>2. ASSUME name \notin MoreRequests
        PROVE  UNCHANGED ungranted /\ Covered(path', granted') /\ Pays(path')
    <3>1. path \in Seq(AllSteps) /\ Nests(path) /\ path # <<>> /\ path[1].level # 0
          /\ DOMAIN path = 1 .. Len(path)
      BY <2>1, StepFacts DEF BaseInv, PathOK, Working, Now
    <3>2. PICK i \in 1 .. Len(path) :
             /\ Lead(path, i, path[i].instead)
             /\ path[i].op = "end" /\ \A j \in 1 .. i : path[j].level > 0
             /\ AfterFailure(path, path[1].level) = path[i].instead \o Suffix(path, i)
      BY <3>1, AfterFailureLeads
    <3>3. path' = path[i].instead \o Suffix(path, i)
      BY <2>1, <3>2 DEF Fail, Now
    <3>4. UNCHANGED ungranted /\ granted' \in [Limited -> Nat]
      BY <2>1, <2>2, GrantIsUsed
    <3>5. \A s \in Limited :
             granted'[s] + Requests(path, s, 1, i) >= granted[s] + Waits(path, s, 1, i)
      BY <2>1, <2>2, <3>1, <3>2, FailureIsCovered
    <3>6. QED
      BY <2>2, <3>2, <3>3, <3>4, <3>5, GrantsGoOnward
  <2>3. QED
    BY <1>4, <2>1, <2>2
<1>7. QED
  BY <1>1, <1>2, <1>3, <1>5, <1>6, KindsOfSteps

LEMMA GrantsInit ==
  ASSUME Init
  PROVE  GrantsKept
BY NothingPays DEF Init, GrantsKept, NoGrants

\* Every request to a Google service has a grant of its own, also behind a
\* failure that was passed over, if every plan waits before it asks, no block
\* has more grants than requests from any of its steps on, and what is done
\* instead of a block waits for itself.
THEOREM EveryRequestHasAGrant ==
  ASSUME GrantsRule
  PROVE  Spec => []RequestsAreGranted
<1>1. Init => GrantsKept
  BY GrantsInit
<1>2. BaseInv /\ GrantsKept /\ [Next]_vars => GrantsKept'
  BY GrantsStep
<1>3. GrantsKept => RequestsAreGranted
  BY DEF GrantsKept, RequestsAreGranted
<1>4. QED
  BY <1>1, <1>2, <1>3, BaseHolds, PTL DEF Spec

-----------------------------------------------------------------------------
\* The steps ahead keep every rule that the plans keep, whatever has become of
\* the steps behind.
THEOREM RulesStayKept ==
  ASSUME GatesRule, PreviewRule, ReportRule, PartialRule, SheetRule, GrantsRule
  PROVE  Spec => []IInv
<1>1. Init => IInv
  BY BaseInit, GatesInit, PreviewInit, ReportInit, PartialInit, SheetInit,
     GrantsInit DEF IInv, BaseInv
<1>2. IInv /\ [Next]_vars => IInv'
  BY BaseStep, GatesStep, PreviewStep, ReportStep, PartialStep, SheetStep,
     GrantsStep DEF IInv, BaseInv
<1>3. QED
  BY <1>1, <1>2, PTL DEF Spec

=============================================================================
