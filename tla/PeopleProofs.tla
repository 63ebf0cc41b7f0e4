---------------------------- MODULE PeopleProofs ----------------------------
(* What holds of faces, accounts, exam rooms and the figures on every page, *)
(* for any number of people, photos, rooms, classes and requests.           *)
EXTENDS Accounts, Recognition, ExamRooms, AttendanceFigures, FiniteSetTheorems,
        FunctionTheorems, WellFoundedInduction, TLAPS

-----------------------------------------------------------------------------
(* Faces.  The loop of bestMatch, round by round, for any number of         *)
(* candidates.                                                              *)

\* The recursion that FoldLeft chooses a function for has one.
LEMMA RoundsExist ==
  ASSUME NEW n \in Nat, NEW seq
  PROVE  \E h : h = [s \in SUBSET (1 .. n) |->
                       IF s = {} THEN Unmatched ELSE Better(h[s \ {Max(s)}], seq[Max(s)])]
<1> DEFINE Rec(m, h) == h = [s \in SUBSET (1 .. m) |->
                       IF s = {} THEN Unmatched ELSE Better(h[s \ {Max(s)}], seq[Max(s)])]
           Bad == {m \in Nat : ~ \E h : Rec(m, h)}
<1> SUFFICES ASSUME Bad # {} PROVE FALSE
  OBVIOUS
<1>1. PICK m \in Bad : \A k \in Bad : ~(<<k, m>> \in OpToRel(<, Nat))
  <2> HIDE DEF Bad
  <2>1. Bad \subseteq Nat
    BY DEF Bad
  <2> QED BY <2>1, NatLessThanWellFounded, WFMin
<1>2. CASE m = 0
  <2> DEFINE h0 == [s \in SUBSET (1 .. 0) |-> Unmatched]
  <2>1. \A s \in SUBSET (1 .. 0) : s = {}
    OBVIOUS
  <2>2. Rec(0, h0)
    BY <2>1
  <2> QED BY <1>2, <2>2
<1>3. CASE m # 0
  <2> DEFINE k == m - 1
  <2>1. k \in Nat /\ k < m /\ m = k + 1
    BY <1>3
  <2>2. k \notin Bad
    BY <1>1, <2>1 DEF OpToRel
  <2>3. PICK h : Rec(k, h)
    BY <2>1, <2>2
  <2> DEFINE up == [s \in SUBSET (1 .. m) |-> IF m \in s THEN Better(h[s \ {m}], seq[m]) ELSE h[s]]
  <2> HIDE DEF k
  <2>4. ASSUME NEW s \in SUBSET (1 .. m)
        PROVE  up[s] = IF s = {} THEN Unmatched ELSE Better(up[s \ {Max(s)}], seq[Max(s)])
    <3>1. CASE m \in s
      <4>1. Max(s) = m
        <5>1. \A y \in s : y \in Nat /\ m >= y
          BY <2>1
        <5>2. \A x \in s : (\A y \in s : x >= y) => x = m
          BY <3>1, <5>1, <2>1
        <5> HIDE DEF Bad, up, Rec
        <5> QED BY <3>1, <5>1, <5>2 DEF Max
      <4>2. s \ {m} \in SUBSET (1 .. m) /\ m \notin s \ {m}
        OBVIOUS
      <4>3. up[s \ {m}] = h[s \ {m}]
        BY <4>2
      <4>4. up[s] = Better(h[s \ {m}], seq[m]) /\ s # {}
        BY <3>1
      <4> HIDE DEF up
      <4> QED BY <4>1, <4>3, <4>4
    <3>2. CASE m \notin s
      <4>1. s \in SUBSET (1 .. k)
        BY <3>2, <2>1
      <4>2. h[s] = IF s = {} THEN Unmatched ELSE Better(h[s \ {Max(s)}], seq[Max(s)])
        BY <4>1, <2>3 DEF Unmatched
      <4>3. up[s] = h[s] /\ up[s \ {Max(s)}] = h[s \ {Max(s)}]
        BY <3>2
      <4> QED BY <4>2, <4>3
    <3> QED BY <3>1, <3>2
  <2>5. Rec(m, up)
    <3> HIDE DEF up
    <3>1. up = [s \in SUBSET (1 .. m) |-> up[s]]
      BY DEF up
    <3> QED BY <2>4, <3>1
  <2> QED BY <2>5
<1> QED BY <1>2, <1>3

LEMMA Rounds ==
  ASSUME NEW n \in Nat, NEW seq, DOMAIN seq = 1 .. n
  PROVE  \E best :
           /\ best[0] = Unmatched
           /\ \A i \in 1 .. n : best[i] = Better(best[i - 1], seq[i])
           /\ FoldLeft(Better, Unmatched, seq) = best[n]
<1> DEFINE h == CHOOSE h : h = [s \in SUBSET (1 .. n) |->
                       IF s = {} THEN Unmatched ELSE Better(h[s \ {Max(s)}], seq[Max(s)])]
           best == [i \in 0 .. n |-> h[1 .. i]]
<1>1. h = [s \in SUBSET (1 .. n) |->
                       IF s = {} THEN Unmatched ELSE Better(h[s \ {Max(s)}], seq[Max(s)])]
  BY RoundsExist
<1>2. FoldLeft(Better, Unmatched, seq) = h[1 .. n]
  BY DEF FoldLeft, MapThenFoldSet
<1> HIDE DEF h
<1>3. best[0] = Unmatched
  BY <1>1
<1>4. ASSUME NEW i \in 1 .. n PROVE best[i] = Better(best[i - 1], seq[i])
  <2>1. Max(1 .. i) = i
    BY DEF Max
  <2>2. (1 .. i) \ {i} = 1 .. (i - 1)
    OBVIOUS
  <2>4. i \in 1 .. i /\ 1 .. i \subseteq 1 .. n
    OBVIOUS
  <2>3. h[1 .. i] = Better(h[1 .. (i - 1)], seq[i])
    BY <1>1, <2>1, <2>2, <2>4
  <2> QED BY <2>3
<1>5. FoldLeft(Better, Unmatched, seq) = best[n]
  BY <1>2
<1> HIDE DEF best
<1> QED BY <1>3, <1>4, <1>5

-----------------------------------------------------------------------------
\* A set of similarities has a greatest one, and Highest is it.
LEMMA HighestIs ==
  ASSUME NEW a \in Int, NEW b \in Int, NEW S \in SUBSET (a .. b), S # {}
  PROVE  Highest(S) \in S /\ \A t \in S : Highest(S) >= t
<1> DEFINE Gaps == {g \in Nat : b - g \in S}
<1>1. \A t \in S : t \in Int /\ t <= b /\ b - t \in Gaps
  <2> SUFFICES ASSUME NEW t \in S PROVE t \in Int /\ t <= b /\ b - t \in Gaps
    OBVIOUS
  <2>1. t \in Int /\ t <= b
    OBVIOUS
  <2>2. b - (b - t) = t /\ b - t \in Nat
    BY <2>1
  <2> QED BY <2>1, <2>2
<1>2. Gaps # {} /\ Gaps \subseteq Nat
  BY <1>1
<1>3. PICK g \in Gaps : \A k \in Gaps : ~(<<k, g>> \in OpToRel(<, Nat))
  <2> HIDE DEF Gaps
  <2> QED BY <1>2, NatLessThanWellFounded, WFMin
<1>4. b - g \in S /\ \A t \in S : b - g >= t
  <2> SUFFICES ASSUME NEW t \in S PROVE b - g >= t
    BY <1>3
  <2>1. b - t \in Gaps /\ t \in Int
    BY <1>1
  <2>2. ~(b - t < g)
    BY <1>3, <2>1, <1>2 DEF OpToRel
  <2>3. g \in Nat /\ b - t \in Nat
    BY <2>1
  <2> HIDE DEF Gaps
  <2> QED BY <2>1, <2>2, <2>3
<1> HIDE DEF Gaps
<1>5. \E s \in S : \A t \in S : s >= t
  BY <1>4
<1> QED BY <1>5 DEF Highest

LEMMA ScoreOfType ==
  ASSUME RecognitionAssumption, NEW probe \in Photos, NEW photos \in SUBSET Photos
  PROVE  /\ ScoreOf(probe, photos) \in -Certain .. Certain
         /\ \A p \in photos : Likeness(probe, p) <= ScoreOf(probe, photos)
<1> DEFINE S == {-Certain} \cup {Likeness(probe, p) : p \in photos}
<1>1. Certain \in Nat
  BY DEF RecognitionAssumption
<1>2. \A p \in photos : Likeness(probe, p) \in -Certain .. Certain
  BY DEF RecognitionAssumption
<1>3. S \in SUBSET (-Certain .. Certain) /\ S # {}
  BY <1>1, <1>2
<1>4. Highest(S) \in S /\ \A t \in S : Highest(S) >= t
  <2>1. -Certain \in Int /\ Certain \in Int
    BY <1>1
  <2> HIDE DEF S
  <2> QED BY <2>1, <1>3, HighestIs
<1>5. ScoreOf(probe, photos) = Highest(S)
  BY DEF ScoreOf
<1> QED BY <1>1, <1>2, <1>3, <1>4, <1>5

-----------------------------------------------------------------------------
(* Whom bestMatch names.                                                    *)

Scored(seq, n) ==
  /\ DOMAIN seq = 1 .. n
  /\ \A i \in 1 .. n : seq[i].score \in -Certain .. Certain

\* After i rounds: the best so far, and the best of the others.
Leads(best, seq, i) ==
  /\ best = [pupil |-> best.pupil, score |-> best.score, runnerUp |-> best.runnerUp]
  /\ best.score \in Int /\ best.runnerUp \in Int
  /\ best.runnerUp <= best.score /\ -Certain - 1 <= best.runnerUp
  /\ i = 0 => best = Unmatched
  /\ i # 0 => \E j \in 1 .. i :
       /\ best.pupil = seq[j].pupil /\ best.score = seq[j].score
       /\ \A k \in (1 .. i) \ {j} : seq[k].score <= best.runnerUp
       /\ best.runnerUp >= -Certain => \E k \in (1 .. i) \ {j} : seq[k].score = best.runnerUp

LEMMA LeadsOn ==
  ASSUME Certain \in Nat, NEW n \in Nat, NEW seq, Scored(seq, n), NEW i \in 1 .. n, NEW best, Leads(best, seq, i - 1)
  PROVE  Leads(Better(best, seq[i]), seq, i)
<1> DEFINE new == Better(best, seq[i])
<1>0. seq[i].score \in Int /\ -Certain <= seq[i].score /\ i \in Nat /\ i # 0 /\ i - 1 \in Nat
  BY DEF Scored
<1>1. CASE i = 1
  <2>1. best = Unmatched
    BY <1>1 DEF Leads
  <2>2. new = [pupil |-> seq[i].pupil, score |-> seq[i].score, runnerUp |-> -Certain - 1]
    BY <1>0, <2>1 DEF Better, Unmatched
  <2> HIDE DEF new
  <2>3. 1 .. i = {1} /\ 1 \in 1 .. i
    BY <1>1
  <2>4. ~(-Certain - 1 >= -Certain) /\ -Certain - 1 \in Int /\ -Certain - 1 <= seq[i].score
    BY <1>0
  <2>5. \E j \in 1 .. i :
          /\ new.pupil = seq[j].pupil /\ new.score = seq[j].score
          /\ \A k \in (1 .. i) \ {j} : seq[k].score <= new.runnerUp
          /\ new.runnerUp >= -Certain => \E k \in (1 .. i) \ {j} : seq[k].score = new.runnerUp
    BY <1>1, <2>2, <2>3, <2>4
  <2> QED BY <1>0, <2>2, <2>4, <2>5 DEF Leads, new
<1>2. CASE i # 1
  <2>0. i - 1 # 0
    BY <1>0, <1>2
  <2>1. PICK j \in 1 .. (i - 1) :
       /\ best.pupil = seq[j].pupil /\ best.score = seq[j].score
       /\ \A k \in (1 .. (i - 1)) \ {j} : seq[k].score <= best.runnerUp
       /\ best.runnerUp >= -Certain => \E k \in (1 .. (i - 1)) \ {j} : seq[k].score = best.runnerUp
    BY <2>0 DEF Leads
  <2>2. best.score \in Int /\ best.runnerUp \in Int /\ best.runnerUp <= best.score /\ -Certain - 1 <= best.runnerUp
    BY DEF Leads
  <2>3. CASE seq[i].score > best.score
    <3>1. new = [pupil |-> seq[i].pupil, score |-> seq[i].score, runnerUp |-> best.score]
      BY <2>3 DEF Better
    <3> HIDE DEF new
    <3>2. \A k \in (1 .. i) \ {i} : k \in 1 .. (i - 1)
      BY <1>0
    <3>3. \A k \in (1 .. i) \ {i} : seq[k].score <= best.score
      <4> SUFFICES ASSUME NEW k \in 1 .. (i - 1) PROVE seq[k].score <= best.score
        BY <3>2
      <4>1. k \in 1 .. n
        BY <1>0
      <4>2. seq[k].score \in Int
        BY <4>1 DEF Scored
      <4> QED BY <2>1, <2>2, <4>2
    <3>4. j \in (1 .. i) \ {i}
      BY <1>0
    <3>5. i \in 1 .. i
      BY <1>0
    <3> QED BY <1>0, <2>1, <2>2, <2>3, <3>1, <3>3, <3>4, <3>5 DEF Leads, new
  <2>4. CASE ~(seq[i].score > best.score)
    <3> DEFINE up == Highest({best.runnerUp, seq[i].score})
    <3>1. up \in {best.runnerUp, seq[i].score} /\ up >= best.runnerUp /\ up >= seq[i].score
      <4>1. \E s \in {best.runnerUp, seq[i].score} : \A t \in {best.runnerUp, seq[i].score} : s >= t
        BY <1>0, <2>2
      <4> QED BY <4>1 DEF Highest
    <3>2. new = [pupil |-> best.pupil, score |-> best.score, runnerUp |-> up]
      <4>1. new = [best EXCEPT !.runnerUp = up]
        BY <2>4 DEF Better
      <4>2. best = [pupil |-> best.pupil, score |-> best.score, runnerUp |-> best.runnerUp]
        BY DEF Leads
      <4> HIDE DEF new, up
      <4> QED BY <4>1, <4>2
    <3> HIDE DEF new, up
    <3>3. up \in Int /\ up <= best.score /\ -Certain - 1 <= up
      BY <1>0, <2>2, <2>4, <3>1
    <3>4. j \in 1 .. i /\ i \in 1 .. i
      BY <1>0
    <3>5. \A k \in (1 .. i) \ {j} : seq[k].score <= up
      <4> SUFFICES ASSUME NEW k \in (1 .. i) \ {j} PROVE seq[k].score <= up
        OBVIOUS
      <4>1. k \in 1 .. n /\ (k = i \/ k \in (1 .. (i - 1)) \ {j})
        BY <1>0
      <4>2. seq[k].score \in Int
        BY <4>1 DEF Scored
      <4> QED BY <1>0, <2>1, <2>2, <3>1, <3>3, <4>1, <4>2
    <3>6. up >= -Certain => \E k \in (1 .. i) \ {j} : seq[k].score = up
      <4>1. CASE up = seq[i].score
        <5>1. i \in (1 .. i) \ {j}
          BY <1>0
        <5> QED BY <4>1, <5>1
      <4>2. CASE up = best.runnerUp
        <5>1. \A k \in (1 .. (i - 1)) \ {j} : k \in (1 .. i) \ {j}
          BY <1>0
        <5> QED BY <2>1, <4>2, <5>1
      <4> QED BY <3>1, <4>1, <4>2
    <3> QED BY <1>0, <2>1, <3>2, <3>3, <3>4, <3>5, <3>6 DEF Leads, new
  <2> QED BY <2>3, <2>4
<1> QED BY <1>1, <1>2

\* After every round.
LEMMA LeadsThroughout ==
  ASSUME Certain \in Nat, NEW n \in Nat, NEW seq, Scored(seq, n)
  PROVE  Leads(FoldLeft(Better, Unmatched, seq), seq, n)
<1>1. PICK best :
           /\ best[0] = Unmatched
           /\ \A i \in 1 .. n : best[i] = Better(best[i - 1], seq[i])
           /\ FoldLeft(Better, Unmatched, seq) = best[n]
  BY Rounds DEF Scored
<1> DEFINE Bad == {i \in Nat : i <= n /\ ~Leads(best[i], seq, i)}
<1> SUFFICES ASSUME Bad # {} PROVE FALSE
  BY <1>1
<1>2. PICK i \in Bad : \A k \in Bad : ~(<<k, i>> \in OpToRel(<, Nat))
  <2> HIDE DEF Bad
  <2>1. Bad \subseteq Nat
    BY DEF Bad
  <2> QED BY <2>1, NatLessThanWellFounded, WFMin
<1>3. CASE i = 0
  <2>1. Leads(Unmatched, seq, 0)
    BY DEF Leads, Unmatched
  <2> QED BY <1>1, <1>2, <1>3, <2>1
<1>4. CASE i # 0
  <2>1. i \in 1 .. n /\ i - 1 \in Nat /\ i - 1 < i /\ i - 1 <= n
    <3>1. i \in Nat /\ i <= n
      OBVIOUS
    <3> HIDE DEF Bad
    <3> QED BY <1>4, <3>1
  <2>2. i - 1 \notin Bad
    BY <1>2, <2>1 DEF OpToRel
  <2>3. Leads(best[i - 1], seq, i - 1)
    BY <2>1, <2>2
  <2>4. Leads(best[i], seq, i)
    BY <1>1, <2>1, <2>3, LeadsOn
  <2> QED BY <1>2, <2>4
<1> QED BY <1>3, <1>4

\* bestMatch compares the candidates one after the other, each candidate once.
EachOnce(candidates, n) ==
  /\ DOMAIN candidates = 1 .. n /\ Len(candidates) = n
  /\ \A i, j \in 1 .. n : candidates[i] = candidates[j] => i = j
  /\ \A i \in 1 .. n : candidates[i] \in Pupils

(* Whoever bestMatch names is a candidate who reaches the threshold and     *)
(* leads every other candidate by the margin, whatever the order in which   *)
(* the database gives them and however many they are; and it names somebody *)
(* whenever one candidate does so (face.match.ts bestMatch, "The one student *)
(* this face belongs to, if the evidence is clear").                        *)
THEOREM BestMatchIsClear ==
  ASSUME RecognitionAssumption, NEW probe \in Photos, NEW n \in Nat, NEW candidates, EachOnce(candidates, n),
         NEW held \in [Pupils -> SUBSET Photos], NEW threshold \in Int, NEW margin \in Int
  PROVE  LET Score(i) == ScoreOf(probe, held[candidates[i]])
             Clear(i) == Score(i) >= threshold /\ \A k \in (1 .. n) \ {i} : Score(i) - Score(k) >= margin
             match == BestMatch(probe, candidates, held, threshold, margin)
         IN /\ match # Stranger => \E i \in 1 .. n : match = candidates[i] /\ Clear(i)
            /\ match = Stranger => \A i \in 1 .. n : ~Clear(i)
            /\ match = Stranger /\ margin <= 0 => \A i \in 1 .. n : Score(i) < threshold
<1> DEFINE Score(i) == ScoreOf(probe, held[candidates[i]])
           Clear(i) == Score(i) >= threshold /\ \A k \in (1 .. n) \ {i} : Score(i) - Score(k) >= margin
           match == BestMatch(probe, candidates, held, threshold, margin)
           scores == [i \in 1 .. n |-> [pupil |-> candidates[i], score |-> Score(i)]]
           best == FoldLeft(Better, Unmatched, scores)
<1>1. Certain \in Nat /\ Stranger \notin Pupils
  BY DEF RecognitionAssumption
<1>2. \A i \in 1 .. n : Score(i) \in -Certain .. Certain
  BY ScoreOfType DEF EachOnce
<1>3. match = IF best.score >= threshold /\ (best.runnerUp >= -Certain => best.score - best.runnerUp >= margin)
              THEN best.pupil ELSE Stranger
  BY DEF BestMatch, EachOnce
<1>4. \A i \in 1 .. n : scores[i].pupil = candidates[i] /\ scores[i].score = Score(i)
  OBVIOUS
<1> HIDE DEF Score, match
<1>5. Scored(scores, n)
  BY <1>2, <1>4 DEF Scored
<1>6. Leads(best, scores, n)
  <2> HIDE DEF scores
  <2> QED BY <1>1, <1>5, LeadsThroughout
<1> HIDE DEF best, scores
<1>7. CASE n = 0
  <2>1. best = Unmatched /\ 1 .. n = {}
    BY <1>6, <1>7 DEF Leads
  <2>2. match = Stranger
    BY <1>3, <2>1 DEF Unmatched
  <2> QED BY <2>1, <2>2 DEF match, Score
<1>8. CASE n # 0
  <2>1. PICK j \in 1 .. n :
       /\ best.pupil = candidates[j] /\ best.score = Score(j)
       /\ \A k \in (1 .. n) \ {j} : Score(k) <= best.runnerUp
       /\ best.runnerUp >= -Certain => \E k \in (1 .. n) \ {j} : Score(k) = best.runnerUp
    BY <1>4, <1>6, <1>8 DEF Leads
  <2>2. /\ best.score \in Int /\ best.runnerUp \in Int /\ best.runnerUp <= best.score
        /\ \A i \in 1 .. n : Score(i) \in Int /\ -Certain <= Score(i)
    BY <1>1, <1>2, <1>6 DEF Leads
  <2>3. candidates[j] # Stranger
    BY <1>1 DEF EachOnce
  <2>4. match # Stranger => match = candidates[j] /\ Clear(j)
    BY <1>1, <1>3, <2>1, <2>2
  <2>5. ASSUME match = Stranger, NEW i \in 1 .. n, Score(i) >= threshold
        PROVE  margin > 0 /\ ~Clear(i)
    <3>1. Score(i) <= best.score
      BY <2>1, <2>2
    <3>2. best.score >= threshold
      BY <2>2, <2>5, <3>1
    <3>3. best.runnerUp >= -Certain /\ best.score - best.runnerUp < margin
      BY <1>1, <1>3, <2>1, <2>2, <2>3, <2>5, <3>2
    <3>4. margin > 0
      BY <2>2, <3>3
    <3>5. CASE i = j
      BY <2>1, <2>2, <3>3, <3>5
    <3>6. CASE i # j
      <4>1. Score(i) - Score(j) < margin
        BY <2>1, <2>2, <3>1, <3>4
      <4> QED BY <3>4, <3>6, <4>1, <2>2
    <3> QED BY <3>4, <3>5, <3>6
  <2>6. match = Stranger => \A i \in 1 .. n : ~Clear(i)
    BY <2>5
  <2>7. match = Stranger /\ margin <= 0 => \A i \in 1 .. n : Score(i) < threshold
    BY <2>2, <2>5
  <2> QED BY <2>4, <2>6, <2>7 DEF match, Score
<1> QED BY <1>7, <1>8

\* The orders a database may give a finite set in name each member once.
LEMMA AnyOrder ==
  ASSUME NEW S \in SUBSET Pupils, IsFiniteSet(S), NEW candidates \in SetToSeqs(S)
  PROVE  /\ Cardinality(S) \in Nat
         /\ EachOnce(candidates, Cardinality(S))
         /\ \A i \in 1 .. Cardinality(S) : candidates[i] \in S
<1>1. Cardinality(S) \in Nat
  BY FS_CardinalityType
<1>2. candidates \in [1 .. Cardinality(S) -> S] /\ \A i, j \in 1 .. Cardinality(S) : i # j => candidates[i] # candidates[j]
  BY DEF SetToSeqs
<1>3. Len(candidates) = Cardinality(S)
  BY <1>1, <1>2
<1> QED BY <1>1, <1>2, <1>3 DEF EachOnce

\* So does SetToSeq, and it leaves nobody out.
LEMMA OneOrder ==
  ASSUME NEW S \in SUBSET Pupils, IsFiniteSet(S)
  PROVE  /\ Cardinality(S) \in Nat
         /\ EachOnce(SetToSeq(S), Cardinality(S))
         /\ \A s \in S : \E i \in 1 .. Cardinality(S) : SetToSeq(S)[i] = s
<1> DEFINE n == Cardinality(S)
<1>1. n \in Nat /\ ExistsBijection(1 .. n, S) /\ IsFiniteSet(1 .. n) /\ Cardinality(1 .. n) = n
  BY FS_CardinalityType, FS_Interval
<1>2. \E f \in [1 .. n -> S] : IsInjective(f)
  BY <1>1 DEF ExistsBijection, Bijection, Injection, IsInjective
<1>3. SetToSeq(S) \in [1 .. n -> S] /\ IsInjective(SetToSeq(S))
  BY <1>2 DEF SetToSeq
<1> DEFINE f == SetToSeq(S)
<1> HIDE DEF n, f
<1>4. f \in Injection(1 .. n, S)
  BY <1>3 DEF f, IsInjective, Injection
<1>5. f \in Surjection(1 .. n, S)
  BY <1>1, <1>4, FS_Injection DEF n
<1>6. Len(f) = n
  BY <1>1, <1>3 DEF f
<1>7. EachOnce(f, n)
  <2>1. DOMAIN f = 1 .. n
    BY <1>3 DEF f
  <2>2. \A i, j \in 1 .. n : f[i] = f[j] => i = j
    BY <1>3, <2>1 DEF f, IsInjective
  <2>3. \A i \in 1 .. n : f[i] \in Pupils
    BY <1>4 DEF Injection
  <2> QED BY <1>6, <2>1, <2>2, <2>3 DEF EachOnce
<1>8. \A s \in S : \E i \in 1 .. n : f[i] = s
  BY <1>5 DEF Surjection
<1> QED BY <1>1, <1>7, <1>8 DEF n, f

-----------------------------------------------------------------------------
(* Shapes, and what goes with them: only a pupil holds a live card or is    *)
(* about to be recorded.                                                    *)

TapPhases == {"idle", "match", "eligible", "insert", "verify"}
EnrolmentPhases == {"idle", "photos", "others", "save"}

RecognitionTypeOK ==
  /\ person \in [Pupils -> [deleted : BOOLEAN, consent : BOOLEAN, active : BOOLEAN]]
  /\ template \in [Pupils -> SUBSET Photos]
  /\ card \in [Cards -> [holder : Pupils \cup {Stranger}, status : {"UNISSUED", "ACTIVE", "REVOKED"}]]
  /\ \A c \in Cards : card[c].status = "ACTIVE" => card[c].holder \in Pupils
  /\ live \subseteq Lessons
  /\ present \subseteq [class : Lessons, pupil : Pupils, method : {"FACE", "CARD"}]
  /\ tokens \subseteq [class : Lessons, pupil : Pupils, expires : Nat]
  /\ enrolling \in [Enrolments -> [phase : EnrolmentPhases, pupil : Pupils \cup {Stranger}, photos : SUBSET Photos,
                                   others : [Pupils -> SUBSET Photos] \cup {<<>>}]]
  /\ \A e \in Enrolments :
       /\ enrolling[e].phase # "idle" => enrolling[e].pupil \in Pupils
       /\ enrolling[e].phase = "save" => enrolling[e].others \in [Pupils -> SUBSET Photos]
  /\ tap \in [Taps -> [phase : TapPhases, class : Lessons \cup {Stranger}, pupil : Pupils \cup {Stranger}, method : {"FACE", "CARD"}]]
  /\ \A t \in Taps :
       /\ tap[t].phase # "idle" => tap[t].class \in Lessons
       /\ tap[t].phase \in {"eligible", "insert", "verify"} => tap[t].pupil \in Pupils
  /\ clock \in Nat /\ asked \in Nat

LEMMA RecognitionInitTypeOK == RecognitionInit => RecognitionTypeOK
BY DEF RecognitionInit, RecognitionTypeOK, Unissued, NotEnrolling, NoTap, TapPhases, EnrolmentPhases

PersonRow == [deleted : BOOLEAN, consent : BOOLEAN, active : BOOLEAN]

LEMMA PersonField ==
  ASSUME NEW rec \in PersonRow, NEW b \in BOOLEAN
  PROVE  [rec EXCEPT !.consent = b] \in PersonRow /\ [rec EXCEPT !.active = b] \in PersonRow
BY DEF PersonRow

LEMMA AskType == ASSUME asked \in Nat, Ask PROVE asked' \in Nat
BY DEF Ask

LEMMA PupilStepTypeOK ==
  ASSUME RecognitionTypeOK, NEW s \in Pupils,
         GiveConsent(s) \/ WithdrawConsent(s) \/ Reroster(s) \/ DeletePupil(s) \/ RemoveEnrolment(s)
  PROVE  RecognitionTypeOK'
<1>0. asked \in Nat
  BY DEF RecognitionTypeOK
<1>1. CASE GiveConsent(s)
  <2>1. person' \in [Pupils -> [deleted : BOOLEAN, consent : BOOLEAN, active : BOOLEAN]]
    <3>1. [person[s] EXCEPT !.consent = TRUE] \in PersonRow
      <4>1. person[s] \in PersonRow
        BY DEF RecognitionTypeOK, PersonRow
      <4> QED BY <4>1, PersonField
    <3>2. person' = [person EXCEPT ![s] = [person[s] EXCEPT !.consent = TRUE]]
      BY <1>1 DEF GiveConsent
    <3> QED BY <3>1, <3>2 DEF RecognitionTypeOK, PersonRow
  <2> QED BY <1>1, <2>1 DEF GiveConsent, RecognitionTypeOK, unattended
<1>2. CASE WithdrawConsent(s)
  <2>1. person' \in [Pupils -> [deleted : BOOLEAN, consent : BOOLEAN, active : BOOLEAN]]
    <3>1. [person[s] EXCEPT !.consent = FALSE] \in PersonRow
      <4>1. person[s] \in PersonRow
        BY DEF RecognitionTypeOK, PersonRow
      <4> QED BY <4>1, PersonField
    <3>2. person' = [person EXCEPT ![s] = [person[s] EXCEPT !.consent = FALSE]]
      BY <1>2 DEF WithdrawConsent
    <3> QED BY <3>1, <3>2 DEF RecognitionTypeOK, PersonRow
  <2>2. asked' \in Nat
    BY <1>0, <1>2, AskType DEF WithdrawConsent
  <2> QED BY <1>2, <2>1, <2>2 DEF WithdrawConsent, RecognitionTypeOK, unattended
<1>3. CASE Reroster(s)
  <2>1. person' \in [Pupils -> [deleted : BOOLEAN, consent : BOOLEAN, active : BOOLEAN]]
    <3>1. [person[s] EXCEPT !.active = ~@] \in PersonRow
      <4>1. person[s] \in PersonRow
        BY DEF RecognitionTypeOK, PersonRow
      <4> QED BY <4>1, PersonField
    <3>2. person' = [person EXCEPT ![s] = [person[s] EXCEPT !.active = ~@]]
      BY <1>3 DEF Reroster
    <3> QED BY <3>1, <3>2 DEF RecognitionTypeOK, PersonRow
  <2>2. asked' \in Nat
    BY <1>0, <1>3, AskType DEF Reroster
  <2> QED BY <1>3, <2>1, <2>2 DEF Reroster, RecognitionTypeOK, unattended
<1>4. CASE DeletePupil(s)
  <2>1. card' \in [Cards -> [holder : Pupils \cup {Stranger}, status : {"UNISSUED", "ACTIVE", "REVOKED"}]]
    BY <1>4 DEF DeletePupil, Unissued, RecognitionTypeOK
  <2>2. \A c \in Cards : card'[c].status = "ACTIVE" => card'[c].holder \in Pupils
    BY <1>4 DEF DeletePupil, Unissued, RecognitionTypeOK
  <2>3. asked' \in Nat
    BY <1>0, <1>4, AskType DEF DeletePupil
  <2> QED BY <1>4, <2>1, <2>2, <2>3 DEF DeletePupil, RecognitionTypeOK, unattended
<1>5. CASE RemoveEnrolment(s)
  <2>1. asked' \in Nat
    BY <1>0, <1>5, AskType DEF RemoveEnrolment
  <2> QED BY <1>5, <2>1 DEF RemoveEnrolment, RecognitionTypeOK, unattended
<1> QED BY <1>1, <1>2, <1>3, <1>4, <1>5

LEMMA EnrolmentStepTypeOK ==
  ASSUME RecognitionTypeOK, NEW e \in Enrolments,
         (\E s \in Pupils : AskEnrolment(e, s)) \/ EmbedPhotos(e) \/ CompareOthers(e) \/ SaveEnrolment(e)
  PROVE  RecognitionTypeOK'
<1> DEFINE Row == [phase : EnrolmentPhases, pupil : Pupils \cup {Stranger}, photos : SUBSET Photos,
                   others : [Pupils -> SUBSET Photos] \cup {<<>>}]
           Good(rec) == /\ rec \in Row
                        /\ rec.phase # "idle" => rec.pupil \in Pupils
                        /\ rec.phase = "save" => rec.others \in [Pupils -> SUBSET Photos]
<1>1. ASSUME NEW rec, Good(rec), enrolling' = [enrolling EXCEPT ![e] = rec], template' \in [Pupils -> SUBSET Photos],
             UNCHANGED <<person, card, clock, unattended>>, asked' \in Nat
      PROVE  RecognitionTypeOK'
  BY <1>1 DEF RecognitionTypeOK, unattended
<1>2. Good(NotEnrolling)
  BY DEF NotEnrolling, EnrolmentPhases
<1>3. Good(enrolling[e]) /\ template \in [Pupils -> SUBSET Photos] /\ asked \in Nat
  BY DEF RecognitionTypeOK
<1> DEFINE Set(rec) == enrolling' = [enrolling EXCEPT ![e] = rec]
<1>4. ASSUME NEW s \in Pupils, AskEnrolment(e, s) PROVE RecognitionTypeOK'
  <2>1. Good([NotEnrolling EXCEPT !.phase = "photos", !.pupil = s])
    BY DEF NotEnrolling, EnrolmentPhases
  <2>2. asked' \in Nat
    BY <1>3, <1>4, AskType DEF AskEnrolment
  <2> HIDE DEF Good
  <2> QED BY <1>1, <1>3, <1>4, <2>1, <2>2 DEF AskEnrolment
<1>5. CASE EmbedPhotos(e)
  <2>1. PICK photos \in SUBSET Photos :
          enrolling' = [enrolling EXCEPT ![e] =
            IF photos # {} /\ Agree(photos) THEN [@ EXCEPT !.phase = "others", !.photos = photos] ELSE NotEnrolling]
    BY <1>5 DEF EmbedPhotos
  <2>2. Good([enrolling[e] EXCEPT !.phase = "others", !.photos = photos])
    BY <1>3, <1>5 DEF EmbedPhotos, EnrolmentPhases
  <2> HIDE DEF Good
  <2> QED BY <1>1, <1>2, <1>3, <1>5, <2>1, <2>2 DEF EmbedPhotos
<1>6. CASE CompareOthers(e)
  <2>1. Good([enrolling[e] EXCEPT !.phase = "save", !.others = template])
    BY <1>3, <1>6 DEF CompareOthers, EnrolmentPhases
  <2> HIDE DEF Good
  <2> QED BY <1>1, <1>2, <1>3, <1>6, <2>1 DEF CompareOthers
<1>7. CASE SaveEnrolment(e)
  <2>1. template' \in [Pupils -> SUBSET Photos]
    BY <1>3, <1>7 DEF SaveEnrolment
  <2> HIDE DEF Good
  <2> QED BY <1>1, <1>2, <1>3, <1>7, <2>1 DEF SaveEnrolment
<1> QED BY <1>4, <1>5, <1>6, <1>7

LEMMA CardStepTypeOK ==
  ASSUME RecognitionTypeOK, NEW c \in Cards, RevokeCard(c) \/ \E s \in Pupils : EnrolCard(c, s)
  PROVE  RecognitionTypeOK'
<1>0. asked \in Nat
  BY DEF RecognitionTypeOK
<1>1. CASE RevokeCard(c)
  <2>1. asked' \in Nat
    BY <1>0, <1>1, AskType DEF RevokeCard
  <2> QED BY <1>1, <2>1 DEF RevokeCard, RecognitionTypeOK, unattended
<1>2. ASSUME NEW s \in Pupils, EnrolCard(c, s) PROVE RecognitionTypeOK'
  <2>1. asked' \in Nat
    BY <1>0, <1>2, AskType DEF EnrolCard
  <2> QED BY <1>2, <2>1 DEF EnrolCard, RecognitionTypeOK, unattended
<1> QED BY <1>1, <1>2

\* A face is matched to nobody but a student of the unit who consents and is enrolled.
LEMMA MatchIsCandidate ==
  ASSUME RecognitionAssumption, RecognitionTypeOK, NEW probe \in Photos, NEW candidates \in SetToSeqs(FaceCandidates)
  PROVE  BestMatch(probe, candidates, template, MatchThreshold, MatchMargin) \in FaceCandidates \cup {Stranger}
<1>1. FaceCandidates \in SUBSET Pupils /\ IsFiniteSet(FaceCandidates)
  BY FS_Subset DEF RecognitionAssumption, FaceCandidates
<1>2. /\ Cardinality(FaceCandidates) \in Nat
      /\ EachOnce(candidates, Cardinality(FaceCandidates))
      /\ \A i \in 1 .. Cardinality(FaceCandidates) : candidates[i] \in FaceCandidates
  BY <1>1, AnyOrder
<1>3. template \in [Pupils -> SUBSET Photos] /\ MatchThreshold \in Int /\ MatchMargin \in Int
  BY DEF RecognitionTypeOK, RecognitionAssumption
<1>4. BestMatch(probe, candidates, template, MatchThreshold, MatchMargin) # Stranger =>
        \E i \in 1 .. Cardinality(FaceCandidates) :
          BestMatch(probe, candidates, template, MatchThreshold, MatchMargin) = candidates[i]
  BY <1>2, <1>3, BestMatchIsClear
<1> QED BY <1>2, <1>4

LEMMA TapStepTypeOK ==
  ASSUME RecognitionAssumption, RecognitionTypeOK, NEW t \in Taps,
         \/ \E k \in Lessons : SendFace(t, k) \/ ReadCard(t, k) \/ \E token \in tokens : ConfirmFace(t, token, k)
         \/ IdentifyFace(t) \/ CheckEligible(t) \/ VerifyCard(t) \/ Record(t)
  PROVE  RecognitionTypeOK'
<1> DEFINE Row == [phase : TapPhases, class : Lessons \cup {Stranger}, pupil : Pupils \cup {Stranger}, method : {"FACE", "CARD"}]
           Good(rec) == /\ rec \in Row
                        /\ rec.phase # "idle" => rec.class \in Lessons
                        /\ rec.phase \in {"eligible", "insert", "verify"} => rec.pupil \in Pupils
<1>1. ASSUME NEW rec, Good(rec), Stand(t, rec), UNCHANGED untapped, asked' \in Nat,
             present' \subseteq [class : Lessons, pupil : Pupils, method : {"FACE", "CARD"}],
             tokens' \subseteq [class : Lessons, pupil : Pupils, expires : Nat]
      PROVE  RecognitionTypeOK'
  BY <1>1 DEF RecognitionTypeOK, untapped, Stand
<1>2. Good(NoTap)
  BY DEF NoTap, TapPhases
<1>3. /\ Good(tap[t]) /\ asked \in Nat /\ clock \in Nat
      /\ present \subseteq [class : Lessons, pupil : Pupils, method : {"FACE", "CARD"}]
      /\ tokens \subseteq [class : Lessons, pupil : Pupils, expires : Nat]
  BY DEF RecognitionTypeOK
<1>4. ASSUME NEW k \in Lessons, SendFace(t, k) PROVE RecognitionTypeOK'
  <2>1. Good([NoTap EXCEPT !.phase = "match", !.class = k])
    BY DEF NoTap, TapPhases
  <2>3. asked' \in Nat
    BY <1>3, <1>4, AskType DEF SendFace
  <2> HIDE DEF Good
  <2> QED BY <1>1, <1>3, <1>4, <2>1, <2>3 DEF SendFace
<1>5. ASSUME NEW k \in Lessons, ReadCard(t, k) PROVE RecognitionTypeOK'
  <2>1. PICK s \in {card[c].holder : c \in {d \in Cards : card[d].status = "ACTIVE"}} \cup {u \in Pupils : ~person[u].deleted} :
          Stand(t, [phase |-> "verify", class |-> k, pupil |-> s, method |-> "CARD"])
    BY <1>5 DEF ReadCard
  <2>2. s \in Pupils
    BY <2>1 DEF RecognitionTypeOK
  <2>3. Good([phase |-> "verify", class |-> k, pupil |-> s, method |-> "CARD"])
    BY <2>2 DEF TapPhases
  <2>4. asked' \in Nat
    BY <1>3, <1>5, AskType DEF ReadCard
  <2> HIDE DEF Good
  <2> QED BY <1>1, <1>3, <1>5, <2>1, <2>3, <2>4 DEF ReadCard
<1>6. ASSUME NEW k \in Lessons, NEW token \in tokens, ConfirmFace(t, token, k) PROVE RecognitionTypeOK'
  <2>1. token.pupil \in Pupils
    BY <1>3
  <2>2. Good([phase |-> "eligible", class |-> k, pupil |-> token.pupil, method |-> "FACE"])
    BY <2>1 DEF TapPhases
  <2>3. asked' \in Nat
    BY <1>3, <1>6, AskType DEF ConfirmFace
  <2> HIDE DEF Good
  <2> QED BY <1>1, <1>3, <1>6, <2>2, <2>3 DEF ConfirmFace
<1>7. CASE IdentifyFace(t)
  <2>1. PICK probe \in Photos, candidates \in SetToSeqs(FaceCandidates) :
       LET s == BestMatch(probe, candidates, template, MatchThreshold, MatchMargin)
           inClass == \E rec \in present : rec.class = tap[t].class /\ rec.pupil = s
       IN tokens' = IF s = Stranger \/ inClass THEN tokens
                    ELSE tokens \cup {[class |-> tap[t].class, pupil |-> s, expires |-> clock + TokenTtl]}
    BY <1>7 DEF IdentifyFace
  <2>2. BestMatch(probe, candidates, template, MatchThreshold, MatchMargin) \in Pupils \cup {Stranger}
    BY MatchIsCandidate DEF FaceCandidates
  <2>3. tap[t].class \in Lessons /\ clock + TokenTtl \in Nat
    BY <1>3, <1>7 DEF IdentifyFace, RecognitionAssumption
  <2>4. tokens' \subseteq [class : Lessons, pupil : Pupils, expires : Nat]
    BY <1>3, <2>1, <2>2, <2>3
  <2> HIDE DEF Good
  <2> QED BY <1>1, <1>2, <1>3, <1>7, <2>4 DEF IdentifyFace
<1>8. CASE CheckEligible(t)
  <2>1. Good([tap[t] EXCEPT !.phase = "insert"])
    BY <1>3, <1>8 DEF CheckEligible, TapPhases
  <2> HIDE DEF Good
  <2> QED BY <1>1, <1>2, <1>3, <1>8, <2>1 DEF CheckEligible
<1>9. CASE VerifyCard(t)
  <2>1. Good([tap[t] EXCEPT !.phase = "insert"])
    BY <1>3, <1>9 DEF VerifyCard, TapPhases
  <2> HIDE DEF Good
  <2> QED BY <1>1, <1>2, <1>3, <1>9, <2>1 DEF VerifyCard
<1>10. CASE Record(t)
  <2>1. [class |-> tap[t].class, pupil |-> tap[t].pupil, method |-> tap[t].method] \in [class : Lessons, pupil : Pupils, method : {"FACE", "CARD"}]
    BY <1>3, <1>10 DEF Record
  <2>2. present' \subseteq [class : Lessons, pupil : Pupils, method : {"FACE", "CARD"}]
    BY <1>3, <1>10, <2>1 DEF Record
  <2> HIDE DEF Good
  <2> QED BY <1>1, <1>2, <1>3, <1>10, <2>2 DEF Record
<1> QED BY <1>4, <1>5, <1>6, <1>7, <1>8, <1>9, <1>10

LEMMA RecognitionNextTypeOK ==
  RecognitionAssumption /\ RecognitionTypeOK /\ [RecognitionNext]_recognitionVars => RecognitionTypeOK'
<1> SUFFICES ASSUME RecognitionAssumption, RecognitionTypeOK, [RecognitionNext]_recognitionVars
             PROVE  RecognitionTypeOK'
  OBVIOUS
<1>1. ASSUME NEW k \in Lessons, EndClass(k) PROVE RecognitionTypeOK'
  BY <1>1 DEF RecognitionTypeOK, EndClass
<1>2. CASE Second \/ UNCHANGED recognitionVars
  BY <1>2 DEF RecognitionTypeOK, Second, recognitionVars
<1> QED BY <1>1, <1>2, PupilStepTypeOK, EnrolmentStepTypeOK, CardStepTypeOK, TapStepTypeOK DEF RecognitionNext

\* Every row, call and token keeps its shape, for any number of pupils, cards and terminals.
THEOREM RecognitionTypes == ASSUME RecognitionAssumption PROVE RecognitionSpec => []RecognitionTypeOK
BY RecognitionInitTypeOK, RecognitionNextTypeOK, PTL DEF RecognitionSpec

-----------------------------------------------------------------------------
(* A face check-in: what a terminal is about to record by face, it was      *)
(* given a token for.                                                       *)

\* A token was handed out for the student in the class.
MatchedIn(k, s) == \E token \in tokens : token.class = k /\ token.pupil = s

TapsMatched ==
  /\ RecordedWhereMatched
  /\ \A t \in Taps : tap[t].method = "FACE" =>
       /\ tap[t].phase # "verify"
       /\ tap[t].phase \in {"eligible", "insert"} => MatchedIn(tap[t].class, tap[t].pupil)

LEMMA TapsMatchedNext ==
  ASSUME RecognitionAssumption, RecognitionTypeOK, TapsMatched, [RecognitionNext]_recognitionVars
  PROVE  TapsMatched'
<1>1. CASE UNCHANGED <<present, tokens, tap>>
  BY <1>1 DEF TapsMatched, RecordedWhereMatched, MatchedIn
<1> DEFINE Good(rec) == rec.method = "FACE" =>
             /\ rec.phase # "verify"
             /\ rec.phase \in {"eligible", "insert"} => MatchedIn(rec.class, rec.pupil)
<1>2. ASSUME NEW t \in Taps, NEW rec, Stand(t, rec), Good(rec), tokens \subseteq tokens', UNCHANGED present
      PROVE  TapsMatched'
  <2>1. \A k, s : MatchedIn(k, s) => MatchedIn(k, s)'
    BY <1>2 DEF MatchedIn
  <2>2. \A u \in Taps : tap'[u] = IF u = t THEN rec ELSE tap[u]
    BY <1>2 DEF Stand, RecognitionTypeOK
  <2>3. RecordedWhereMatched'
    BY <1>2 DEF TapsMatched, RecordedWhereMatched
  <2> QED BY <1>2, <2>1, <2>2, <2>3 DEF TapsMatched
<1>3. Good(NoTap)
  BY DEF NoTap
<1>4. ASSUME NEW t \in Taps PROVE Good(tap[t]) /\ tap[t] \in [phase : TapPhases, class : Lessons \cup {Stranger}, pupil : Pupils \cup {Stranger}, method : {"FACE", "CARD"}]
  BY DEF TapsMatched, RecognitionTypeOK
<1>5. ASSUME NEW t \in Taps, NEW k \in Lessons, SendFace(t, k) PROVE TapsMatched'
  <2>1. Good([NoTap EXCEPT !.phase = "match", !.class = k])
    BY DEF NoTap
  <2> HIDE DEF Good
  <2> QED BY <1>2, <1>5, <2>1 DEF SendFace
<1>6. ASSUME NEW t \in Taps, NEW k \in Lessons, ReadCard(t, k) PROVE TapsMatched'
  <2>1. \A s : Good([phase |-> "verify", class |-> k, pupil |-> s, method |-> "CARD"])
    OBVIOUS
  <2> HIDE DEF Good
  <2> QED BY <1>2, <1>6, <2>1 DEF ReadCard
<1>7. ASSUME NEW t \in Taps, NEW k \in Lessons, NEW token \in tokens, ConfirmFace(t, token, k) PROVE TapsMatched'
  <2>1. MatchedIn(k, token.pupil)
    BY <1>7 DEF ConfirmFace, Signed, MatchedIn
  <2>2. Good([phase |-> "eligible", class |-> k, pupil |-> token.pupil, method |-> "FACE"])
    BY <2>1
  <2> HIDE DEF Good
  <2> QED BY <1>2, <1>7, <2>2 DEF ConfirmFace
<1>8. ASSUME NEW t \in Taps, IdentifyFace(t) PROVE TapsMatched'
  <2>1. tokens \subseteq tokens'
    BY <1>8 DEF IdentifyFace
  <2> HIDE DEF Good
  <2> QED BY <1>2, <1>3, <1>8, <2>1 DEF IdentifyFace
<1>9. ASSUME NEW t \in Taps, CheckEligible(t) PROVE TapsMatched'
  <2>1. Good([tap[t] EXCEPT !.phase = "insert"])
    BY <1>4, <1>9 DEF CheckEligible
  <2> HIDE DEF Good
  <2> QED BY <1>2, <1>3, <1>9, <2>1 DEF CheckEligible
<1>10. ASSUME NEW t \in Taps, VerifyCard(t) PROVE TapsMatched'
  <2>1. Good([tap[t] EXCEPT !.phase = "insert"])
    BY <1>4, <1>10 DEF VerifyCard
  <2> HIDE DEF Good
  <2> QED BY <1>2, <1>3, <1>10, <2>1 DEF VerifyCard
<1>11. ASSUME NEW t \in Taps, Record(t) PROVE TapsMatched'
  <2> DEFINE rec == [class |-> tap[t].class, pupil |-> tap[t].pupil, method |-> tap[t].method]
  <2>1. UNCHANGED tokens /\ Stand(t, NoTap) /\ present' \subseteq present \cup {rec}
    BY <1>11 DEF Record, untapped
  <2>2. rec.method = "FACE" => MatchedIn(rec.class, rec.pupil)
    BY <1>4, <1>11 DEF Record
  <2> HIDE DEF rec
  <2>3. RecordedWhereMatched'
    BY <2>1, <2>2 DEF TapsMatched, RecordedWhereMatched, MatchedIn
  <2>4. \A u \in Taps : tap'[u] = IF u = t THEN NoTap ELSE tap[u]
    BY <2>1 DEF Stand, RecognitionTypeOK
  <2>5. \A k, s : MatchedIn(k, s)' <=> MatchedIn(k, s)
    BY <2>1 DEF MatchedIn
  <2> QED BY <1>3, <2>3, <2>4, <2>5 DEF TapsMatched
<1>12. CASE Second
  BY <1>1, <1>12 DEF Second
<1>13. ASSUME NEW s \in Pupils, GiveConsent(s) \/ WithdrawConsent(s) \/ Reroster(s) \/ DeletePupil(s) \/ RemoveEnrolment(s)
       PROVE  TapsMatched'
  BY <1>1, <1>13 DEF GiveConsent, WithdrawConsent, Reroster, DeletePupil, RemoveEnrolment, unattended
<1>14. ASSUME NEW e \in Enrolments,
              (\E s \in Pupils : AskEnrolment(e, s)) \/ EmbedPhotos(e) \/ CompareOthers(e) \/ SaveEnrolment(e)
       PROVE  TapsMatched'
  BY <1>1, <1>14 DEF AskEnrolment, EmbedPhotos, CompareOthers, SaveEnrolment, unattended
<1>15. ASSUME NEW c \in Cards, RevokeCard(c) \/ \E s \in Pupils : EnrolCard(c, s) PROVE TapsMatched'
  BY <1>1, <1>15 DEF RevokeCard, EnrolCard, unattended
<1>16. ASSUME NEW k \in Lessons, EndClass(k) PROVE TapsMatched'
  BY <1>1, <1>16 DEF EndClass
<1>17. CASE UNCHANGED recognitionVars
  BY <1>1, <1>17 DEF recognitionVars
<1> QED BY <1>5, <1>6, <1>7, <1>8, <1>9, <1>10, <1>11, <1>12, <1>13, <1>14, <1>15, <1>16, <1>17 DEF RecognitionNext

-----------------------------------------------------------------------------
(* One face under two names.                                                *)

\* What an enrolment about to be written was compared with shows nobody like it.
ComparedFaces ==
  \A e \in Enrolments : enrolling[e].phase = "save" =>
    \A t \in Pupils \ {enrolling[e].pupil} : \A p \in enrolling[e].photos, q \in enrolling[e].others[t] :
      Likeness(p, q) < DuplicateThreshold

LEMMA NoClashNoLikeness ==
  ASSUME RecognitionAssumption, NEW photos \in SUBSET Photos, NEW s, NEW held \in [Pupils -> SUBSET Photos],
         ~Clashes(photos, s, held)
  PROVE  \A t \in Pupils \ {s} : \A p \in photos, q \in held[t] : Likeness(p, q) < DuplicateThreshold
<1> SUFFICES ASSUME NEW t \in Pupils \ {s}, NEW p \in photos, NEW q \in held[t] PROVE Likeness(p, q) < DuplicateThreshold
  OBVIOUS
<1> DEFINE S == {u \in Pupils \ {s} : held[u] # {}}
           others == SetToSeq(S)
           n == Cardinality(S)
<1>1. S \in SUBSET Pupils /\ IsFiniteSet(S) /\ t \in S /\ p \in Photos /\ q \in Photos
  BY FS_Subset DEF RecognitionAssumption
<1>2. BestMatch(p, others, held, DuplicateThreshold, 0) = Stranger
  BY DEF Clashes
<1> HIDE DEF S
<1>3. n \in Nat /\ EachOnce(others, n) /\ \E i \in 1 .. n : others[i] = t
  BY <1>1, OneOrder
<1>4. DuplicateThreshold \in Int /\ 0 \in Int /\ 0 <= 0
  BY DEF RecognitionAssumption
<1> HIDE DEF n, others
<1>5. \A i \in 1 .. n : ScoreOf(p, held[others[i]]) < DuplicateThreshold
  BY <1>1, <1>2, <1>3, <1>4, BestMatchIsClear
<1>6. Likeness(p, q) <= ScoreOf(p, held[t]) /\ ScoreOf(p, held[t]) \in Int
  BY <1>1, ScoreOfType
<1>7. Likeness(p, q) \in Int
  BY <1>1 DEF RecognitionAssumption
<1> QED BY <1>3, <1>4, <1>5, <1>6, <1>7

LEMMA ComparedFacesNext ==
  ASSUME RecognitionAssumption, RecognitionTypeOK, ComparedFaces, [RecognitionNext]_recognitionVars
  PROVE  ComparedFaces'
<1>1. CASE UNCHANGED enrolling
  BY <1>1 DEF ComparedFaces
<1>2. ASSUME NEW e \in Enrolments, NEW rec, enrolling' = [enrolling EXCEPT ![e] = rec], rec.phase # "save"
      PROVE  ComparedFaces'
  BY <1>2 DEF ComparedFaces, RecognitionTypeOK
<1>3. NotEnrolling.phase # "save"
  BY DEF NotEnrolling
<1>4. ASSUME NEW e \in Enrolments, NEW s \in Pupils, AskEnrolment(e, s) PROVE ComparedFaces'
  <2>1. [NotEnrolling EXCEPT !.phase = "photos", !.pupil = s].phase # "save"
    BY DEF NotEnrolling
  <2> QED BY <1>2, <1>4, <2>1 DEF AskEnrolment
<1>5. ASSUME NEW e \in Enrolments, EmbedPhotos(e) PROVE ComparedFaces'
  <2>1. \A photos : [enrolling[e] EXCEPT !.phase = "others", !.photos = photos].phase # "save"
    BY DEF RecognitionTypeOK
  <2> QED BY <1>2, <1>3, <1>5, <2>1 DEF EmbedPhotos
<1>6. ASSUME NEW e \in Enrolments, CompareOthers(e) PROVE ComparedFaces'
  <2> DEFINE rec == [enrolling[e] EXCEPT !.phase = "save", !.others = template]
  <2>0. enrolling[e].photos \in SUBSET Photos /\ template \in [Pupils -> SUBSET Photos]
    BY DEF RecognitionTypeOK
  <2>1. CASE Clashes(enrolling[e].photos, enrolling[e].pupil, template)
    BY <1>2, <1>3, <1>6, <2>1 DEF CompareOthers
  <2>2. CASE ~Clashes(enrolling[e].photos, enrolling[e].pupil, template)
    <3>1. \A t \in Pupils \ {enrolling[e].pupil} : \A p \in enrolling[e].photos, q \in template[t] : Likeness(p, q) < DuplicateThreshold
      BY <2>0, <2>2, NoClashNoLikeness
    <3>2. rec.photos = enrolling[e].photos /\ rec.pupil = enrolling[e].pupil /\ rec.others = template
      BY DEF RecognitionTypeOK
    <3>3. enrolling' = [enrolling EXCEPT ![e] = rec]
      BY <1>6, <2>2 DEF CompareOthers
    <3> HIDE DEF rec
    <3>4. \A d \in Enrolments : enrolling'[d] = IF d = e THEN rec ELSE enrolling[d]
      BY <3>3 DEF RecognitionTypeOK
    <3> QED BY <3>1, <3>2, <3>4 DEF ComparedFaces
  <2> QED BY <2>1, <2>2
<1>7. ASSUME NEW e \in Enrolments, SaveEnrolment(e) PROVE ComparedFaces'
  BY <1>2, <1>3, <1>7 DEF SaveEnrolment
<1>8. ASSUME NEW s \in Pupils, GiveConsent(s) \/ WithdrawConsent(s) \/ Reroster(s) \/ DeletePupil(s) \/ RemoveEnrolment(s)
      PROVE  ComparedFaces'
  BY <1>1, <1>8 DEF GiveConsent, WithdrawConsent, Reroster, DeletePupil, RemoveEnrolment
<1>9. ASSUME NEW c \in Cards, RevokeCard(c) \/ \E s \in Pupils : EnrolCard(c, s) PROVE ComparedFaces'
  BY <1>1, <1>9 DEF RevokeCard, EnrolCard
<1>10. ASSUME NEW t \in Taps,
         \/ \E k \in Lessons : SendFace(t, k) \/ ReadCard(t, k) \/ \E token \in tokens : ConfirmFace(t, token, k)
         \/ IdentifyFace(t) \/ CheckEligible(t) \/ VerifyCard(t) \/ Record(t)
       PROVE  ComparedFaces'
  BY <1>1, <1>10 DEF SendFace, ReadCard, ConfirmFace, IdentifyFace, CheckEligible, VerifyCard, Record, untapped
<1>11. ASSUME NEW k \in Lessons, EndClass(k) PROVE ComparedFaces'
  BY <1>1, <1>11 DEF EndClass
<1>12. CASE Second \/ UNCHANGED recognitionVars
  BY <1>1, <1>12 DEF Second, recognitionVars
<1> QED BY <1>4, <1>5, <1>6, <1>7, <1>8, <1>9, <1>10, <1>11, <1>12 DEF RecognitionNext

\* A step that stores a face under a second name writes over a comparison made before the first was stored.
LEMMA SecondNameStep ==
  ASSUME RecognitionAssumption, RecognitionTypeOK, ComparedFaces, [RecognitionNext]_recognitionVars
  PROVE  SecondNameOnlyByOverlapStep
<1> SUFFICES ASSUME NEW s \in Pupils, NEW t \in Pupils, s # t, template'[s] # template[s],
                    NEW p \in template'[s], NEW q \in template[t], Likeness(p, q) >= DuplicateThreshold
             PROVE  \E e \in Enrolments : enrolling[e].phase = "save" /\ enrolling[e].pupil = s /\ enrolling[e].others[t] # template[t]
  BY DEF SecondNameOnlyByOverlapStep
<1>1. ASSUME NEW e \in Enrolments, SaveEnrolment(e)
      PROVE  enrolling[e].phase = "save" /\ enrolling[e].pupil = s /\ enrolling[e].others[t] # template[t]
  <2>1. enrolling[e].phase = "save" /\ enrolling[e].pupil = s /\ p \in enrolling[e].photos
    BY <1>1 DEF SaveEnrolment, RecognitionTypeOK
  <2>2. ASSUME q \in enrolling[e].others[t] PROVE FALSE
    <3>1. Likeness(p, q) < DuplicateThreshold
      BY <2>1, <2>2 DEF ComparedFaces
    <3>2. p \in Photos /\ q \in Photos
      BY <2>1 DEF RecognitionTypeOK
    <3>3. Likeness(p, q) \in Int /\ DuplicateThreshold \in Int
      BY <3>2 DEF RecognitionAssumption
    <3> QED BY <3>1, <3>3
  <2> QED BY <2>1, <2>2
<1>2. template' # template
  OBVIOUS
<1>3. ASSUME NEW u \in Pupils PROVE template' # [template EXCEPT ![u] = {}]
  BY DEF RecognitionTypeOK
<1>4. ASSUME NEW u \in Pupils, GiveConsent(u) \/ WithdrawConsent(u) \/ Reroster(u) \/ DeletePupil(u) \/ RemoveEnrolment(u)
      PROVE  FALSE
  <2>1. CASE GiveConsent(u) \/ Reroster(u)
    BY <1>2, <2>1 DEF GiveConsent, Reroster
  <2>2. CASE WithdrawConsent(u) \/ DeletePupil(u) \/ RemoveEnrolment(u)
    BY <1>3, <2>2 DEF WithdrawConsent, DeletePupil, RemoveEnrolment
  <2> QED BY <1>4, <2>1, <2>2
<1>5. ASSUME NEW e \in Enrolments, EmbedPhotos(e) \/ CompareOthers(e) \/ \E u \in Pupils : AskEnrolment(e, u) PROVE FALSE
  BY <1>2, <1>5 DEF EmbedPhotos, CompareOthers, AskEnrolment
<1>6. ASSUME NEW c \in Cards, RevokeCard(c) \/ \E u \in Pupils : EnrolCard(c, u) PROVE FALSE
  BY <1>2, <1>6 DEF RevokeCard, EnrolCard
<1>7. ASSUME NEW x \in Taps,
         \/ \E k \in Lessons : SendFace(x, k) \/ ReadCard(x, k) \/ \E token \in tokens : ConfirmFace(x, token, k)
         \/ IdentifyFace(x) \/ CheckEligible(x) \/ VerifyCard(x) \/ Record(x)
      PROVE FALSE
  BY <1>2, <1>7 DEF SendFace, ReadCard, ConfirmFace, IdentifyFace, CheckEligible, VerifyCard, Record, untapped
<1>8. ASSUME NEW k \in Lessons, EndClass(k) PROVE FALSE
  BY <1>2, <1>8 DEF EndClass
<1>9. CASE Second \/ UNCHANGED recognitionVars
  BY <1>2, <1>9 DEF Second, recognitionVars
<1> QED BY <1>1, <1>4, <1>5, <1>6, <1>7, <1>8, <1>9 DEF RecognitionNext

\* What holds of every state.
RecognitionInv == RecognitionTypeOK /\ TapsMatched /\ ComparedFaces

LEMMA RecognitionInductive ==
  ASSUME RecognitionAssumption
  PROVE  /\ RecognitionInit => RecognitionInv
         /\ RecognitionInv /\ [RecognitionNext]_recognitionVars => RecognitionInv'
         /\ RecognitionInv => RecordedWhereMatched
<1>1. RecognitionInit => TapsMatched /\ ComparedFaces
  BY DEF RecognitionInit, TapsMatched, RecordedWhereMatched, NoTap, ComparedFaces, NotEnrolling
<1>2. TapsMatched => RecordedWhereMatched
  BY DEF TapsMatched
<1> QED BY <1>1, <1>2, RecognitionInitTypeOK, RecognitionNextTypeOK, TapsMatchedNext, ComparedFacesNext DEF RecognitionInv

\* Nobody is recorded by face in a class without a match made in that very class,
\* for any number of classes, tokens held and requests under way.
THEOREM FaceRecordedWhereMatched == ASSUME RecognitionAssumption PROVE RecognitionSpec => []RecordedWhereMatched
BY RecognitionInductive, PTL DEF RecognitionSpec

LEMMA RecognitionSteps ==
  ASSUME RecognitionAssumption, RecognitionInv, [RecognitionNext]_recognitionVars PROVE SecondNameOnlyByOverlapStep
BY SecondNameStep DEF RecognitionInv

(* One face is stored under two names only when the other name was enrolled *)
(* between this enrolment's comparison and its write, however many photos,  *)
(* pupils and requests there are (verification.service.ts enrollFace).      *)
THEOREM SecondNameNeedsOverlap ==
  ASSUME RecognitionAssumption
  PROVE  RecognitionSpec => SecondNameOnlyByOverlap
BY RecognitionInductive, RecognitionSteps, PTL DEF RecognitionSpec, SecondNameOnlyByOverlap

-----------------------------------------------------------------------------
(* Exam rooms.  A room's row always holds the candidates of one version of  *)
(* the plan.  A push that no other overlaps leaves only its own rooms on    *)
(* the paper, so these hold the candidates of one version.                  *)

Plans == [seat : [Sitters -> Halls \cup {Unseated}], invigilator : [Halls -> Invigilating], ends : EndTimes]
HallRows ==
  [pushed : BOOLEAN, withdrawn : BOOLEAN, seats : SUBSET Sitters, staff : Invigilating \cup {Unseated}, ends : EndTimes \cup {0},
   status : {"NONE", "OPEN", "CLOSED"}, code : Nat, closes : EndTimes \cup {0}, fenced : BOOLEAN]
RoomRequests ==
  [does : {"nothing", "open", "sit"}, hall : Halls \cup {Unseated}, sitter : Sitters \cup {Unseated}, row : HallRows,
   fenced : BOOLEAN, code : Nat]

PushRows ==
  [at : {"idle", "writing", "withdrawing"}, version : PushedVersions \cup {0}, todo : SUBSET Halls,
   written : SUBSET Halls, left : SUBSET Halls, alone : BOOLEAN]

ExamRoomsTypeOK ==
  /\ plan \in [PushedVersions -> Plans]
  /\ hall \in [Halls -> HallRows]
  /\ sat \subseteq [hall : Halls, sitter : Sitters]
  /\ shown \in [Halls -> [code : Nat, at : Nat]]
  /\ device \in [Handhelds -> RoomRequests]
  /\ \A d \in Handhelds : (device[d].does # "nothing" => device[d].hall \in Halls) /\ (device[d].does = "sit" => device[d].sitter \in Sitters)
  /\ minute \in Nat /\ requests \in Nat
  /\ pushing \in [Pushes -> PushRows]
  /\ \A p \in Pushes : pushing[p].at # "idle" => pushing[p].version \in PushedVersions
  /\ arrived \in Nat /\ mixed \in BOOLEAN

PlacedAs(row, S, staff, t) ==
  [row EXCEPT !.pushed = TRUE, !.withdrawn = FALSE, !.seats = S, !.staff = staff, !.ends = t]

LEMMA PlacedAsTypeOK ==
  ASSUME NEW row \in HallRows, NEW S \in SUBSET Sitters, NEW staff \in Invigilating, NEW t \in EndTimes
  PROVE  PlacedAs(row, S, staff, t) \in HallRows
BY DEF PlacedAs, HallRows

\* The fields of a room's row that a step sets, one at a time.
LEMMA HallFields ==
  ASSUME NEW row \in HallRows
  PROVE  /\ [row EXCEPT !.withdrawn = TRUE] \in HallRows
         /\ [row EXCEPT !.status = "CLOSED"] \in HallRows
         /\ \A c \in Nat, t \in EndTimes \cup {0}, b \in BOOLEAN :
              [row EXCEPT !.status = "OPEN", !.code = c, !.closes = t, !.fenced = b] \in HallRows
<1>1. [row EXCEPT !.withdrawn = TRUE] \in HallRows
  BY DEF HallRows
<1>2. [row EXCEPT !.status = "CLOSED"] \in HallRows
  BY DEF HallRows
<1>3. ASSUME NEW c \in Nat, NEW t \in EndTimes \cup {0}, NEW b \in BOOLEAN
      PROVE  [row EXCEPT !.status = "OPEN", !.code = c, !.closes = t, !.fenced = b] \in HallRows
  BY DEF HallRows
<1> QED BY <1>1, <1>2, <1>3

LEMMA ExamRoomsInitTypeOK ==
  ASSUME ExamRoomsAssumption, ExamRoomsInit PROVE ExamRoomsTypeOK
<1>1. Unpushed \in HallRows
  BY DEF Unpushed, HallRows, NoCode
<1>2. NoRequest \in RoomRequests /\ NoRequest.does = "nothing"
  BY <1>1 DEF NoRequest, RoomRequests, NoCode
<1>3. NoPush \in PushRows /\ NoPush.at = "idle"
  BY DEF NoPush, PushRows
<1> QED BY <1>1, <1>2, <1>3 DEF ExamRoomsInit, ExamRoomsTypeOK, Plans, NoCode

\* What a push's step makes of its transaction: first, for fields of any sets.
PushesOf(A, B, C, D) == [at : A, version : B, todo : C, written : C, left : C, alone : D]

WrotePush(r, x, y) == [r EXCEPT !.todo = x, !.written = y]
LeftOutPush(r, x, y) == [r EXCEPT !.todo = x, !.left = y]
SweptPush(r, a, x) == [r EXCEPT !.at = a, !.todo = x]
JoinedPush(r, b) == [r EXCEPT !.alone = b]
BegunPush(r, a, v, x, b) == [r EXCEPT !.at = a, !.version = v, !.todo = x, !.alone = b]

LEMMA WroteRow ==
  ASSUME NEW A, NEW B, NEW C, NEW D, NEW r \in PushesOf(A, B, C, D), NEW x \in C, NEW y \in C
  PROVE  /\ WrotePush(r, x, y) \in PushesOf(A, B, C, D)
         /\ WrotePush(r, x, y).at = r.at
         /\ WrotePush(r, x, y).version = r.version
         /\ WrotePush(r, x, y).todo = x
         /\ WrotePush(r, x, y).written = y
         /\ WrotePush(r, x, y).left = r.left
         /\ WrotePush(r, x, y).alone = r.alone
<1>1. WrotePush(r, x, y).at = r.at
  BY DEF WrotePush, PushesOf
<1>2. WrotePush(r, x, y).version = r.version
  BY DEF WrotePush, PushesOf
<1>3. WrotePush(r, x, y).todo = x
  BY DEF WrotePush, PushesOf
<1>4. WrotePush(r, x, y).written = y
  BY DEF WrotePush, PushesOf
<1>5. WrotePush(r, x, y).left = r.left
  BY DEF WrotePush, PushesOf
<1>6. WrotePush(r, x, y).alone = r.alone
  BY DEF WrotePush, PushesOf
<1>7. WrotePush(r, x, y) \in PushesOf(A, B, C, D)
  BY DEF WrotePush, PushesOf
<1> QED BY <1>1, <1>2, <1>3, <1>4, <1>5, <1>6, <1>7

LEMMA LeftOutRow ==
  ASSUME NEW A, NEW B, NEW C, NEW D, NEW r \in PushesOf(A, B, C, D), NEW x \in C, NEW y \in C
  PROVE  /\ LeftOutPush(r, x, y) \in PushesOf(A, B, C, D)
         /\ LeftOutPush(r, x, y).at = r.at
         /\ LeftOutPush(r, x, y).version = r.version
         /\ LeftOutPush(r, x, y).todo = x
         /\ LeftOutPush(r, x, y).written = r.written
         /\ LeftOutPush(r, x, y).left = y
         /\ LeftOutPush(r, x, y).alone = r.alone
<1>1. LeftOutPush(r, x, y).at = r.at
  BY DEF LeftOutPush, PushesOf
<1>2. LeftOutPush(r, x, y).version = r.version
  BY DEF LeftOutPush, PushesOf
<1>3. LeftOutPush(r, x, y).todo = x
  BY DEF LeftOutPush, PushesOf
<1>4. LeftOutPush(r, x, y).written = r.written
  BY DEF LeftOutPush, PushesOf
<1>5. LeftOutPush(r, x, y).left = y
  BY DEF LeftOutPush, PushesOf
<1>6. LeftOutPush(r, x, y).alone = r.alone
  BY DEF LeftOutPush, PushesOf
<1>7. LeftOutPush(r, x, y) \in PushesOf(A, B, C, D)
  BY DEF LeftOutPush, PushesOf
<1> QED BY <1>1, <1>2, <1>3, <1>4, <1>5, <1>6, <1>7

LEMMA SweptRow ==
  ASSUME NEW A, NEW B, NEW C, NEW D, NEW r \in PushesOf(A, B, C, D), NEW a \in A, NEW x \in C
  PROVE  /\ SweptPush(r, a, x) \in PushesOf(A, B, C, D)
         /\ SweptPush(r, a, x).at = a
         /\ SweptPush(r, a, x).version = r.version
         /\ SweptPush(r, a, x).todo = x
         /\ SweptPush(r, a, x).written = r.written
         /\ SweptPush(r, a, x).left = r.left
         /\ SweptPush(r, a, x).alone = r.alone
<1>1. SweptPush(r, a, x).at = a
  BY DEF SweptPush, PushesOf
<1>2. SweptPush(r, a, x).version = r.version
  BY DEF SweptPush, PushesOf
<1>3. SweptPush(r, a, x).todo = x
  BY DEF SweptPush, PushesOf
<1>4. SweptPush(r, a, x).written = r.written
  BY DEF SweptPush, PushesOf
<1>5. SweptPush(r, a, x).left = r.left
  BY DEF SweptPush, PushesOf
<1>6. SweptPush(r, a, x).alone = r.alone
  BY DEF SweptPush, PushesOf
<1>7. SweptPush(r, a, x) \in PushesOf(A, B, C, D)
  BY DEF SweptPush, PushesOf
<1> QED BY <1>1, <1>2, <1>3, <1>4, <1>5, <1>6, <1>7

LEMMA JoinedRow ==
  ASSUME NEW A, NEW B, NEW C, NEW D, NEW r \in PushesOf(A, B, C, D), NEW b \in D
  PROVE  /\ JoinedPush(r, b) \in PushesOf(A, B, C, D)
         /\ JoinedPush(r, b).at = r.at
         /\ JoinedPush(r, b).version = r.version
         /\ JoinedPush(r, b).todo = r.todo
         /\ JoinedPush(r, b).written = r.written
         /\ JoinedPush(r, b).left = r.left
         /\ JoinedPush(r, b).alone = b
<1>1. JoinedPush(r, b).at = r.at
  BY DEF JoinedPush, PushesOf
<1>2. JoinedPush(r, b).version = r.version
  BY DEF JoinedPush, PushesOf
<1>3. JoinedPush(r, b).todo = r.todo
  BY DEF JoinedPush, PushesOf
<1>4. JoinedPush(r, b).written = r.written
  BY DEF JoinedPush, PushesOf
<1>5. JoinedPush(r, b).left = r.left
  BY DEF JoinedPush, PushesOf
<1>6. JoinedPush(r, b).alone = b
  BY DEF JoinedPush, PushesOf
<1>7. JoinedPush(r, b) \in PushesOf(A, B, C, D)
  BY DEF JoinedPush, PushesOf
<1> QED BY <1>1, <1>2, <1>3, <1>4, <1>5, <1>6, <1>7

LEMMA BegunRow ==
  ASSUME NEW A, NEW B, NEW C, NEW D, NEW r \in PushesOf(A, B, C, D), NEW a \in A, NEW v \in B, NEW x \in C, NEW b \in D
  PROVE  /\ BegunPush(r, a, v, x, b) \in PushesOf(A, B, C, D)
         /\ BegunPush(r, a, v, x, b).at = a
         /\ BegunPush(r, a, v, x, b).version = v
         /\ BegunPush(r, a, v, x, b).todo = x
         /\ BegunPush(r, a, v, x, b).written = r.written
         /\ BegunPush(r, a, v, x, b).left = r.left
         /\ BegunPush(r, a, v, x, b).alone = b
<1>1. BegunPush(r, a, v, x, b).at = a
  BY DEF BegunPush, PushesOf
<1>2. BegunPush(r, a, v, x, b).version = v
  BY DEF BegunPush, PushesOf
<1>3. BegunPush(r, a, v, x, b).todo = x
  BY DEF BegunPush, PushesOf
<1>4. BegunPush(r, a, v, x, b).written = r.written
  BY DEF BegunPush, PushesOf
<1>5. BegunPush(r, a, v, x, b).left = r.left
  BY DEF BegunPush, PushesOf
<1>6. BegunPush(r, a, v, x, b).alone = b
  BY DEF BegunPush, PushesOf
<1>7. BegunPush(r, a, v, x, b) \in PushesOf(A, B, C, D)
  BY DEF BegunPush, PushesOf
<1> QED BY <1>1, <1>2, <1>3, <1>4, <1>5, <1>6, <1>7

LEMMA PushRowsAre ==
  PushRows = PushesOf({"idle", "writing", "withdrawing"}, PushedVersions \cup {0}, SUBSET Halls, BOOLEAN)
BY DEF PushRows, PushesOf

LEMMA PushSets ==
  ASSUME NEW r \in PushRows
  PROVE  r.todo \in SUBSET Halls /\ r.written \in SUBSET Halls /\ r.left \in SUBSET Halls
BY DEF PushRows

LEMMA WroteFields ==
  ASSUME NEW r \in PushRows, NEW h \in Halls
  PROVE  LET new == [r EXCEPT !.todo = @ \ {h}, !.written = @ \cup {h}]
         IN /\ new \in PushRows /\ new.at = r.at /\ new.version = r.version /\ new.alone = r.alone
            /\ new.todo = r.todo \ {h} /\ new.written = r.written \cup {h} /\ new.left = r.left
<1> DEFINE x == r.todo \ {h}
           y == r.written \cup {h}
<1>1. x \in SUBSET Halls /\ y \in SUBSET Halls
  BY PushSets
<1>2. [r EXCEPT !.todo = @ \ {h}, !.written = @ \cup {h}] = WrotePush(r, x, y)
  BY DEF WrotePush
<1> HIDE DEF x, y
<1> DEFINE A == {"idle", "writing", "withdrawing"}
           B == PushedVersions \cup {0}
           C == SUBSET Halls
           D == BOOLEAN
<1>3. PushRows = PushesOf(A, B, C, D)
  BY PushRowsAre
<1>4. x \in C /\ y \in C
  BY <1>1
<1> HIDE DEF A, B, C, D
<1>5. /\ WrotePush(r, x, y) \in PushRows /\ WrotePush(r, x, y).at = r.at /\ WrotePush(r, x, y).version = r.version
      /\ WrotePush(r, x, y).alone = r.alone /\ WrotePush(r, x, y).todo = x /\ WrotePush(r, x, y).written = y
      /\ WrotePush(r, x, y).left = r.left
  BY ONLY <1>3, <1>4, WroteRow, r \in PushRows
<1> QED BY ONLY <1>2, <1>5 DEF x, y

LEMMA LeftOutFields ==
  ASSUME NEW r \in PushRows, NEW x \in SUBSET Halls, NEW y \in SUBSET Halls
  PROVE  /\ LeftOutPush(r, x, y) \in PushRows /\ LeftOutPush(r, x, y).at = r.at /\ LeftOutPush(r, x, y).version = r.version
         /\ LeftOutPush(r, x, y).alone = r.alone /\ LeftOutPush(r, x, y).todo = x
         /\ LeftOutPush(r, x, y).written = r.written /\ LeftOutPush(r, x, y).left = y
<1> DEFINE A == {"idle", "writing", "withdrawing"}
           B == PushedVersions \cup {0}
           C == SUBSET Halls
           D == BOOLEAN
<1>1. PushRows = PushesOf(A, B, C, D)
  BY PushRowsAre
<1>2. x \in C /\ y \in C
  OBVIOUS
<1> HIDE DEF A, B, C, D
<1> QED BY ONLY <1>1, <1>2, LeftOutRow, r \in PushRows

LEMMA SweptFields ==
  ASSUME NEW r \in PushRows, NEW S \in SUBSET Halls
  PROVE  LET new == [r EXCEPT !.at = "withdrawing", !.todo = S]
         IN /\ new \in PushRows /\ new.at = "withdrawing" /\ new.version = r.version /\ new.alone = r.alone
            /\ new.todo = S /\ new.written = r.written /\ new.left = r.left
<1> DEFINE A == {"idle", "writing", "withdrawing"}
           B == PushedVersions \cup {0}
           C == SUBSET Halls
           D == BOOLEAN
           a == "withdrawing"
<1>1. [r EXCEPT !.at = "withdrawing", !.todo = S] = SweptPush(r, a, S)
  BY DEF SweptPush
<1>2. PushRows = PushesOf(A, B, C, D)
  BY PushRowsAre
<1>3. a \in A /\ S \in C
  OBVIOUS
<1> HIDE DEF A, B, C, D, a
<1>4. /\ SweptPush(r, a, S) \in PushRows /\ SweptPush(r, a, S).at = a /\ SweptPush(r, a, S).version = r.version
      /\ SweptPush(r, a, S).alone = r.alone /\ SweptPush(r, a, S).todo = S /\ SweptPush(r, a, S).written = r.written
      /\ SweptPush(r, a, S).left = r.left
  BY ONLY <1>2, <1>3, SweptRow, r \in PushRows
<1> QED BY ONLY <1>1, <1>4 DEF a

LEMMA JoinedFields ==
  ASSUME NEW r \in PushRows
  PROVE  LET new == [r EXCEPT !.alone = FALSE]
         IN /\ new \in PushRows /\ new.at = r.at /\ new.version = r.version /\ new.alone = FALSE
            /\ new.todo = r.todo /\ new.written = r.written /\ new.left = r.left
<1> DEFINE A == {"idle", "writing", "withdrawing"}
           B == PushedVersions \cup {0}
           C == SUBSET Halls
           D == BOOLEAN
           no == FALSE
<1>1. [r EXCEPT !.alone = FALSE] = JoinedPush(r, no)
  BY DEF JoinedPush
<1>2. PushRows = PushesOf(A, B, C, D)
  BY PushRowsAre
<1>3. no \in D
  OBVIOUS
<1> HIDE DEF A, B, C, D, no
<1>4. /\ JoinedPush(r, no) \in PushRows /\ JoinedPush(r, no).at = r.at /\ JoinedPush(r, no).version = r.version
      /\ JoinedPush(r, no).alone = no /\ JoinedPush(r, no).todo = r.todo /\ JoinedPush(r, no).written = r.written
      /\ JoinedPush(r, no).left = r.left
  BY ONLY <1>2, <1>3, JoinedRow, r \in PushRows
<1> QED BY ONLY <1>1, <1>4 DEF no

LEMMA NoPushIs ==
  /\ NoPush \in PushRows /\ NoPush.at = "idle" /\ NoPush.alone = FALSE /\ NoPush.written = {} /\ NoPush.left = {}
BY DEF NoPush, PushRows

LEMMA BegunFields ==
  ASSUME NEW v \in PushedVersions, NEW S \in SUBSET Halls, NEW b \in BOOLEAN
  PROVE  LET new == BegunPush(NoPush, "writing", v, S, b)
         IN /\ new \in PushRows /\ new.at = "writing" /\ new.version = v /\ new.alone = b
            /\ new.todo = S /\ new.written = {} /\ new.left = {}
<1> DEFINE A == {"idle", "writing", "withdrawing"}
           B == PushedVersions \cup {0}
           C == SUBSET Halls
           D == BOOLEAN
           a == "writing"
<1>2. PushRows = PushesOf(A, B, C, D)
  BY PushRowsAre
<1>3. a \in A /\ v \in B /\ S \in C /\ b \in D
  OBVIOUS
<1> HIDE DEF A, B, C, D, a
<1>4. NoPush \in PushesOf(A, B, C, D)
  BY <1>2, NoPushIs
<1>5. /\ BegunPush(NoPush, a, v, S, b) \in PushRows /\ BegunPush(NoPush, a, v, S, b).at = a
      /\ BegunPush(NoPush, a, v, S, b).version = v /\ BegunPush(NoPush, a, v, S, b).alone = b
      /\ BegunPush(NoPush, a, v, S, b).todo = S /\ BegunPush(NoPush, a, v, S, b).written = NoPush.written
      /\ BegunPush(NoPush, a, v, S, b).left = NoPush.left
  BY ONLY <1>2, <1>3, <1>4, BegunRow
<1> QED BY <1>5, NoPushIs DEF a

\* The step of one push, as a step of its transaction or of all of them.
PushMoves(p) ==
  (\E v \in PushedVersions : Arrive(p, v)) \/ (\E h \in Halls : WriteRow(p, h) \/ WithdrawRow(p, h))
    \/ BeginWithdrawing(p) \/ Commit(p) \/ RollBack(p)

LEMMA PlacedTypeOK ==
  ASSUME ExamRoomsTypeOK, NEW h \in Halls, NEW v \in PushedVersions
  PROVE  Placed(hall[h], v, h) \in HallRows
<1> DEFINE S == SeatedIn(v, h)
           staff == plan[v].invigilator[h]
           t == plan[v].ends
<1>1. hall[h] \in HallRows /\ S \in SUBSET Sitters /\ staff \in Invigilating /\ t \in EndTimes
  BY DEF ExamRoomsTypeOK, SeatedIn, Plans
<1>2. Placed(hall[h], v, h) = PlacedAs(hall[h], S, staff, t)
  BY DEF Placed, PlacedAs
<1> HIDE DEF S, staff, t
<1> QED BY ONLY <1>1, <1>2, PlacedAsTypeOK

LEMMA ArriveTypeOK ==
  ASSUME ExamRoomsTypeOK, NEW p \in Pushes, NEW v \in PushedVersions, Arrive(p, v)
  PROVE  ExamRoomsTypeOK'
<1> DEFINE others == {q \in Pushes : pushing[q] # NoPush}
           begun == [NoPush EXCEPT !.at = "writing", !.version = v, !.todo = RoomsOf(v), !.alone = others = {}]
<1>1. RoomsOf(v) \in SUBSET Halls /\ (others = {}) \in BOOLEAN
  BY DEF RoomsOf
<1>2. begun \in PushRows /\ begun.at = "writing" /\ begun.version = v
  <2> DEFINE S == RoomsOf(v)
             b == others = {}
  <2>1. S \in SUBSET Halls /\ b \in BOOLEAN
    BY <1>1
  <2> HIDE DEF S, b
  <2>2. LET new == BegunPush(NoPush, "writing", v, S, b)
        IN new \in PushRows /\ new.at = "writing" /\ new.version = v
    BY ONLY <2>1, BegunFields, v \in PushedVersions
  <2>3. begun = BegunPush(NoPush, "writing", v, S, b)
    BY DEF S, b, BegunPush
  <2> HIDE DEF begun
  <2> QED BY ONLY <2>2, <2>3 DEF S, b
<1>3. pushing' = [q \in Pushes |-> IF q = p THEN begun
                                   ELSE IF q \in others THEN [pushing[q] EXCEPT !.alone = FALSE] ELSE NoPush]
  BY DEF Arrive
<1> HIDE DEF begun
<1>4. ASSUME NEW q \in Pushes
      PROVE  pushing'[q] \in PushRows /\ (pushing'[q].at # "idle" => pushing'[q].version \in PushedVersions)
  <2>1. pushing[q] \in PushRows /\ (pushing[q].at # "idle" => pushing[q].version \in PushedVersions)
    BY DEF ExamRoomsTypeOK
  <2>2. CASE q = p
    BY <1>2, <1>3, <2>2
  <2>3. CASE q # p /\ q \in others
    <3>1. pushing'[q] = [pushing[q] EXCEPT !.alone = FALSE]
      BY <1>3, <2>3
    <3> QED BY <2>1, <3>1, JoinedFields
  <2>4. CASE q # p /\ q \notin others
    BY <1>3, <2>4, NoPushIs
  <2> QED BY <2>2, <2>3, <2>4
<1>5. pushing' \in [Pushes -> PushRows]
  <2>1. pushing' = [q \in Pushes |-> pushing'[q]]
    BY <1>3
  <2> QED BY <1>4, <2>1, Zenon
<1>6. UNCHANGED <<plan, hall, sat, shown, device, minute, requests, mixed>> /\ arrived' = arrived + 1
  BY DEF Arrive, roomVars
<1> QED BY <1>4, <1>5, <1>6 DEF ExamRoomsTypeOK

\* A step of p's transaction that leaves it with the row new.
LEMMA PushStepTypeOK ==
  ASSUME ExamRoomsTypeOK, NEW p \in Pushes, NEW new \in PushRows, PushStep(p, new),
         new.at # "idle" => new.version \in PushedVersions
  PROVE  ExamRoomsTypeOK'
<1>1. pushing' = [pushing EXCEPT ![p] = new] /\ UNCHANGED <<plan, hall, sat, shown, device, minute, requests, arrived, mixed>>
  BY DEF PushStep, roomVars
<1>2. pushing' \in [Pushes -> PushRows] /\ \A q \in Pushes : pushing'[q] = IF q = p THEN new ELSE pushing[q]
  BY <1>1 DEF ExamRoomsTypeOK
<1> QED BY <1>1, <1>2 DEF ExamRoomsTypeOK

LEMMA CommitTypeOK ==
  ASSUME ExamRoomsTypeOK, NEW p \in Pushes, Commit(p)
  PROVE  ExamRoomsTypeOK'
<1> DEFINE v == pushing[p].version
<1>1. v \in PushedVersions
  BY DEF Commit, ExamRoomsTypeOK
<1>2. ASSUME NEW h \in Halls PROVE hall'[h] \in HallRows
  <2>1. \/ hall'[h] = Placed(hall[h], v, h) \/ hall'[h] = [hall[h] EXCEPT !.withdrawn = TRUE] \/ hall'[h] = hall[h]
    BY DEF Commit
  <2>2. hall[h] \in HallRows
    BY DEF ExamRoomsTypeOK
  <2>3. [hall[h] EXCEPT !.withdrawn = TRUE] \in HallRows
    BY <2>2, HallFields
  <2> HIDE DEF v
  <2> QED BY <1>1, <2>1, <2>2, <2>3, PlacedTypeOK
<1>3. hall' \in [Halls -> HallRows]
  <2>1. hall' = [h \in Halls |-> hall'[h]]
    BY DEF Commit
  <2> QED BY <1>2, <2>1, Zenon
<1>4. pushing' \in [Pushes -> PushRows] /\ \A q \in Pushes : pushing'[q] = IF q = p THEN NoPush ELSE pushing[q]
  BY NoPushIs DEF Commit, ExamRoomsTypeOK
<1>5. UNCHANGED <<plan, sat, shown, device, minute, requests, arrived>>
  BY DEF Commit, roomVars
<1>6. mixed' \in BOOLEAN
  BY DEF Commit
<1> QED BY <1>3, <1>4, <1>5, <1>6, NoPushIs DEF ExamRoomsTypeOK

LEMMA PushTypeOK ==
  ASSUME ExamRoomsTypeOK, NEW p \in Pushes, PushMoves(p)
  PROVE  ExamRoomsTypeOK'
<1>0. pushing[p] \in PushRows /\ (pushing[p].at # "idle" => pushing[p].version \in PushedVersions)
  BY DEF ExamRoomsTypeOK
<1>1. ASSUME NEW h \in Halls, WriteRow(p, h) PROVE ExamRoomsTypeOK'
  <2> DEFINE new == [pushing[p] EXCEPT !.todo = @ \ {h}, !.written = @ \cup {h}]
  <2>1. new \in PushRows /\ new.at = pushing[p].at /\ new.version = pushing[p].version
    BY <1>0, WroteFields
  <2>2. PushStep(p, new)
    BY <1>1 DEF WriteRow
  <2> HIDE DEF new
  <2> QED BY <1>0, <2>1, <2>2, PushStepTypeOK
<1>2. ASSUME NEW h \in Halls, WithdrawRow(p, h) PROVE ExamRoomsTypeOK'
  <2> DEFINE new == [pushing[p] EXCEPT !.todo = @ \ {h}, !.left = @ \cup ({h} \cap PaperRooms)]
  <2>0. PaperRooms \in SUBSET Halls
    BY DEF PaperRooms
  <2>1. new \in PushRows /\ new.at = pushing[p].at /\ new.version = pushing[p].version
    <3>1. PICK r, x, y : r = pushing[p] /\ x = r.todo \ {h} /\ y = r.left \cup ({h} \cap PaperRooms)
      OBVIOUS
    <3>2. new = LeftOutPush(r, x, y)
      BY <3>1 DEF LeftOutPush
    <3>3. r \in PushRows /\ x \in SUBSET Halls /\ y \in SUBSET Halls
      BY <1>0, <2>0, <3>1, PushSets
    <3> HIDE DEF new
    <3>4. new \in PushRows /\ new.at = r.at /\ new.version = r.version
      BY ONLY <3>2, <3>3, LeftOutFields
    <3> QED BY <3>1, <3>4
  <2>2. PushStep(p, new)
    BY <1>2 DEF WithdrawRow
  <2> HIDE DEF new
  <2> QED BY <1>0, <2>1, <2>2, PushStepTypeOK
<1>3. CASE BeginWithdrawing(p)
  <2> DEFINE S == Superseded(pushing[p].version)
             new == [pushing[p] EXCEPT !.at = "withdrawing", !.todo = S]
  <2>0. S \in SUBSET Halls
    BY DEF Superseded, PaperRooms
  <2>1. PushStep(p, new) /\ pushing[p].at = "writing"
    BY <1>3 DEF BeginWithdrawing
  <2> HIDE DEF S
  <2>2. new \in PushRows /\ new.version = pushing[p].version
    BY <1>0, <2>0, SweptFields
  <2> HIDE DEF new
  <2> QED BY <1>0, <2>1, <2>2, PushStepTypeOK
<1>4. CASE RollBack(p)
  BY <1>4, NoPushIs, PushStepTypeOK DEF RollBack
<1> QED BY <1>1, <1>2, <1>3, <1>4, ArriveTypeOK, CommitTypeOK DEF PushMoves

LEMMA HallStepTypeOK ==
  ASSUME ExamRoomsTypeOK, NEW h \in Halls, NEW staff \in Invigilating, ShowCode(h, staff) \/ CloseHall(h, staff)
  PROVE  ExamRoomsTypeOK'
<1>0. hall[h] \in HallRows
  BY DEF ExamRoomsTypeOK
<1>1. CASE ShowCode(h, staff)
  <2>1. hall[h].code \in Nat /\ minute \in Nat
    BY <1>0 DEF HallRows, ExamRoomsTypeOK
  <2>2. shown' \in [Halls -> [code : Nat, at : Nat]]
    BY <1>1, <2>1 DEF ShowCode, ExamRoomsTypeOK
  <2> QED BY <1>1, <2>2 DEF ShowCode, ExamRoomsTypeOK, pushVars
<1>2. CASE CloseHall(h, staff)
  <2>1. [hall[h] EXCEPT !.status = "CLOSED"] \in HallRows
    BY <1>0, HallFields
  <2>2. hall' = [hall EXCEPT ![h] = [hall[h] EXCEPT !.status = "CLOSED"]]
    BY <1>2 DEF CloseHall
  <2>3. hall' \in [Halls -> HallRows]
    BY <2>1, <2>2 DEF ExamRoomsTypeOK
  <2> QED BY <1>2, <2>3 DEF CloseHall, ExamRoomsTypeOK, roomVars, pushVars
<1> QED BY <1>1, <1>2

LEMMA RequestStepTypeOK ==
  ASSUME ExamRoomsAssumption, ExamRoomsTypeOK, NEW d \in Handhelds,
         \/ \E h \in Halls, staff \in Invigilating : AskToOpen(d, h, staff)
         \/ \E h \in Halls, s \in Sitters : AskToSit(d, h, s)
         \/ OpenHall(d) \/ Sit(d)
  PROVE  ExamRoomsTypeOK'
<1> DEFINE Good(new) == /\ new \in RoomRequests
                        /\ new.does # "nothing" => new.hall \in Halls
                        /\ new.does = "sit" => new.sitter \in Sitters
<1>1. ASSUME NEW new, Good(new), TakeRequest(d, new) PROVE ExamRoomsTypeOK'
  BY <1>1 DEF TakeRequest, ExamRoomsTypeOK, pushVars
<1>2. Good(NoRequest)
  BY DEF NoRequest, RoomRequests, Unpushed, HallRows, NoCode
<1>3. NoRequest.does = "nothing"
  BY DEF NoRequest
<1>4. NoRequest \in RoomRequests
  BY <1>2
<1>5. ASSUME NEW h \in Halls, NEW row \in HallRows, NEW fenced \in BOOLEAN, NEW code \in Nat
      PROVE  [NoRequest EXCEPT !.does = "open", !.hall = h, !.row = row, !.fenced = fenced, !.code = code] \in RoomRequests
  BY <1>4, <1>5 DEF RoomRequests
<1>6. ASSUME NEW h \in Halls, NEW staff \in Invigilating, AskToOpen(d, h, staff) PROVE ExamRoomsTypeOK'
  <2>1. PICK fenced \in BOOLEAN :
          TakeRequest(d, [NoRequest EXCEPT !.does = "open", !.hall = h, !.row = hall[h], !.fenced = fenced, !.code = requests + 1])
    BY <1>6 DEF AskToOpen
  <2> DEFINE new == [NoRequest EXCEPT !.does = "open", !.hall = h, !.row = hall[h], !.fenced = fenced, !.code = requests + 1]
  <2>2. hall[h] \in HallRows /\ requests + 1 \in Nat
    BY DEF ExamRoomsTypeOK
  <2>3. new \in RoomRequests
    BY <1>5, <2>2
  <2>4. new.does = "open" /\ new.hall = h
    BY DEF NoRequest
  <2>5. Good(new)
    BY <2>3, <2>4
  <2> HIDE DEF Good, new
  <2> QED BY <1>1, <2>1, <2>5 DEF new
<1>7. ASSUME NEW h \in Halls, NEW s \in Sitters, AskToSit(d, h, s) PROVE ExamRoomsTypeOK'
  <2> DEFINE new == [NoRequest EXCEPT !.does = "sit", !.hall = h, !.sitter = s]
  <2>1. new \in RoomRequests
    BY <1>4 DEF RoomRequests
  <2>2. new.does = "sit" /\ new.hall = h /\ new.sitter = s
    BY DEF NoRequest
  <2>3. Good(new)
    BY <2>1, <2>2
  <2>4. TakeRequest(d, new)
    BY <1>7 DEF AskToSit
  <2> HIDE DEF Good, new
  <2> QED BY <1>1, <2>3, <2>4
<1>8. CASE OpenHall(d)
  <2> DEFINE h == device[d].hall
             opened == [hall[h] EXCEPT !.status = "OPEN", !.code = device[d].code, !.closes = device[d].row.ends, !.fenced = device[d].fenced]
  <2>1. device[d] \in RoomRequests /\ h \in Halls
    BY <1>8 DEF OpenHall, ExamRoomsTypeOK
  <2>2. hall[h] \in HallRows /\ device[d].code \in Nat /\ device[d].row.ends \in EndTimes \cup {0} /\ device[d].fenced \in BOOLEAN
    BY <2>1 DEF ExamRoomsTypeOK, RoomRequests, HallRows
  <2>3. opened \in HallRows
    BY <2>2, HallFields
  <2>4. hall' = [hall EXCEPT ![h] = opened] \/ hall' = hall
    BY <1>8 DEF OpenHall
  <2>5. hall' \in [Halls -> HallRows]
    BY <2>1, <2>3, <2>4 DEF ExamRoomsTypeOK
  <2>6. device' = [device EXCEPT ![d] = NoRequest]
    BY <1>8 DEF OpenHall
  <2> HIDE DEF opened, h
  <2> QED BY <1>8, <1>3, <1>4, <2>5, <2>6 DEF OpenHall, ExamRoomsTypeOK, pushVars
<1>9. CASE Sit(d)
  <2>1. [hall |-> device[d].hall, sitter |-> device[d].sitter] \in [hall : Halls, sitter : Sitters]
    BY <1>9 DEF Sit, ExamRoomsTypeOK
  <2> QED BY <1>9, <1>3, <1>4, <2>1 DEF Sit, ExamRoomsTypeOK, pushVars
<1> QED BY <1>6, <1>7, <1>8, <1>9

LEMMA ExamRoomsNextTypeOK ==
  ASSUME ExamRoomsAssumption, ExamRoomsTypeOK, [ExamRoomsNext]_examRoomsVars
  PROVE  ExamRoomsTypeOK'
<1>1. CASE Minute
  BY <1>1 DEF Minute, ExamRoomsTypeOK, pushVars
<1>2. CASE UNCHANGED examRoomsVars
  BY <1>2 DEF examRoomsVars, ExamRoomsTypeOK
<1> QED BY <1>1, <1>2, PushTypeOK, HallStepTypeOK, RequestStepTypeOK DEF ExamRoomsNext, PushMoves

\* Every room's candidates were seated there by some version.
SeatedBySomeVersion(h, s) == \E v \in PushedVersions : plan[v].seat[s] = h
SeatsFromPlans ==
  /\ \A h \in Halls : \A s \in hall[h].seats : SeatedBySomeVersion(h, s)
  /\ \A d \in Handhelds : device[d].does = "sit" => SeatedBySomeVersion(device[d].hall, device[d].sitter)
  /\ \A row \in sat : SeatedBySomeVersion(row.hall, row.sitter)

\* A push that no other has overlapped will leave no room on the paper but its own.
PushesApart ==
  /\ \A p, q \in Pushes : pushing[p].alone /\ q # p => pushing[q] = NoPush
  /\ \A p \in Pushes, v \in PushedVersions : pushing[p].version = v =>
       /\ pushing[p].at = "writing" => pushing[p].todo \cup pushing[p].written = RoomsOf(v)
       /\ pushing[p].at = "withdrawing" =>
            /\ pushing[p].written = RoomsOf(v)
            /\ pushing[p].alone => PaperRooms \ RoomsOf(v) \subseteq pushing[p].todo \cup pushing[p].left
  /\ ~mixed => \A g, h \in PaperRooms : g # h => hall[g].seats \cap hall[h].seats = {}

\* What a push makes of a room that is in the plan, and of one that is not.
LEMMA PlacedRow ==
  ASSUME NEW row \in HallRows, NEW v, NEW h
  PROVE  LET new == Placed(row, v, h) IN new.seats = SeatedIn(v, h) /\ new.pushed = TRUE /\ new.withdrawn = FALSE
<1> DEFINE S == SeatedIn(v, h)
           staff == plan[v].invigilator[h]
           t == plan[v].ends
           new == [row EXCEPT !.pushed = TRUE, !.withdrawn = FALSE, !.seats = S, !.staff = staff, !.ends = t]
<1>0. Placed(row, v, h) = new
  BY DEF Placed
<1> HIDE DEF S, staff, t
<1>1. new.seats = S
  BY DEF HallRows
<1>2. new.pushed = TRUE
  BY DEF HallRows
<1>3. new.withdrawn = FALSE
  BY DEF HallRows
<1> QED BY <1>0, <1>1, <1>2, <1>3 DEF S

LEMMA WithdrawnRow ==
  ASSUME NEW row \in HallRows
  PROVE  LET new == [row EXCEPT !.withdrawn = TRUE] IN new.seats = row.seats /\ new.pushed = row.pushed /\ new.withdrawn = TRUE
<1> DEFINE new == [row EXCEPT !.withdrawn = TRUE]
<1>1. new.seats = row.seats
  BY DEF HallRows
<1>2. new.pushed = row.pushed
  BY DEF HallRows
<1>3. new.withdrawn = TRUE
  BY DEF HallRows
<1> QED BY <1>1, <1>2, <1>3

\* The rows when a push is committed.
LEMMA CommittedRows ==
  ASSUME ExamRoomsTypeOK, NEW p \in Pushes, Commit(p), NEW v, v = pushing[p].version, NEW h \in Halls
  PROVE  /\ h \in pushing[p].written =>
              hall'[h].seats = SeatedIn(v, h) /\ hall'[h].pushed = TRUE /\ hall'[h].withdrawn = FALSE
         /\ h \notin pushing[p].written => hall'[h].seats = hall[h].seats /\ hall'[h].pushed = hall[h].pushed
         /\ h \notin pushing[p].written /\ h \in pushing[p].left => hall'[h].withdrawn = TRUE
         /\ h \notin pushing[p].written /\ h \notin pushing[p].left => hall'[h].withdrawn = hall[h].withdrawn
<1>0. hall[h] \in HallRows
  BY DEF ExamRoomsTypeOK
<1>1. hall'[h] = IF h \in pushing[p].written THEN Placed(hall[h], v, h)
                 ELSE IF h \in pushing[p].left THEN [hall[h] EXCEPT !.withdrawn = TRUE] ELSE hall[h]
  BY DEF Commit
<1>2. CASE h \in pushing[p].written
  <2>1. PICK row : row = hall[h]
    OBVIOUS
  <2>2. row \in HallRows /\ hall'[h] = Placed(row, v, h)
    BY <1>0, <1>1, <1>2, <2>1
  <2>3. LET new == Placed(row, v, h) IN new.seats = SeatedIn(v, h) /\ new.pushed = TRUE /\ new.withdrawn = FALSE
    BY ONLY <2>2, PlacedRow
  <2> QED BY <1>2, <2>2, <2>3
<1>3. CASE h \notin pushing[p].written /\ h \in pushing[p].left
  <2>1. hall'[h] = [hall[h] EXCEPT !.withdrawn = TRUE]
    BY <1>1, <1>3
  <2> QED BY <1>0, <1>3, <2>1, WithdrawnRow
<1>4. CASE h \notin pushing[p].written /\ h \notin pushing[p].left
  <2>1. hall'[h] = hall[h]
    BY <1>1, <1>4
  <2> QED BY <1>4, <2>1
<1> QED BY <1>2, <1>3, <1>4

LEMMA PlanStands == ASSUME [ExamRoomsNext]_examRoomsVars PROVE plan' = plan
BY DEF ExamRoomsNext, Arrive, WriteRow, WithdrawRow, BeginWithdrawing, Commit, RollBack, PushStep, ShowCode, CloseHall,
       AskToOpen, AskToSit, TakeRequest, OpenHall, Sit, Minute, examRoomsVars

LEMMA SeatsFromPlansNext ==
  ASSUME ExamRoomsTypeOK, SeatsFromPlans, [ExamRoomsNext]_examRoomsVars
  PROVE  SeatsFromPlans'
<1>0. plan' = plan
  BY PlanStands
<1>1. ASSUME NEW p \in Pushes, Commit(p) PROVE SeatsFromPlans'
  <2>0. PICK v : v = pushing[p].version
    OBVIOUS
  <2>1. v \in PushedVersions
    BY <1>1, <2>0 DEF Commit, ExamRoomsTypeOK
  <2>2. UNCHANGED <<sat, device>>
    BY <1>1 DEF Commit, roomVars
  <2>3. ASSUME NEW h \in Halls, NEW s \in hall'[h].seats PROVE SeatedBySomeVersion(h, s)
    <3>1. CASE h \in pushing[p].written
      <4>1. s \in SeatedIn(v, h)
        BY <1>1, <2>0, <2>3, <3>1, CommittedRows
      <4> QED BY <2>1, <4>1 DEF SeatedBySomeVersion, SeatedIn
    <3>2. CASE h \notin pushing[p].written
      <4>1. s \in hall[h].seats
        BY <1>1, <2>0, <2>3, <3>2, CommittedRows
      <4> QED BY <4>1 DEF SeatsFromPlans
    <3> QED BY <3>1, <3>2
  <2> QED BY <1>0, <2>2, <2>3 DEF SeatsFromPlans, SeatedBySomeVersion
<1>2. ASSUME \A h \in Halls : hall'[h].seats = hall[h].seats,
             \A d \in Handhelds : device'[d].does = "sit" => SeatedBySomeVersion(device'[d].hall, device'[d].sitter),
             \A row \in sat' : SeatedBySomeVersion(row.hall, row.sitter)
      PROVE  SeatsFromPlans'
  BY <1>0, <1>2 DEF SeatsFromPlans, SeatedBySomeVersion
<1>3. /\ \A d \in Handhelds : device[d].does = "sit" => SeatedBySomeVersion(device[d].hall, device[d].sitter)
      /\ \A row \in sat : SeatedBySomeVersion(row.hall, row.sitter)
  BY DEF SeatsFromPlans
<1>4. CASE UNCHANGED <<hall, device, sat>>
  BY <1>2, <1>3, <1>4
<1>5. ASSUME NEW h \in Halls, NEW staff \in Invigilating, CloseHall(h, staff) PROVE SeatsFromPlans'
  <2>1. \A g \in Halls : hall'[g].seats = hall[g].seats
    BY <1>5 DEF CloseHall, ExamRoomsTypeOK, HallRows
  <2>2. UNCHANGED <<device, sat>>
    BY <1>5 DEF CloseHall, roomVars
  <2> QED BY <1>2, <1>3, <2>1, <2>2
<1>6. ASSUME NEW d \in Handhelds, NEW new, TakeRequest(d, new), new.does = "sit" => SeatedBySomeVersion(new.hall, new.sitter)
      PROVE  SeatsFromPlans'
  <2>1. UNCHANGED <<hall, sat>>
    BY <1>6 DEF TakeRequest
  <2>2. \A e \in Handhelds : device'[e].does = "sit" => SeatedBySomeVersion(device'[e].hall, device'[e].sitter)
    BY <1>3, <1>6 DEF TakeRequest, ExamRoomsTypeOK
  <2> QED BY <1>2, <1>3, <2>1, <2>2
<1>7. ASSUME NEW d \in Handhelds, NEW h \in Halls, NEW staff \in Invigilating, AskToOpen(d, h, staff) PROVE SeatsFromPlans'
  <2>1. PICK fenced \in BOOLEAN :
          TakeRequest(d, [NoRequest EXCEPT !.does = "open", !.hall = h, !.row = hall[h], !.fenced = fenced, !.code = requests + 1])
    BY <1>7 DEF AskToOpen
  <2>2. [NoRequest EXCEPT !.does = "open", !.hall = h, !.row = hall[h], !.fenced = fenced, !.code = requests + 1].does # "sit"
    BY DEF NoRequest
  <2> QED BY <1>6, <2>1, <2>2
<1>8. ASSUME NEW d \in Handhelds, NEW h \in Halls, NEW s \in Sitters, AskToSit(d, h, s) PROVE SeatsFromPlans'
  <2> DEFINE new == [NoRequest EXCEPT !.does = "sit", !.hall = h, !.sitter = s]
  <2>1. TakeRequest(d, new) /\ s \in hall[h].seats
    BY <1>8 DEF AskToSit, Listed
  <2>2. new.hall = h /\ new.sitter = s
    BY DEF NoRequest
  <2>3. SeatedBySomeVersion(new.hall, new.sitter)
    BY <2>1, <2>2 DEF SeatsFromPlans
  <2> HIDE DEF new
  <2> QED BY <1>6, <2>1, <2>3
<1>9. ASSUME NEW d \in Handhelds, OpenHall(d) PROVE SeatsFromPlans'
  <2>1. \A g \in Halls : hall'[g].seats = hall[g].seats
    BY <1>9 DEF OpenHall, ExamRoomsTypeOK, HallRows
  <2>2. sat' = sat /\ device' = [device EXCEPT ![d] = NoRequest] /\ NoRequest.does # "sit"
    BY <1>9 DEF OpenHall, NoRequest
  <2>3. \A e \in Handhelds : device'[e].does = "sit" => SeatedBySomeVersion(device'[e].hall, device'[e].sitter)
    BY <1>3, <2>2 DEF ExamRoomsTypeOK
  <2> QED BY <1>2, <1>3, <2>1, <2>2, <2>3
<1>10. ASSUME NEW d \in Handhelds, Sit(d) PROVE SeatsFromPlans'
  <2>1. hall' = hall /\ device' = [device EXCEPT ![d] = NoRequest] /\ NoRequest.does # "sit"
    BY <1>10 DEF Sit, NoRequest
  <2>2. \A e \in Handhelds : device'[e].does = "sit" => SeatedBySomeVersion(device'[e].hall, device'[e].sitter)
    BY <1>3, <2>1 DEF ExamRoomsTypeOK
  <2>3. \A row \in sat' : SeatedBySomeVersion(row.hall, row.sitter)
    BY <1>3, <1>10 DEF Sit
  <2> QED BY <1>2, <2>1, <2>2, <2>3
<1>11. ASSUME NEW h \in Halls, NEW staff \in Invigilating, ShowCode(h, staff) PROVE SeatsFromPlans'
  BY <1>4, <1>11 DEF ShowCode
<1>12. CASE Minute \/ UNCHANGED examRoomsVars
  BY <1>4, <1>12 DEF Minute, examRoomsVars
<1>13. ASSUME NEW p \in Pushes, PushMoves(p) PROVE SeatsFromPlans'
  <2>1. CASE Commit(p)
    BY <1>1, <2>1
  <2>2. CASE ~Commit(p)
    <3>1. UNCHANGED <<hall, device, sat>>
      BY <1>13, <2>2 DEF PushMoves, Arrive, WriteRow, WithdrawRow, BeginWithdrawing, RollBack, PushStep, roomVars
    <3> QED BY <1>4, <3>1
  <2> QED BY <2>1, <2>2
<1> QED BY <1>5, <1>7, <1>8, <1>9, <1>10, <1>11, <1>12, <1>13 DEF ExamRoomsNext, PushMoves

-----------------------------------------------------------------------------
(* Pushes that overlap none, and the rooms they leave.                      *)

\* A step of p's transaction that leaves it with a sound row.
LEMMA PushApart ==
  ASSUME ExamRoomsTypeOK, PushesApart, NEW p \in Pushes, NEW new \in PushRows, PushStep(p, new), pushing[p] # NoPush,
         new.alone => pushing[p].alone, new.version = pushing[p].version \/ new = NoPush,
         \A v \in PushedVersions : new.version = v =>
           /\ new.at = "writing" => new.todo \cup new.written = RoomsOf(v)
           /\ new.at = "withdrawing" =>
                new.written = RoomsOf(v) /\ (new.alone => PaperRooms \ RoomsOf(v) \subseteq new.todo \cup new.left)
  PROVE  PushesApart'
<1>1. /\ \A q \in Pushes : pushing'[q] = IF q = p THEN new ELSE pushing[q]
      /\ plan' = plan /\ hall' = hall /\ mixed' = mixed
  BY DEF PushStep, ExamRoomsTypeOK
<1>2. \A v : RoomsOf(v)' = RoomsOf(v)
  BY <1>1 DEF RoomsOf, SeatedIn
<1>3. PaperRooms' = PaperRooms
  BY <1>1 DEF PaperRooms
<1>4. ASSUME NEW q \in Pushes, NEW o \in Pushes, pushing'[q].alone, o # q PROVE pushing'[o] = NoPush
  BY <1>1, <1>4 DEF PushesApart
<1>5. ASSUME NEW q \in Pushes, NEW v \in PushedVersions, pushing'[q].version = v
      PROVE  /\ pushing'[q].at = "writing" => pushing'[q].todo \cup pushing'[q].written = RoomsOf(v)
             /\ pushing'[q].at = "withdrawing" =>
                  /\ pushing'[q].written = RoomsOf(v)
                  /\ pushing'[q].alone => PaperRooms \ RoomsOf(v) \subseteq pushing'[q].todo \cup pushing'[q].left
  <2>1. CASE q = p
    BY <1>1, <1>5, <2>1
  <2>2. CASE q # p
    BY <1>1, <1>5, <2>2 DEF PushesApart
  <2> QED BY <2>1, <2>2
<1>6. ~mixed => \A g, h \in PaperRooms : g # h => hall[g].seats \cap hall[h].seats = {}
  BY DEF PushesApart
<1> QED BY <1>1, <1>2, <1>3, <1>4, <1>5, <1>6 DEF PushesApart

LEMMA ArrivesApart ==
  ASSUME ExamRoomsTypeOK, PushesApart, NEW p \in Pushes, NEW v \in PushedVersions, Arrive(p, v)
  PROVE  PushesApart'
<1> DEFINE others == {q \in Pushes : pushing[q] # NoPush}
           begun == [NoPush EXCEPT !.at = "writing", !.version = v, !.todo = RoomsOf(v), !.alone = others = {}]
<1>0. RoomsOf(v) \in SUBSET Halls /\ (others = {}) \in BOOLEAN
  BY DEF RoomsOf
<1>1. /\ begun.at = "writing" /\ begun.version = v /\ begun.todo = RoomsOf(v) /\ begun.written = {}
      /\ begun.alone = (others = {})
  <2> DEFINE S == RoomsOf(v)
             b == others = {}
  <2>1. S \in SUBSET Halls /\ b \in BOOLEAN
    BY <1>0
  <2> HIDE DEF S, b
  <2>2. LET new == BegunPush(NoPush, "writing", v, S, b)
        IN new.at = "writing" /\ new.version = v /\ new.todo = S /\ new.written = {} /\ new.alone = b
    BY ONLY <2>1, BegunFields, v \in PushedVersions
  <2>3. begun = BegunPush(NoPush, "writing", v, S, b)
    BY DEF S, b, BegunPush
  <2> HIDE DEF begun
  <2> QED BY ONLY <2>2, <2>3 DEF S, b
<1>2. pushing' = [q \in Pushes |-> IF q = p THEN begun
                                   ELSE IF q \in others THEN [pushing[q] EXCEPT !.alone = FALSE] ELSE NoPush]
  BY DEF Arrive
<1> HIDE DEF begun
<1>3. plan' = plan /\ hall' = hall /\ mixed' = mixed
  BY DEF Arrive
<1>4. \A w : RoomsOf(w)' = RoomsOf(w)
  BY <1>3 DEF RoomsOf, SeatedIn
<1>5. PaperRooms' = PaperRooms
  BY <1>3 DEF PaperRooms
<1>6. ASSUME NEW q \in Pushes, q # p, q \in others
      PROVE  /\ pushing'[q].at = pushing[q].at /\ pushing'[q].version = pushing[q].version /\ pushing'[q].alone = FALSE
             /\ pushing'[q].todo = pushing[q].todo /\ pushing'[q].written = pushing[q].written
  <2>1. pushing'[q] = [pushing[q] EXCEPT !.alone = FALSE] /\ pushing[q] \in PushRows
    BY <1>2, <1>6 DEF ExamRoomsTypeOK
  <2> QED BY <2>1, JoinedFields
<1>7. ASSUME NEW q \in Pushes, q # p, q \notin others PROVE pushing'[q] = NoPush
  BY <1>2, <1>7
<1>8. pushing'[p] = begun
  BY <1>2
<1>9. ASSUME NEW q \in Pushes, NEW o \in Pushes, pushing'[q].alone, o # q PROVE pushing'[o] = NoPush
  <2>1. q = p
    BY <1>6, <1>7, <1>9, NoPushIs
  <2>2. others = {}
    BY <1>1, <1>8, <1>9, <2>1
  <2> QED BY <1>7, <1>9, <2>1, <2>2
<1>10. ASSUME NEW q \in Pushes, NEW w \in PushedVersions, pushing'[q].version = w
       PROVE  /\ pushing'[q].at = "writing" => pushing'[q].todo \cup pushing'[q].written = RoomsOf(w)
              /\ pushing'[q].at = "withdrawing" =>
                   /\ pushing'[q].written = RoomsOf(w)
                   /\ pushing'[q].alone => PaperRooms \ RoomsOf(w) \subseteq pushing'[q].todo \cup pushing'[q].left
  <2>1. CASE q = p
    <3>1. w = v /\ pushing'[q] = begun
      BY <1>1, <1>8, <1>10, <2>1
    <3> QED BY ONLY <1>1, <3>1
  <2>2. CASE q # p /\ q \in others
    <3>1. /\ pushing'[q].at = pushing[q].at /\ pushing[q].version = w /\ pushing'[q].alone = FALSE
          /\ pushing'[q].todo = pushing[q].todo /\ pushing'[q].written = pushing[q].written
      BY <1>6, <1>10, <2>2
    <3>2. /\ pushing[q].at = "writing" => pushing[q].todo \cup pushing[q].written = RoomsOf(w)
          /\ pushing[q].at = "withdrawing" => pushing[q].written = RoomsOf(w)
      BY <3>1 DEF PushesApart
    <3> QED BY ONLY <3>1, <3>2
  <2>3. CASE q # p /\ q \notin others
    BY <1>7, <2>3, NoPushIs
  <2> QED BY <2>1, <2>2, <2>3
<1>11. ~mixed => \A g, h \in PaperRooms : g # h => hall[g].seats \cap hall[h].seats = {}
  BY DEF PushesApart
<1> HIDE DEF others
<1> QED BY <1>3, <1>4, <1>5, <1>9, <1>10, <1>11 DEF PushesApart

LEMMA CommitsApart ==
  ASSUME ExamRoomsTypeOK, PushesApart, NEW p \in Pushes, Commit(p)
  PROVE  PushesApart'
<1>0. PICK v : v = pushing[p].version
  OBVIOUS
<1>1. v \in PushedVersions /\ pushing[p].at = "withdrawing" /\ pushing[p].todo = {} /\ pushing[p] # NoPush
  BY <1>0, NoPushIs DEF Commit, ExamRoomsTypeOK
<1>2. plan' = plan /\ mixed' = ~pushing[p].alone
  BY DEF Commit
<1>3. \A q \in Pushes : pushing'[q] = IF q = p THEN NoPush ELSE pushing[q]
  BY DEF Commit, ExamRoomsTypeOK
<1>4. \A w : RoomsOf(w)' = RoomsOf(w)
  BY <1>2 DEF RoomsOf, SeatedIn
<1>5. ASSUME NEW q \in Pushes, pushing'[q].alone PROVE FALSE
  BY <1>1, <1>3, <1>5, NoPushIs DEF PushesApart
<1>6. ASSUME NEW q \in Pushes, NEW w \in PushedVersions, pushing'[q].version = w
      PROVE  /\ pushing'[q].at = "writing" => pushing'[q].todo \cup pushing'[q].written = RoomsOf(w)
             /\ pushing'[q].at = "withdrawing" => pushing'[q].written = RoomsOf(w)
  BY <1>3, <1>6, NoPushIs DEF PushesApart
<1>7. ASSUME pushing[p].alone, NEW g \in Halls, hall'[g].pushed, ~hall'[g].withdrawn
      PROVE  hall'[g].seats = SeatedIn(v, g)
  <2>1. pushing[p].written = RoomsOf(v) /\ PaperRooms \ RoomsOf(v) \subseteq pushing[p].left
    BY <1>0, <1>1, <1>7 DEF PushesApart
  <2>2. CASE g \in pushing[p].written
    BY <1>0, <2>2, CommittedRows
  <2>3. CASE g \notin pushing[p].written
    <3>1. g \notin pushing[p].left /\ hall[g].pushed /\ ~hall[g].withdrawn
      BY <1>0, <1>7, <2>3, CommittedRows
    <3>2. g \in PaperRooms \ RoomsOf(v)
      BY <2>1, <2>3, <3>1 DEF PaperRooms
    <3> QED BY <2>1, <3>1, <3>2
  <2> QED BY <2>2, <2>3
<1>8. ASSUME pushing[p].alone, NEW g \in Halls, NEW h \in Halls, g # h,
             hall'[g].pushed, ~hall'[g].withdrawn, hall'[h].pushed, ~hall'[h].withdrawn
      PROVE  hall'[g].seats \cap hall'[h].seats = {}
  <2>1. hall'[g].seats = SeatedIn(v, g) /\ hall'[h].seats = SeatedIn(v, h)
    BY <1>7, <1>8
  <2>2. SeatedIn(v, g) \cap SeatedIn(v, h) = {}
    BY <1>8 DEF SeatedIn
  <2> QED BY <2>1, <2>2
<1>9. pushing[p].alone \in BOOLEAN
  BY DEF ExamRoomsTypeOK, PushRows
<1>10. (~mixed => \A g, h \in PaperRooms : g # h => hall[g].seats \cap hall[h].seats = {})'
  BY <1>2, <1>8, <1>9 DEF PaperRooms
<1> QED BY <1>4, <1>5, <1>6, <1>10 DEF PushesApart

LEMMA PushesApartNext ==
  ASSUME ExamRoomsTypeOK, PushesApart, [ExamRoomsNext]_examRoomsVars
  PROVE  PushesApart'
<1>0. plan' = plan
  BY PlanStands
<1>1. ASSUME UNCHANGED <<pushing, mixed>>,
             \A h \in Halls : /\ hall'[h].seats = hall[h].seats
                              /\ hall'[h].pushed = hall[h].pushed /\ hall'[h].withdrawn = hall[h].withdrawn
      PROVE  PushesApart'
  <2>1. \A w : RoomsOf(w)' = RoomsOf(w)
    BY <1>0 DEF RoomsOf, SeatedIn
  <2>2. PaperRooms' = PaperRooms
    BY <1>1 DEF PaperRooms
  <2>3. PaperRooms \subseteq Halls
    BY DEF PaperRooms
  <2> QED BY <1>1, <2>1, <2>2, <2>3 DEF PushesApart
<1>2. ASSUME NEW p \in Pushes, PushMoves(p) PROVE PushesApart'
  <2>0. pushing[p] \in PushRows /\ (pushing[p].at # "idle" => pushing[p].version \in PushedVersions)
    BY DEF ExamRoomsTypeOK
  <2>1. ASSUME NEW h \in Halls, WriteRow(p, h) PROVE PushesApart'
    <3> DEFINE new == [pushing[p] EXCEPT !.todo = @ \ {h}, !.written = @ \cup {h}]
    <3>1. /\ new \in PushRows /\ new.at = pushing[p].at /\ new.version = pushing[p].version /\ new.alone = pushing[p].alone
          /\ new.todo = pushing[p].todo \ {h} /\ new.written = pushing[p].written \cup {h}
      BY <2>0, WroteFields
    <3>2. PushStep(p, new) /\ pushing[p].at = "writing" /\ h \in pushing[p].todo
      BY <2>1 DEF WriteRow
    <3> HIDE DEF new
    <3>3. pushing[p] # NoPush
      BY <3>2, NoPushIs
    <3>4. ASSUME NEW v \in PushedVersions, new.version = v PROVE new.todo \cup new.written = RoomsOf(v)
      <4>1. pushing[p].todo \cup pushing[p].written = RoomsOf(v)
        BY <3>1, <3>2, <3>4 DEF PushesApart
      <4> QED BY <3>1, <3>2, <4>1
    <3> QED BY <3>1, <3>2, <3>3, <3>4, PushApart
  <2>2. ASSUME NEW h \in Halls, WithdrawRow(p, h) PROVE PushesApart'
    <3> DEFINE new == [pushing[p] EXCEPT !.todo = @ \ {h}, !.left = @ \cup ({h} \cap PaperRooms)]
    <3>0. PaperRooms \in SUBSET Halls
      BY DEF PaperRooms
    <3>1. /\ new \in PushRows /\ new.at = pushing[p].at /\ new.version = pushing[p].version /\ new.alone = pushing[p].alone
          /\ new.todo = pushing[p].todo \ {h} /\ new.written = pushing[p].written
          /\ new.left = pushing[p].left \cup ({h} \cap PaperRooms)
      <4>1. PICK r, x, y : r = pushing[p] /\ x = r.todo \ {h} /\ y = r.left \cup ({h} \cap PaperRooms)
        OBVIOUS
      <4>2. new = LeftOutPush(r, x, y)
        BY <4>1 DEF LeftOutPush
      <4>3. r \in PushRows /\ x \in SUBSET Halls /\ y \in SUBSET Halls
        BY <2>0, <3>0, <4>1, PushSets
      <4> HIDE DEF new
      <4>4. /\ new \in PushRows /\ new.at = r.at /\ new.version = r.version /\ new.alone = r.alone
            /\ new.todo = x /\ new.written = r.written /\ new.left = y
        BY ONLY <4>2, <4>3, LeftOutFields
      <4> QED BY <4>1, <4>4
    <3>2. PushStep(p, new) /\ pushing[p].at = "withdrawing"
      BY <2>2 DEF WithdrawRow
    <3> HIDE DEF new
    <3>3. pushing[p] # NoPush
      BY <3>2, NoPushIs
    <3>4. ASSUME NEW v \in PushedVersions, new.version = v
          PROVE  new.written = RoomsOf(v) /\ (new.alone => PaperRooms \ RoomsOf(v) \subseteq new.todo \cup new.left)
      <4>1. /\ pushing[p].written = RoomsOf(v)
            /\ pushing[p].alone => PaperRooms \ RoomsOf(v) \subseteq pushing[p].todo \cup pushing[p].left
        BY <3>1, <3>2, <3>4 DEF PushesApart
      <4> QED BY <3>1, <4>1
    <3> QED BY <3>1, <3>2, <3>3, <3>4, PushApart
  <2>3. CASE BeginWithdrawing(p)
    <3>0. PICK w : w = pushing[p].version
      OBVIOUS
    <3> DEFINE S == Superseded(w)
               new == [pushing[p] EXCEPT !.at = "withdrawing", !.todo = S]
    <3>1. S \in SUBSET Halls /\ PaperRooms \ RoomsOf(w) \subseteq S
      BY DEF Superseded, PaperRooms
    <3>2. PushStep(p, new) /\ pushing[p].at = "writing" /\ pushing[p].todo = {}
      BY <2>3, <3>0 DEF BeginWithdrawing
    <3> HIDE DEF S
    <3>3. /\ new \in PushRows /\ new.at = "withdrawing" /\ new.version = pushing[p].version /\ new.alone = pushing[p].alone
          /\ new.todo = S /\ new.written = pushing[p].written
      BY <2>0, <3>1, SweptFields
    <3> HIDE DEF new
    <3>4. pushing[p] # NoPush
      BY <3>2, NoPushIs
    <3>5. ASSUME NEW v \in PushedVersions, new.version = v
          PROVE  new.written = RoomsOf(v) /\ PaperRooms \ RoomsOf(v) \subseteq new.todo \cup new.left
      <4>1. v = w /\ pushing[p].written = RoomsOf(v)
        BY <3>0, <3>2, <3>3, <3>5 DEF PushesApart
      <4> QED BY <3>1, <3>3, <4>1
    <3> QED BY <3>2, <3>3, <3>4, <3>5, PushApart
  <2>4. CASE RollBack(p)
    <3>1. PushStep(p, NoPush) /\ pushing[p] # NoPush
      BY <2>4 DEF RollBack
    <3> QED BY <3>1, NoPushIs, PushApart
  <2> QED BY <1>2, <2>1, <2>2, <2>3, <2>4, ArrivesApart, CommitsApart DEF PushMoves
<1>3. ASSUME NEW h \in Halls, NEW staff \in Invigilating, CloseHall(h, staff) PROVE PushesApart'
  <2>1. \A g \in Halls : /\ hall'[g].seats = hall[g].seats
                         /\ hall'[g].pushed = hall[g].pushed /\ hall'[g].withdrawn = hall[g].withdrawn
    BY <1>3 DEF CloseHall, ExamRoomsTypeOK, HallRows
  <2>2. UNCHANGED <<pushing, mixed>>
    BY <1>3 DEF CloseHall, pushVars
  <2> QED BY <1>1, <2>1, <2>2
<1>4. ASSUME NEW d \in Handhelds, OpenHall(d) PROVE PushesApart'
  <2>1. \A g \in Halls : /\ hall'[g].seats = hall[g].seats
                         /\ hall'[g].pushed = hall[g].pushed /\ hall'[g].withdrawn = hall[g].withdrawn
    BY <1>4 DEF OpenHall, ExamRoomsTypeOK, HallRows
  <2>2. UNCHANGED <<pushing, mixed>>
    BY <1>4 DEF OpenHall, pushVars
  <2> QED BY <1>1, <2>1, <2>2
<1>5. CASE UNCHANGED <<hall, pushing, mixed>>
  BY <1>1, <1>5
<1>6. ASSUME NEW h \in Halls, NEW staff \in Invigilating,
             ShowCode(h, staff) \/ \E d \in Handhelds : AskToOpen(d, h, staff)
      PROVE  PushesApart'
  BY <1>5, <1>6 DEF ShowCode, AskToOpen, TakeRequest, pushVars
<1>7. ASSUME NEW d \in Handhelds, Sit(d) \/ \E h \in Halls, s \in Sitters : AskToSit(d, h, s) PROVE PushesApart'
  BY <1>5, <1>7 DEF Sit, AskToSit, TakeRequest, pushVars
<1>8. CASE Minute \/ UNCHANGED examRoomsVars
  BY <1>5, <1>8 DEF Minute, examRoomsVars, pushVars
<1> QED BY <1>2, <1>3, <1>4, <1>6, <1>7, <1>8 DEF ExamRoomsNext, PushMoves

LEMMA SeatsFromPlansGiveSeats == ASSUME ExamRoomsTypeOK, SeatsFromPlans, PushesApart PROVE SatWhereSeated
<1>1. \A row \in sat : \E v \in PushedVersions : plan[v].seat[row.sitter] = row.hall
  BY DEF SeatsFromPlans, SeatedBySomeVersion
<1>2. \A h \in PaperRooms : SatIn(h) \cup AbsentFrom(h) \subseteq hall[h].seats
  BY DEF SatIn, AbsentFrom
<1>3. ~mixed => \A g, h \in PaperRooms : g # h => hall[g].seats \cap hall[h].seats = {}
  BY DEF PushesApart
<1>4. ASSUME ~mixed, NEW g \in PaperRooms, NEW h \in PaperRooms, g # h
      PROVE  (SatIn(g) \cup AbsentFrom(g)) \cap (SatIn(h) \cup AbsentFrom(h)) = {}
  BY <1>2, <1>3, <1>4
<1> QED BY <1>1, <1>4 DEF SatWhereSeated

\* What holds of every state.
ExamRoomsInv == ExamRoomsTypeOK /\ SeatsFromPlans /\ PushesApart

LEMMA ExamRoomsInductive ==
  ASSUME ExamRoomsAssumption
  PROVE  /\ ExamRoomsInit => ExamRoomsInv
         /\ ExamRoomsInv /\ [ExamRoomsNext]_examRoomsVars => ExamRoomsInv'
         /\ ExamRoomsInv => SatWhereSeated
<1>1. ExamRoomsInit => SeatsFromPlans
  BY DEF ExamRoomsInit, SeatsFromPlans, Unpushed, NoRequest
<1>2. ExamRoomsInit => PushesApart
  <2>1. ExamRoomsInit => PaperRooms = {}
    BY DEF ExamRoomsInit, Unpushed, PaperRooms
  <2>2. ExamRoomsInit => \A p \in Pushes : pushing[p] = NoPush
    BY DEF ExamRoomsInit
  <2> QED BY <2>1, <2>2, NoPushIs DEF PushesApart
<1> QED BY <1>1, <1>2, ExamRoomsInitTypeOK, ExamRoomsNextTypeOK, SeatsFromPlansNext, PushesApartNext, SeatsFromPlansGiveSeats
        DEF ExamRoomsInv

(* The rows of the exam rooms keep their types, for any rooms, candidates,  *)
(* versions and requests (exam.service.ts, exam.repository.ts).             *)
THEOREM ExamRoomsTypes ==
  ASSUME ExamRoomsAssumption
  PROVE  ExamRoomsSpec => []ExamRoomsTypeOK
<1>1. ExamRoomsInv => ExamRoomsTypeOK
  BY DEF ExamRoomsInv
<1> QED BY <1>1, ExamRoomsInductive, PTL DEF ExamRoomsSpec

(* Everyone recorded in a room was seated there by a version of the plan,   *)
(* in whatever order, however often and however overlapped the versions     *)
(* arrive; and the report names nobody in two rooms, unless the push last   *)
(* committed had overlapped another (exam.service.ts checkIn,               *)
(* receiveExamSessions, report).                                            *)
THEOREM RecordedWhereSeated ==
  ASSUME ExamRoomsAssumption
  PROVE  ExamRoomsSpec => []SatWhereSeated
BY ExamRoomsInductive, PTL DEF ExamRoomsSpec

-----------------------------------------------------------------------------
(* The figures.  A class that has opened keeps its unit, times and records. *)

ClassRows ==
  [module : Modules \cup {NoMeeting.module}, opens : Nat, closes : Nat, status : {"NONE", "OPEN", "CLOSED"},
   scheduled : Nat \cup {Unscheduled}]

FiguresTypeOK ==
  /\ tick \in Nat
  /\ meeting \in [Meetings -> ClassRows]
  /\ enrolled \subseteq Modules \X Learners
  /\ checkedIn \subseteq Meetings \X Learners
  /\ formerly \subseteq Meetings \X Learners
  /\ withAccount \subseteq Learners
  /\ departed \subseteq Tutors
  /\ deletions \in Nat
  /\ policy \in Policies

\* A class held is of a unit and opens inside its slot; only one that has opened is attended.
ClassesHeld ==
  \A m \in Meetings :
    /\ meeting[m].status # "NONE" =>
         meeting[m].module \in Modules /\ (meeting[m].scheduled # Unscheduled => meeting[m].scheduled <= meeting[m].opens)
    /\ \A s \in Learners : <<m, s>> \in checkedIn \cup formerly => meeting[m].status # "NONE" /\ meeting[m].opens <= tick

FiguresInv == FiguresTypeOK /\ ClassesHeld

LEMMA FiguresInitInv ==
  ASSUME FiguresAssumption, FiguresInit PROVE FiguresInv
<1>1. NoMeeting \in ClassRows /\ NoMeeting.status = "NONE"
  BY DEF NoMeeting, ClassRows, Unscheduled
<1>2. FiguresTypeOK
  BY <1>1 DEF FiguresTypeOK, FiguresInit
<1>3. ClassesHeld
  BY <1>1 DEF ClassesHeld, FiguresInit
<1> QED BY <1>2, <1>3 DEF FiguresInv

\* A class changes only in its status and, when it is ended, its closing time.
LEMMA ActivateInv ==
  ASSUME FiguresAssumption, FiguresInv, NEW m \in Meetings, NEW u \in Modules, NEW opens \in Openings, Activate(m, u, opens)
  PROVE  FiguresInv'
<1>1. opens \in Nat /\ Length \in Nat /\ \A slot \in SlotsOf[u] : slot.start \in Nat /\ slot.end \in Nat
  <2>1. {Grace, Length, MaxMeetings, MaxDeletions, MaxTicks} \subseteq Nat /\ Openings \subseteq Nat
    BY DEF FiguresAssumption
  <2>2. SlotsOf[u] \subseteq [start : Nat, end : Nat]
    BY DEF FiguresAssumption
  <2> QED BY <2>1, <2>2
<1>2. PICK window \in WindowsFrom(u, opens) :
        meeting' = [meeting EXCEPT ![m] =
          [module |-> u, opens |-> opens, closes |-> window.end, status |-> "OPEN", scheduled |-> window.start]]
  BY DEF Activate
<1>3. window.end \in Nat /\ window.start \in Nat \cup {Unscheduled} /\ (window.start # Unscheduled => window.start <= opens)
  BY <1>1 DEF WindowsFrom, Unscheduled
<1> DEFINE new == [module |-> u, opens |-> opens, closes |-> window.end, status |-> "OPEN", scheduled |-> window.start]
<1>4. new \in ClassRows
  BY <1>1, <1>3 DEF ClassRows
<1>5. FiguresTypeOK'
  BY <1>2, <1>4 DEF FiguresInv, FiguresTypeOK, Activate
<1>6. meeting[m].status = "NONE"
  BY DEF Activate
<1>7. ASSUME NEW n \in Meetings
      PROVE  /\ meeting'[n].status # "NONE" =>
                  meeting'[n].module \in Modules /\ (meeting'[n].scheduled # Unscheduled => meeting'[n].scheduled <= meeting'[n].opens)
             /\ \A s \in Learners : <<n, s>> \in checkedIn \cup formerly => meeting'[n].status # "NONE" /\ meeting'[n].opens <= tick
  <2>1. CASE n = m
    <3>1. meeting'[n] = new
      BY <1>2, <2>1 DEF FiguresInv, FiguresTypeOK
    <3> QED BY <1>3, <1>6, <2>1, <3>1 DEF FiguresInv, ClassesHeld
  <2>2. CASE n # m
    <3>1. meeting'[n] = meeting[n]
      BY <1>2, <2>2 DEF FiguresInv, FiguresTypeOK
    <3> QED BY <3>1 DEF FiguresInv, ClassesHeld
  <2> QED BY <2>1, <2>2
<1>8. ClassesHeld'
  BY <1>7 DEF ClassesHeld, Activate
<1> QED BY <1>5, <1>8 DEF FiguresInv

\* The same class with another status and closing time.
LEMMA ClassFields ==
  ASSUME NEW row \in ClassRows
  PROVE  /\ [row EXCEPT !.status = "CLOSED"] \in ClassRows
         /\ \A t \in Nat : [row EXCEPT !.status = "CLOSED", !.closes = t] \in ClassRows
  BY DEF ClassRows

\* Ends kept: what a step that only ends classes leaves of them.
OnlyEnds ==
  /\ meeting' \in [Meetings -> ClassRows]
  /\ \A m \in Meetings :
       /\ meeting'[m].module = meeting[m].module
       /\ meeting'[m].opens = meeting[m].opens
       /\ meeting'[m].scheduled = meeting[m].scheduled
       /\ meeting'[m].status = "NONE" <=> meeting[m].status = "NONE"
       /\ meeting[m].status = "CLOSED" => meeting'[m].status = "CLOSED" /\ meeting'[m].closes = meeting[m].closes
       /\ meeting'[m].status = "CLOSED" \/ meeting'[m] = meeting[m]

LEMMA CloseMeetingEnds ==
  ASSUME FiguresInv, NEW m \in Meetings, CloseMeeting(m)
  PROVE  OnlyEnds
<1> DEFINE new == [meeting[m] EXCEPT !.status = "CLOSED"]
<1>1. meeting[m] \in ClassRows /\ meeting[m].status = "OPEN"
  BY DEF FiguresInv, FiguresTypeOK, CloseMeeting
<1>2. new \in ClassRows /\ new.module = meeting[m].module /\ new.opens = meeting[m].opens
      /\ new.scheduled = meeting[m].scheduled /\ new.status = "CLOSED"
  BY <1>1, ClassFields DEF ClassRows
<1>3. meeting' = [meeting EXCEPT ![m] = new]
  BY DEF CloseMeeting
<1> HIDE DEF new
<1>4. meeting \in [Meetings -> ClassRows]
  BY DEF FiguresInv, FiguresTypeOK
<1> QED BY <1>1, <1>2, <1>3, <1>4 DEF OnlyEnds

LEMMA DeleteTutorEnds ==
  ASSUME FiguresInv, NEW t \in Tutors, DeleteTutor(t)
  PROVE  OnlyEnds
<1> DEFINE Ending(m) == meeting[m].status = "OPEN" /\ TaughtBy[meeting[m].module] = t
           until(m) == IF meeting[m].closes <= tick THEN meeting[m].closes
                       ELSE IF tick <= meeting[m].opens THEN meeting[m].opens + 1 ELSE tick
           new(m) == [meeting[m] EXCEPT !.status = "CLOSED", !.closes = until(m)]
<1>1. meeting \in [Meetings -> ClassRows] /\ tick \in Nat
  BY DEF FiguresInv, FiguresTypeOK
<1>2. \A m \in Meetings : meeting'[m] = IF Ending(m) THEN new(m) ELSE meeting[m]
  BY <1>1 DEF DeleteTutor
<1>3. meeting' = [m \in Meetings |-> meeting'[m]]
  BY DEF DeleteTutor
<1>4. ASSUME NEW m \in Meetings, Ending(m)
      PROVE  /\ new(m) \in ClassRows /\ new(m).module = meeting[m].module /\ new(m).opens = meeting[m].opens
             /\ new(m).scheduled = meeting[m].scheduled /\ new(m).status = "CLOSED" /\ meeting[m].status = "OPEN"
  <2>1. meeting[m] \in ClassRows
    BY <1>1
  <2>2. until(m) \in Nat
    BY <1>1, <2>1 DEF ClassRows
  <2> QED BY <1>4, <2>1, <2>2, ClassFields DEF ClassRows
<1> HIDE DEF Ending, new
<1>5. \A m \in Meetings : meeting'[m] \in ClassRows
  BY <1>1, <1>2, <1>4
<1>6. meeting' \in [Meetings -> ClassRows]
  BY <1>3, <1>5
<1>7. ASSUME NEW m \in Meetings
      PROVE  /\ meeting'[m].module = meeting[m].module
             /\ meeting'[m].opens = meeting[m].opens
             /\ meeting'[m].scheduled = meeting[m].scheduled
             /\ meeting'[m].status = "NONE" <=> meeting[m].status = "NONE"
             /\ meeting[m].status = "CLOSED" => meeting'[m].status = "CLOSED" /\ meeting'[m].closes = meeting[m].closes
             /\ meeting'[m].status = "CLOSED" \/ meeting'[m] = meeting[m]
  <2>1. CASE Ending(m)
    BY <1>2, <1>4, <2>1
  <2>2. CASE ~Ending(m)
    BY <1>2, <2>2
  <2> QED BY <2>1, <2>2
<1> QED BY <1>6, <1>7 DEF OnlyEnds

\* Classes that only end keep what is held of them.
LEMMA EndsHeld ==
  ASSUME ClassesHeld, OnlyEnds, checkedIn' \cup formerly' = checkedIn \cup formerly, tick' = tick
  PROVE  ClassesHeld'
BY DEF ClassesHeld, OnlyEnds

LEMMA FiguresStepInv ==
  ASSUME FiguresAssumption, FiguresInv, [FiguresNext]_figuresVars PROVE FiguresInv'
<1> USE DEF FiguresInv, FiguresTypeOK
<1>1. ASSUME NEW m \in Meetings, NEW u \in Modules, NEW opens \in Openings, Activate(m, u, opens) PROVE FiguresInv'
  BY <1>1, ActivateInv
<1>2. ASSUME NEW m \in Meetings, CloseMeeting(m) PROVE FiguresInv'
  <2>1. OnlyEnds
    BY <1>2, CloseMeetingEnds
  <2>2. ClassesHeld'
    BY <1>2, <2>1, EndsHeld DEF CloseMeeting
  <2> QED BY <1>2, <2>1, <2>2 DEF CloseMeeting, OnlyEnds
<1>3. ASSUME NEW m \in Meetings, NEW s \in Learners, Attend(m, s) PROVE FiguresInv'
  <2>1. ClassesHeld'
    BY <1>3 DEF ClassesHeld, Attend
  <2> QED BY <1>3, <2>1 DEF Attend
<1>4. ASSUME NEW u \in Modules, NEW s \in Learners, Enrol(u, s) PROVE FiguresInv'
  BY <1>4 DEF Enrol, ClassesHeld
<1>5. ASSUME NEW t \in Tutors, DeleteTutor(t) PROVE FiguresInv'
  <2>1. OnlyEnds
    BY <1>5, DeleteTutorEnds
  <2>2. ClassesHeld'
    <3>1. UNCHANGED <<checkedIn, formerly, tick>>
      BY <1>5 DEF DeleteTutor, Deletion
    <3> HIDE DEF FiguresInv, FiguresTypeOK
    <3>2. ClassesHeld
      BY DEF FiguresInv
    <3> QED BY <2>1, <3>1, <3>2, EndsHeld
  <2>3. meeting' \in [Meetings -> ClassRows]
    BY <2>1 DEF OnlyEnds
  <2>4. /\ departed' = departed \cup {t} /\ deletions' = deletions + 1
        /\ UNCHANGED <<tick, enrolled, checkedIn, formerly, withAccount, policy>>
    BY <1>5 DEF DeleteTutor, Deletion
  <2> HIDE DEF ClassesHeld
  <2> QED BY <2>2, <2>3, <2>4
<1>6. ASSUME NEW s \in Learners, DeleteLearner(s) PROVE FiguresInv'
  <2>1. ClassesHeld'
    BY <1>6 DEF DeleteLearner, ClassesHeld
  <2> QED BY <1>6, <2>1 DEF DeleteLearner, Deletion
<1>7. ASSUME NEW s \in Learners, RegisterAgain(s) PROVE FiguresInv'
  BY <1>7 DEF RegisterAgain, ClassesHeld
<1>8. ASSUME NEW rule \in Policies, SetPolicy(rule) PROVE FiguresInv'
  BY <1>8 DEF SetPolicy, ClassesHeld
<1>9. CASE TickOn
  <2>1. ClassesHeld'
    <3>1. ASSUME NEW m \in Meetings, meeting[m].opens <= tick PROVE meeting[m].opens <= tick + 1
      BY <3>1 DEF ClassRows
    <3> QED BY <1>9, <3>1 DEF TickOn, ClassesHeld
  <2> QED BY <1>9, <2>1 DEF TickOn
<1>10. CASE UNCHANGED figuresVars
  BY <1>10 DEF figuresVars, ClassesHeld
<1> QED BY <1>1, <1>2, <1>3, <1>4, <1>5, <1>6, <1>7, <1>8, <1>9, <1>10 DEF FiguresNext

(* The figures are of known classes, units and students in every state, a   *)
(* class in a slot opens inside it, and no class is attended before it      *)
(* opens (session.service.ts resolveWindow, student.repository.ts).         *)
THEOREM FiguresTypes ==
  ASSUME FiguresAssumption PROVE FiguresSpec => []FiguresInv
<1>1. FiguresInit => FiguresInv
  BY FiguresInitInv
<1>2. FiguresInv /\ [FiguresNext]_figuresVars => FiguresInv'
  BY FiguresStepInv
<1> QED BY <1>1, <1>2, PTL DEF FiguresSpec

-----------------------------------------------------------------------------
(* Punctuality. *)

\* Rounding to the nearest whole: within half of it.
LEMMA NearestIsNear ==
  ASSUME TicksPerMinute \in Nat \ {0}, NEW ticks \in Nat
  PROVE  /\ Nearest(ticks) \in Nat
         /\ 2 * TicksPerMinute * Nearest(ticks) <= 2 * ticks + TicksPerMinute
         /\ 2 * ticks < 2 * TicksPerMinute * Nearest(ticks) + TicksPerMinute
<1> DEFINE x == 2 * ticks + TicksPerMinute
           y == 2 * TicksPerMinute
<1>1. x \in Nat /\ y \in Nat \ {0}
  OBVIOUS
<1>2. x \div y \in Nat /\ y * (x \div y) <= x /\ x < y * (x \div y) + y
  <2> HIDE DEF x, y
  <2> QED BY <1>1
<1>3. Nearest(ticks) = x \div y
  BY DEF Nearest
<1>4. /\ Nearest(ticks) \in Nat
      /\ y * Nearest(ticks) <= x
      /\ x < y * Nearest(ticks) + y
  <2> HIDE DEF x, y
  <2> QED BY <1>2, <1>3
<1>5. 2 * ticks < 2 * TicksPerMinute * Nearest(ticks) + TicksPerMinute
  <2> DEFINE n == Nearest(ticks)
  <2>1. n \in Nat /\ 2 * ticks + TicksPerMinute < y * n + 2 * TicksPerMinute
    BY <1>4
  <2>2. y * n \in Nat /\ 2 * TicksPerMinute * n = y * n
    BY <2>1, <1>1
  <2> HIDE DEF n, y
  <2>3. 2 * ticks < y * n + TicksPerMinute
    BY <2>1, <2>2
  <2> QED BY <2>2, <2>3 DEF n
<1> QED BY <1>4, <1>5

\* Whole minutes below a whole number of minutes.
LEMMA WholeMinutes ==
  ASSUME NEW T \in Nat \ {0}, NEW n \in Nat, NEW k \in Nat
  PROVE  /\ 2 * T * n <= 2 * (T * k) + T => n * T <= T * k
         /\ n * T <= T * k => 2 * T * n <= 2 * (T * k)
<1>1. n <= k => T * n <= T * k
  OBVIOUS
<1>2. n >= k + 1 => T * n >= T * k + T
  <2>1. ASSUME n >= k + 1 PROVE T * n >= T * (k + 1)
    BY <2>1
  <2>2. T * (k + 1) = T * k + T
    OBVIOUS
  <2> QED BY <2>1, <2>2
<1>3. n * T = T * n /\ 2 * T * n = 2 * (T * n) /\ T * n \in Nat /\ T * k \in Nat
  OBVIOUS
<1> QED BY <1>1, <1>2, <1>3

LEMMA LogAgreesAnywhere ==
  ASSUME FiguresAssumption, FiguresInv PROVE LogAgreesToHalfAMinute
<1> SUFFICES ASSUME NEW m \in Meetings, Measurable(m)
             PROVE  /\ OnTimeInRate(m) => OnTimeInLog(m)
                    /\ OnTimeInLog(m) => 2 * (Late(m) - Grace) < TicksPerMinute
                    /\ LateMinutesShown(m) = LateMinutes(m)
  BY DEF LogAgreesToHalfAMinute
<1>1. TicksPerMinute \in Nat \ {0} /\ Grace \in Nat /\ Grace % TicksPerMinute = 0
  BY DEF FiguresAssumption
<1>2. Late(m) \in Nat
  <2>1. meeting[m] \in ClassRows
    BY DEF FiguresInv, FiguresTypeOK
  <2> QED BY <2>1 DEF FiguresInv, ClassesHeld, Late, Measurable, ClassRows
<1>3. LateMinutes(m) = Nearest(Late(m)) /\ LateMinutesShown(m) = Nearest(Late(m))
  BY <1>2 DEF LateMinutes, LateMinutesShown
<1>4. PICK k \in Nat : Grace = TicksPerMinute * k
  <2>1. Grace = TicksPerMinute * (Grace \div TicksPerMinute) + (Grace % TicksPerMinute) /\ Grace \div TicksPerMinute \in Nat
    BY <1>1
  <2>2. Grace = TicksPerMinute * (Grace \div TicksPerMinute)
    BY <1>1, <2>1, SMTT(30)
  <2> QED BY <2>1, <2>2
<1> DEFINE n == Nearest(Late(m))
           l == Late(m)
<1>5. n \in Nat /\ 2 * TicksPerMinute * n <= 2 * l + TicksPerMinute /\ 2 * l < 2 * TicksPerMinute * n + TicksPerMinute
  BY <1>1, <1>2, NearestIsNear
<1>6. /\ 2 * TicksPerMinute * n <= 2 * (TicksPerMinute * k) + TicksPerMinute => n * TicksPerMinute <= TicksPerMinute * k
      /\ n * TicksPerMinute <= TicksPerMinute * k => 2 * TicksPerMinute * n <= 2 * (TicksPerMinute * k)
  <2> HIDE DEF n
  <2> QED BY <1>1, <1>4, <1>5, WholeMinutes
<1>7. l \in Nat /\ TicksPerMinute * k \in Nat /\ 2 * TicksPerMinute * n \in Nat /\ n * TicksPerMinute \in Nat
  <2> HIDE DEF n, l
  <2> QED BY <1>1, <1>2, <1>4, <1>5 DEF l
<1>8. l <= Grace => n * TicksPerMinute <= Grace
  <2> HIDE DEF n, l
  <2> QED BY <1>1, <1>4, <1>5, <1>6, <1>7
<1>9. n * TicksPerMinute <= Grace => 2 * (l - Grace) < TicksPerMinute
  <2> HIDE DEF n, l
  <2> QED BY <1>1, <1>4, <1>5, <1>6, <1>7
<1> QED BY <1>3, <1>8, <1>9 DEF OnTimeInRate, OnTimeInLog

(* For any timetable and any whole number of minutes of grace: on time in   *)
(* the rate is on time in the log, the log allows half a minute more, and   *)
(* the two pages show the same minutes (department.service.ts lateMinutes). *)
THEOREM LogAlwaysAgrees ==
  ASSUME FiguresAssumption PROVE FiguresSpec => []LogAgreesToHalfAMinute
BY LogAgreesAnywhere, FiguresTypes, PTL

-----------------------------------------------------------------------------
(* A student's standing. *)

\* Classes are few, and what counts for a student is among them.
LEMMA ClassesFinite ==
  ASSUME FiguresAssumption
  PROVE  IsFiniteSet(Meetings) /\ \A S \in SUBSET Meetings : IsFiniteSet(S) /\ Cardinality(S) \in Nat
<1>1. MaxMeetings \in Nat
  BY DEF FiguresAssumption
<1>2. IsFiniteSet(Meetings)
  BY <1>1, FS_Interval DEF Meetings
<1>3. ASSUME NEW S \in SUBSET Meetings PROVE IsFiniteSet(S) /\ Cardinality(S) \in Nat
  BY <1>2, FS_Subset, FS_CardinalityType
<1> QED BY <1>2, <1>3

\* What a student attended has opened, so it counts.
LEMMA AttendedIsHeld ==
  ASSUME FiguresInv, NEW u \in Modules, NEW s \in Learners
  PROVE  Attended(u, s) \subseteq Held(u, s) /\ Held(u, s) \subseteq Meetings
  BY DEF Attended, Held, Of, Here, FiguresInv, ClassesHeld

\* The row of a student is on every page that shows the unit, and the sheets say as much.
LEMMA RowShownEverywhere ==
  ASSUME FiguresAssumption, FiguresInv, NEW u \in Modules, NEW s \in ActiveOn(u)
  PROVE  /\ StudentRow(u, s) \in StudentsUnits(s) \cap TutorsStudents(TaughtBy[u])
         /\ StudentRow(u, s) \in DepartmentStudents(OwnedBy[u])
         /\ YearOf[u] # 0 => StudentRow(u, s) \in UnitStudents(YearUnits(OwnedBy[u], YearOf[u]))
         /\ StudentRow(u, s) \in EligibilityReport({OwnedBy[u]}).rows
               <=> Classify(StudentRow(u, s), policy) \in {"AT_RISK", "NOT_ELIGIBLE"}
         /\ {m \in Of(u) : ExportedSheet(m)[s] = "Present"} # Attended(u, s)
               => \E m \in {n \in Of(u) : ExportedSheet(n)[s] = "Present"} : s \in Once(m)
<1>3. StudentRow(u, s) \in {StudentRow(u, x) : x \in ActiveOn(u)}
  OBVIOUS
<1>4. StudentRow(u, s) \in StudentsUnits(s) \cap TutorsStudents(TaughtBy[u])
  BY <1>3 DEF StudentsUnits, UnitsOf, TutorsStudents
<1>5. StudentRow(u, s) \in DepartmentStudents(OwnedBy[u])
  BY <1>3 DEF DepartmentStudents
<1>6. StudentRow(u, s) \in UnitStudents(YearUnits(OwnedBy[u], YearOf[u]))
  BY <1>3 DEF UnitStudents, YearUnits
<1>7. StudentRow(u, s) \in EligibilityReport({OwnedBy[u]}).rows
        <=> Classify(StudentRow(u, s), policy) \in {"AT_RISK", "NOT_ELIGIBLE"}
  <2>1. StudentRow(u, s) \in Standing({OwnedBy[u]})
    BY <1>3 DEF Standing
  <2> QED BY <2>1 DEF EligibilityReport
<1>8. ASSUME {m \in Of(u) : ExportedSheet(m)[s] = "Present"} # Attended(u, s)
      PROVE  \E m \in {n \in Of(u) : ExportedSheet(n)[s] = "Present"} : s \in Once(m)
  <2>1. ASSUME NEW m \in Of(u)
        PROVE  ExportedSheet(m)[s] = IF s \in Here(m) \cup Once(m) THEN "Present" ELSE "Absent"
    BY DEF ExportedSheet, Of
  <2>2. Attended(u, s) \subseteq {m \in Of(u) : ExportedSheet(m)[s] = "Present"}
    BY <2>1 DEF Attended
  <2>3. PICK m \in Of(u) : ExportedSheet(m)[s] = "Present" /\ m \notin Attended(u, s)
    BY <1>8, <2>2 DEF Attended
  <2>4. s \in Once(m)
    BY <2>1, <2>3 DEF Attended
  <2> QED BY <2>3, <2>4
<1> QED BY <1>4, <1>5, <1>6, <1>7, <1>8

-----------------------------------------------------------------------------
(* The verdict. *)

Rules == [least : 1 .. 100, margin : 0 .. 50]

\* A bound of at most 100 % that was met is met when no more classes count than were attended since.
LEMMA StillMet ==
  ASSUME NEW bound \in 0 .. 100, NEW a \in Nat, NEW h \in Nat, NEW more \in Nat, NEW grown \in Nat, grown <= more,
         a * 100 >= bound * h
  PROVE  (a + more) * 100 >= bound * (h + grown)
<1>1. bound * grown <= 100 * grown
  OBVIOUS
<1>2. bound * (h + grown) = bound * h + bound * grown /\ bound * h \in Nat /\ bound * grown \in Nat
  OBVIOUS
<1>3. 100 * grown <= 100 * more
  OBVIOUS
<1> QED BY <1>1, <1>2, <1>3

\* Neither bound is missed by counting more classes and at least as many more attended.
LEMMA BoundsStillMet ==
  ASSUME NEW least \in 1 .. 100, NEW both \in Nat, NEW a \in Nat, NEW h \in Nat, NEW more \in Nat, NEW grown \in Nat,
         a <= h, grown <= more, both <= 100 \/ h # 0
  PROVE  /\ ~(a * 100 < least * h) => ~((a + more) * 100 < least * (h + grown))
         /\ ~(a * 100 < both * h) => ~((a + more) * 100 < both * (h + grown))
         /\ h = 0 => ~(a * 100 < least * h) /\ ~(a * 100 < both * h)
<1>1. a * 100 \in Nat /\ least * h \in Nat /\ both * h \in Nat /\ (a + more) * 100 \in Nat
      /\ least * (h + grown) \in Nat /\ both * (h + grown) \in Nat
  OBVIOUS
<1>2. a * 100 >= least * h => (a + more) * 100 >= least * (h + grown)
  BY StillMet
<1>3. CASE both <= 100
  <2>1. both \in 0 .. 100
    BY <1>3
  <2>2. a * 100 >= both * h => (a + more) * 100 >= both * (h + grown)
    BY <2>1, StillMet
  <2>3. h = 0 => least * h = 0 /\ both * h = 0
    OBVIOUS
  <2> QED BY <1>1, <1>2, <2>2, <2>3
<1>4. CASE both > 100
  <2>1. h \in Nat \ {0}
    BY <1>4
  <2>2. both * h = 100 * h + (both - 100) * h
    OBVIOUS
  <2>3. (both - 100) * h > 0
    BY <1>4, <2>1
  <2>4. a * 100 <= 100 * h /\ 100 * h \in Nat
    OBVIOUS
  <2> QED BY <1>1, <1>2, <2>1, <2>2, <2>3, <2>4
<1> QED BY <1>3, <1>4

\* More classes counted and at least as many more attended never make the verdict worse.
LEMMA NoWorse ==
  ASSUME NEW rule \in Rules, NEW old, NEW new,
         old.held \in Nat, old.attended \in Nat, new.held \in Nat, new.attended \in Nat,
         old.attended <= old.held, old.held <= new.held, new.held - old.held <= new.attended - old.attended,
         rule.least + rule.margin <= 100 \/ old.held # 0
  PROVE  Severity(Classify(new, rule)) >= Severity(Classify(old, rule))
<1>1. PICK more \in Nat, grown \in Nat : new.attended = old.attended + more /\ new.held = old.held + grown /\ grown <= more
  <2>1. new.attended - old.attended \in Nat /\ new.held - old.held \in Nat
    OBVIOUS
  <2> QED BY <2>1
<1>2. rule.least \in 1 .. 100 /\ rule.least + rule.margin \in Nat
  BY DEF Rules
<1>3. PICK both \in Nat : both = rule.least + rule.margin
  BY <1>2
<1>4. /\ ~(old.attended * 100 < rule.least * old.held) => ~(new.attended * 100 < rule.least * new.held)
      /\ ~(old.attended * 100 < both * old.held) => ~(new.attended * 100 < both * new.held)
      /\ old.held = 0 => ~(old.attended * 100 < rule.least * old.held) /\ ~(old.attended * 100 < both * old.held)
  <2> DEFINE a == old.attended
             h == old.held
             least == rule.least
  <2>1. a \in Nat /\ h \in Nat /\ least \in 1 .. 100 /\ a <= h /\ (both <= 100 \/ h # 0)
        /\ new.attended = a + more /\ new.held = h + grown
    BY <1>1, <1>2, <1>3
  <2> HIDE DEF a, h, least
  <2>2. /\ ~(a * 100 < least * h) => ~((a + more) * 100 < least * (h + grown))
        /\ ~(a * 100 < both * h) => ~((a + more) * 100 < both * (h + grown))
        /\ h = 0 => ~(a * 100 < least * h) /\ ~(a * 100 < both * h)
    BY <1>1, <2>1, BoundsStillMet
  <2>3. /\ ~(a * 100 < least * h) => ~(new.attended * 100 < least * new.held)
        /\ ~(a * 100 < both * h) => ~(new.attended * 100 < both * new.held)
        /\ h = 0 => ~(a * 100 < least * h) /\ ~(a * 100 < both * h)
    BY <2>1, <2>2
  <2> QED BY <2>3 DEF a, h, least
<1>5. new.held = 0 => old.held = 0
  OBVIOUS
<1>6. \A row : Classify(row, rule) =
                IF row.held = 0 THEN "NOT_YET_MEASURED"
                ELSE IF row.attended * 100 < rule.least * row.held THEN "NOT_ELIGIBLE"
                ELSE IF row.attended * 100 < both * row.held THEN "AT_RISK"
                ELSE "ELIGIBLE"
  BY <1>3 DEF Classify
<1>7. /\ Severity("NOT_ELIGIBLE") = 0 /\ Severity("AT_RISK") = 1
      /\ Severity("ELIGIBLE") = 2 /\ Severity("NOT_YET_MEASURED") = 2
  BY DEF Severity
<1> DEFINE before == Severity(Classify(old, rule))
           after == Severity(Classify(new, rule))
<1>8. before = after \/ (before = 0 /\ after \in {1, 2}) \/ (before = 1 /\ after = 2)
  BY <1>4, <1>5, <1>6, <1>7
<1>9. after \in Nat
  BY DEF Severity
<1>10. after >= before
  <2> HIDE DEF before, after
  <2> QED BY <1>8, <1>9
<1> QED BY <1>10

\* What is over stays over, and what has opened stays so.
LEMMA ClassesOnlyAge ==
  ASSUME FiguresAssumption, FiguresInv, FiguresInv', [FiguresNext]_figuresVars, NEW m \in Meetings, meeting[m].status # "NONE"
  PROVE  /\ meeting'[m].module = meeting[m].module /\ meeting'[m].opens = meeting[m].opens /\ meeting'[m].status # "NONE"
         /\ Over(m) => Over(m)'
         /\ tick <= tick'
<1> USE DEF FiguresInv, FiguresTypeOK
<1>1. meeting[m] \in ClassRows /\ tick \in Nat /\ meeting[m].closes \in Nat
  BY DEF ClassRows
<1>2. CASE meeting' = meeting
  <2>1. tick <= tick'
    <3>1. tick' = tick \/ tick' = tick + 1
      <4>1. ASSUME NEW t \in Tutors, DeleteTutor(t) PROVE tick' = tick
        BY <4>1 DEF DeleteTutor
      <4>2. ASSUME NEW n \in Meetings, NEW v \in Modules, NEW opens \in Openings, Activate(n, v, opens) PROVE tick' = tick
        BY <4>2 DEF Activate
      <4>3. ASSUME NEW n \in Meetings, CloseMeeting(n) PROVE tick' = tick
        BY <4>3 DEF CloseMeeting
      <4> QED BY <4>1, <4>2, <4>3 DEF FiguresNext, figuresVars, Attend, Enrol, DeleteLearner, RegisterAgain, SetPolicy, TickOn
    <3> QED BY <1>1, <3>1
  <2> QED BY <1>1, <1>2, <2>1 DEF Over
<1>3. ASSUME NEW n \in Meetings, NEW u \in Modules, NEW opens \in Openings, Activate(n, u, opens)
      PROVE  meeting'[m] = meeting[m] /\ tick' = tick
  BY <1>3 DEF Activate
<1>4. CASE OnlyEnds /\ tick' = tick
  BY <1>1, <1>4 DEF OnlyEnds, Over
<1>5. ASSUME NEW n \in Meetings, CloseMeeting(n) PROVE OnlyEnds /\ tick' = tick
  BY <1>5, CloseMeetingEnds DEF CloseMeeting
<1>6. ASSUME NEW t \in Tutors, DeleteTutor(t) PROVE OnlyEnds /\ tick' = tick
  BY <1>6, DeleteTutorEnds DEF DeleteTutor
<1>7. CASE meeting'[m] = meeting[m] /\ tick' = tick
  BY <1>1, <1>7 DEF Over
<1>8. meeting' = meeting \/ (meeting'[m] = meeting[m] /\ tick' = tick) \/ (OnlyEnds /\ tick' = tick)
  <2>1. ASSUME NEW n \in Meetings, NEW s \in Learners, Attend(n, s) PROVE meeting' = meeting
    BY <2>1 DEF Attend
  <2>2. ASSUME NEW u \in Modules, NEW s \in Learners, Enrol(u, s) PROVE meeting' = meeting
    BY <2>2 DEF Enrol
  <2>3. ASSUME NEW s \in Learners, DeleteLearner(s) \/ RegisterAgain(s) PROVE meeting' = meeting
    BY <2>3 DEF DeleteLearner, RegisterAgain
  <2>4. ASSUME NEW rule \in Policies, SetPolicy(rule) PROVE meeting' = meeting
    BY <2>4 DEF SetPolicy
  <2>5. TickOn \/ UNCHANGED figuresVars => meeting' = meeting
    BY DEF TickOn, figuresVars
  <2> QED BY <1>3, <1>5, <1>6, <2>1, <2>2, <2>3, <2>4, <2>5 DEF FiguresNext
<1> QED BY <1>2, <1>4, <1>7, <1>8

\* A record goes only with its student's account.
LEMMA RecordsStay ==
  ASSUME [FiguresNext]_figuresVars, NEW m \in Meetings, NEW s \in Learners, <<m, s>> \in checkedIn,
         ~(s \in withAccount \ withAccount')
  PROVE  <<m, s>> \in checkedIn'
<1>1. ASSUME NEW x \in Learners, DeleteLearner(x) PROVE <<m, s>> \in checkedIn'
  BY <1>1 DEF DeleteLearner
<1> QED BY <1>1 DEF FiguresNext, figuresVars, Activate, CloseMeeting, Attend, Enrol, DeleteTutor, RegisterAgain, SetPolicy, TickOn

LEMMA VerdictStep ==
  ASSUME FiguresAssumption, FiguresInv, FiguresInv', [FiguresNext]_figuresVars PROVE OpenClassIsNoAbsenceStep
<1> SUFFICES ASSUME NEW u \in Modules, NEW s \in ActiveOn(u),
                    policy' = policy, ~(s \in withAccount \ withAccount'),
                    \A m \in Done(u)' \ Done(u) : s \in Here(m),
                    policy.least + policy.margin <= 100 \/ StudentRow(u, s).held # 0
             PROVE  ~(Severity(Classify(StudentRow(u, s), policy))' < Severity(Classify(StudentRow(u, s), policy)))
  <2>1. policy \in Rules
    BY DEF FiguresInv, FiguresTypeOK, FiguresAssumption, Rules
  <2>2. policy.least + policy.margin \in Nat
    BY <2>1 DEF Rules
  <2> QED BY <2>2 DEF OpenClassIsNoAbsenceStep
<1> DEFINE old == StudentRow(u, s)
           new == [module |-> u, learner |-> s, held |-> Cardinality(Held(u, s)'), attended |-> Cardinality(Attended(u, s)')]
<1>0. s \in Learners /\ policy \in Rules
  BY DEF ActiveOn, FiguresInv, FiguresTypeOK, FiguresAssumption, Rules
<1>1. Attended(u, s) \subseteq Held(u, s) /\ Held(u, s) \subseteq Meetings
  BY <1>0, AttendedIsHeld
<1>2. Attended(u, s)' \subseteq Held(u, s)' /\ Held(u, s)' \subseteq Meetings
  BY <1>0 DEF Attended, Held, Of, Here, FiguresInv, ClassesHeld
<1>3. Attended(u, s) \subseteq Attended(u, s)'
  BY <1>0, ClassesOnlyAge, RecordsStay DEF Attended, Of, Here
<1>4. Held(u, s) \subseteq Held(u, s)'
  <2> SUFFICES ASSUME NEW m \in Held(u, s) PROVE m \in Held(u, s)'
    OBVIOUS
  <2>1. m \in Meetings /\ meeting[m].status # "NONE" /\ meeting[m].module = u /\ meeting[m].opens <= tick
    BY DEF Held, Of
  <2>2. /\ meeting'[m].module = u /\ meeting'[m].opens = meeting[m].opens /\ meeting'[m].status # "NONE"
        /\ Over(m) => Over(m)'
        /\ tick <= tick'
    BY <2>1, ClassesOnlyAge
  <2>3. meeting'[m].opens <= tick'
    <3>1. meeting[m].opens \in Nat /\ tick \in Nat /\ tick' \in Nat
      BY <2>1 DEF FiguresInv, FiguresTypeOK, ClassRows
    <3> QED BY <2>1, <2>2, <3>1
  <2>4. s \in Here(m) => s \in Here(m)'
    BY <1>0, <2>1, RecordsStay DEF Here
  <2> QED BY <2>1, <2>2, <2>3, <2>4 DEF Held, Of
<1>5. Held(u, s)' \ Held(u, s) \subseteq Attended(u, s)' \ Attended(u, s)
  <2> SUFFICES ASSUME NEW m \in Held(u, s)', m \notin Held(u, s) PROVE m \in Attended(u, s)' /\ m \notin Attended(u, s)
    OBVIOUS
  <2>1. m \notin Attended(u, s)
    BY <1>1
  <2>2. m \in Meetings /\ m \in Of(u)' /\ (s \in Here(m)' \/ Over(m)') /\ meeting'[m].opens <= tick'
    BY DEF Held, Of
  <2>3. CASE s \in Here(m)'
    BY <2>1, <2>2, <2>3 DEF Attended
  <2>4. CASE Over(m)'
    <3>1. m \in Done(u)'
      BY <2>2, <2>4 DEF Done
    <3>2. m \notin Done(u)
      BY DEF Done, Held
    <3>3. s \in Here(m)
      BY <3>1, <3>2
    <3>4. s \in Here(m)'
      BY <1>0, <2>2, <3>3, RecordsStay DEF Here
    <3> QED BY <2>1, <2>2, <3>4 DEF Attended
  <2> QED BY <2>2, <2>3, <2>4
<1> DEFINE H == Held(u, s)
           A == Attended(u, s)
           H2 == Held(u, s)'
           A2 == Attended(u, s)'
<1>6. /\ Cardinality(A) \in Nat /\ Cardinality(H) \in Nat /\ Cardinality(A2) \in Nat /\ Cardinality(H2) \in Nat
      /\ Cardinality(A) <= Cardinality(H) /\ Cardinality(A2) <= Cardinality(H2) /\ Cardinality(H) <= Cardinality(H2)
      /\ Cardinality(H2) - Cardinality(H) <= Cardinality(A2) - Cardinality(A)
  <2>1. IsFiniteSet(H) /\ IsFiniteSet(A) /\ IsFiniteSet(H2) /\ IsFiniteSet(A2)
    BY <1>1, <1>2, ClassesFinite
  <2> HIDE DEF H, A, H2, A2
  <2>2. A \subseteq H /\ A2 \subseteq H2 /\ H \subseteq H2 /\ A \subseteq A2 /\ (H2 \ H) \subseteq (A2 \ A)
    BY <1>1, <1>2, <1>3, <1>4, <1>5 DEF H, A, H2, A2
  <2>3. Cardinality(A) <= Cardinality(H) /\ Cardinality(A2) <= Cardinality(H2) /\ Cardinality(H) <= Cardinality(H2)
    BY <2>1, <2>2, FS_Subset
  <2>4. Cardinality(H2 \ H) = Cardinality(H2) - Cardinality(H) /\ IsFiniteSet(H2 \ H)
    <3>1. H2 \cap H = H
      BY <2>2
    <3> QED BY <2>1, <3>1, FS_Difference
  <2>5. Cardinality(A2 \ A) = Cardinality(A2) - Cardinality(A) /\ IsFiniteSet(A2 \ A)
    <3>1. A2 \cap A = A
      BY <2>2
    <3> QED BY <2>1, <3>1, FS_Difference
  <2>6. Cardinality(H2 \ H) <= Cardinality(A2 \ A)
    BY <2>2, <2>5, FS_Subset
  <2>7. Cardinality(A) \in Nat /\ Cardinality(H) \in Nat /\ Cardinality(A2) \in Nat /\ Cardinality(H2) \in Nat
    BY <2>1, FS_CardinalityType
  <2> QED BY <2>3, <2>4, <2>5, <2>6, <2>7
<1>7. StudentRow(u, s)' = new /\ old.held = Cardinality(H) /\ old.attended = Cardinality(A)
      /\ new.held = Cardinality(H2) /\ new.attended = Cardinality(A2)
  BY DEF StudentRow
<1>8. Severity(Classify(new, policy)) >= Severity(Classify(old, policy))
  <2>1. policy.least + policy.margin <= 100 \/ old.held # 0
    OBVIOUS
  <2> HIDE DEF old, new, H, A, H2, A2
  <2> QED BY <1>0, <1>6, <1>7, <2>1, NoWorse
<1>9. Severity(Classify(StudentRow(u, s), policy))' = Severity(Classify(new, policy))
  BY <1>7 DEF Severity, Classify
<1>10. Severity(Classify(new, policy)) \in Nat /\ Severity(Classify(old, policy)) \in Nat
  BY DEF Severity
<1> QED BY <1>8, <1>9, <1>10

(* For any rule, classes and rosters: a class still open never counts       *)
(* against a student (eligibility.repository.ts listStanding).              *)
THEOREM OpenClassIsNeverAnAbsence ==
  ASSUME FiguresAssumption PROVE FiguresSpec => OpenClassIsNoAbsence
<1>1. FiguresInv /\ FiguresInv' /\ [FiguresNext]_figuresVars => [OpenClassIsNoAbsenceStep]_figuresVars
  BY VerdictStep
<1> QED BY <1>1, FiguresTypes, PTL DEF FiguresSpec, OpenClassIsNoAbsence

-----------------------------------------------------------------------------
(* Sums.  A page's total is the number of things counted, when each is      *)
(* counted in exactly one of its rows.                                      *)

\* The things of T, numbered within each x of S that counts them.
Numbered(S, T, g) == UNION {{x} \X (1 .. Cardinality({t \in T : g[t] = x})) : x \in S}

\* Numbering what each x of S counts numbers all that is counted.
LEMMA CountedInRows ==
  ASSUME NEW S, NEW T, IsFiniteSet(T), NEW g \in [T -> S]
  PROVE  Cardinality(Numbered(S, T, g)) = Cardinality(T)
<1> DEFINE F(x) == {t \in T : g[t] = x}
           n(x) == Cardinality(F(x))
           b == [x \in S |-> CHOOSE f : f \in Bijection(1 .. n(x), F(x))]
           P == UNION {{x} \X (1 .. n(x)) : x \in S}
           h == [p \in P |-> b[p[1]][p[2]]]
<1>1. ASSUME NEW x \in S
      PROVE  n(x) \in Nat /\ b[x] \in Bijection(1 .. n(x), F(x))
  <2>1. IsFiniteSet(F(x))
    BY FS_Subset
  <2>2. n(x) \in Nat /\ ExistsBijection(1 .. n(x), F(x))
    BY <2>1, FS_CardinalityType
  <2>3. \E f : f \in Bijection(1 .. n(x), F(x))
    BY <2>2 DEF ExistsBijection
  <2> HIDE DEF F, n
  <2> QED BY <2>2, <2>3
<1>2. ASSUME NEW x \in S
      PROVE  /\ \A i \in 1 .. n(x) : b[x][i] \in F(x)
             /\ \A i, j \in 1 .. n(x) : b[x][i] = b[x][j] => i = j
             /\ \A t \in F(x) : \E i \in 1 .. n(x) : b[x][i] = t
  <2> HIDE DEF b, F, n
  <2>1. b[x] \in Bijection(1 .. n(x), F(x))
    BY <1>1
  <2> QED BY <2>1 DEF Bijection, Injection, Surjection, IsInjective
<1>5. \A x \in S : \A t \in F(x) : t \in T /\ g[t] = x
  OBVIOUS
<1>6. \A t \in T : g[t] \in S /\ t \in F(g[t])
  OBVIOUS
<1> HIDE DEF F, n, b
<1>3. ASSUME NEW p \in P
      PROVE  p = <<p[1], p[2]>> /\ p[1] \in S /\ p[2] \in 1 .. n(p[1])
  <2>1. PICK x \in S : p \in {x} \X (1 .. n(x))
    OBVIOUS
  <2> QED BY <2>1
<1>4. ASSUME NEW x \in S, NEW i \in 1 .. n(x)
      PROVE  <<x, i>> \in P /\ h[<<x, i>>] = b[x][i]
  <2>1. <<x, i>> \in {x} \X (1 .. n(x))
    OBVIOUS
  <2>2. <<x, i>> \in P
    BY <2>1
  <2> QED BY <2>2
<1>7. \A p \in P : h[p] = b[p[1]][p[2]]
  OBVIOUS
<1>8. h = [p \in P |-> h[p]]
  OBVIOUS
<1> HIDE DEF P, h
<1>9. h \in [P -> T]
  BY <1>2, <1>3, <1>5, <1>7, <1>8
<1>10. ASSUME NEW p \in P, NEW q \in P, h[p] = h[q] PROVE p = q
  <2>1. b[p[1]][p[2]] \in F(p[1]) /\ b[q[1]][q[2]] \in F(q[1]) /\ b[p[1]][p[2]] = b[q[1]][q[2]]
    BY <1>2, <1>3, <1>7, <1>10
  <2>2. p[1] = q[1]
    BY <1>3, <1>5, <2>1
  <2>3. p[2] = q[2]
    BY <1>2, <1>3, <2>1, <2>2
  <2> QED BY <1>3, <2>2, <2>3
<1>11. ASSUME NEW t \in T PROVE \E p \in P : h[p] = t
  <2>1. PICK i \in 1 .. n(g[t]) : b[g[t]][i] = t
    BY <1>2, <1>6
  <2> QED BY <1>4, <1>6, <2>1
<1>12. h \in Bijection(P, T)
  BY <1>9, <1>10, <1>11 DEF Bijection, Injection, Surjection, IsInjective
<1>13. ExistsBijection(T, P)
  BY <1>12, Fun_ExistsBijSymmetric DEF ExistsBijection
<1>14. Cardinality(P) = Cardinality(T)
  BY <1>13, FS_Bijection
<1> QED BY <1>14 DEF P, n, F, Numbered

\* A page's total, its rows' figures added up.
Total(S, f) == Cardinality(UNION {{x} \X (1 .. f[x]) : x \in S})

\* It is the number of things counted, when each row counts its own.
LEMMA RowsSum ==
  ASSUME NEW S, NEW T, IsFiniteSet(T), NEW g \in [T -> S], NEW f, \A x \in S : f[x] = Cardinality({t \in T : g[t] = x})
  PROVE  Total(S, f) = Cardinality(T)
<1>1. UNION {{x} \X (1 .. f[x]) : x \in S} = Numbered(S, T, g)
  <2> DEFINE n(x) == Cardinality({t \in T : g[t] = x})
  <2>1. \A x \in S : {x} \X (1 .. f[x]) = {x} \X (1 .. n(x))
    OBVIOUS
  <2> HIDE DEF n
  <2>2. UNION {{x} \X (1 .. f[x]) : x \in S} = UNION {{x} \X (1 .. n(x)) : x \in S}
    BY <2>1
  <2> QED BY <2>2 DEF n, Numbered
<1>2. Cardinality(Numbered(S, T, g)) = Cardinality(T)
  BY CountedInRows
<1> QED BY <1>1, <1>2 DEF Total

\* Classes held, of one set of units.
MeetingsOf(us) == {m \in Meetings : meeting[m].status # "NONE" /\ meeting[m].module \in us}

LEMMA MeetingsOfUnits ==
  ASSUME NEW us PROVE UNION {Of(u) : u \in us} = MeetingsOf(us)
  BY DEF Of, MeetingsOf

LEMMA OwnersOwn ==
  ASSUME FiguresAssumption
  PROVE  \A u \in Modules : OwnedBy[u] \in OwningDepartments /\ TaughtBy[u] \in Tutors /\ YearOf[u] \in 0 .. 4
  BY DEF FiguresAssumption, OwningDepartments, Range

LEMMA UniversityHeldAddsUp ==
  ASSUME FiguresAssumption, FiguresInv
  PROVE  University.held = Cardinality({m \in Meetings : meeting[m].status # "NONE"})
<1> DEFINE S == OwningDepartments
           T == {m \in Meetings : meeting[m].status # "NONE"}
           g == [m \in T |-> OwnedBy[meeting[m].module]]
           f == [d \in S |-> ManagementRow(d).held]
<1>1. IsFiniteSet(T)
  BY ClassesFinite
<1>2. g \in [T -> S]
  BY OwnersOwn DEF FiguresInv, ClassesHeld
<1>3. ASSUME NEW d \in S PROVE f[d] = Cardinality({m \in T : g[m] = d})
  <2>1. {m \in T : g[m] = d} = {m \in Meetings : meeting[m].status # "NONE" /\ OwnedBy[meeting[m].module] = d}
    OBVIOUS
  <2> QED BY <2>1 DEF ManagementRow
<1>4. SumOver(S, LAMBDA d : ManagementRow(d).held) = Total(S, f)
  <2>1. UNION {{d} \X (1 .. ManagementRow(d).held) : d \in S} = UNION {{d} \X (1 .. f[d]) : d \in S}
    OBVIOUS
  <2> QED BY <2>1 DEF SumOver, Total
<1> HIDE DEF T, g, f
<1>5. Total(S, f) = Cardinality(T)
  BY <1>1, <1>2, <1>3, RowsSum
<1> QED BY <1>4, <1>5 DEF University, T

\* Two kinds of things, or two parts of them, counted apart.
LEMMA TwoKinds ==
  ASSUME NEW A, NEW B, IsFiniteSet(A), IsFiniteSet(B)
  PROVE  /\ IsFiniteSet(({0} \X A) \cup ({1} \X B))
         /\ Cardinality(({0} \X A) \cup ({1} \X B)) = Cardinality(A) + Cardinality(B)
<1> DEFINE P == {0} \X A
           Q == {1} \X B
<1>1. Cardinality(A) \in Nat /\ Cardinality(B) \in Nat
  BY FS_CardinalityType
<1>2. IsFiniteSet({0}) /\ Cardinality({0}) = 1 /\ IsFiniteSet({1}) /\ Cardinality({1}) = 1
  BY FS_Singleton
<1>3. IsFiniteSet(P) /\ Cardinality(P) = Cardinality({0}) * Cardinality(A)
  BY <1>2, FS_Product
<1>4. IsFiniteSet(Q) /\ Cardinality(Q) = Cardinality({1}) * Cardinality(B)
  BY <1>2, FS_Product
<1>5. P \cap Q = {}
  OBVIOUS
<1> HIDE DEF P, Q
<1>6. Cardinality(P) = Cardinality(A) /\ Cardinality(Q) = Cardinality(B)
  BY <1>1, <1>2, <1>3, <1>4
<1>7. IsFiniteSet(P \cup Q) /\ Cardinality(P \cup Q) = Cardinality(P) + Cardinality(Q) - Cardinality({})
  BY <1>3, <1>4, <1>5, FS_Union
<1>8. Cardinality(P \cup Q) = Cardinality(A) + Cardinality(B)
  BY <1>1, <1>6, <1>7, FS_EmptySet
<1> QED BY <1>7, <1>8 DEF P, Q

LEMMA TwoParts ==
  ASSUME NEW T, NEW A, NEW B, IsFiniteSet(T), T = A \cup B, A \cap B = {}
  PROVE  Cardinality(T) = Cardinality(A) + Cardinality(B)
<1>1. IsFiniteSet(A) /\ IsFiniteSet(B)
  BY FS_Subset
<1>2. Cardinality(A \cup B) = Cardinality(A) + Cardinality(B) - Cardinality({})
  BY <1>1, FS_Union
<1>3. Cardinality(A) \in Nat /\ Cardinality(B) \in Nat
  BY <1>1, FS_CardinalityType
<1> QED BY <1>2, <1>3, FS_EmptySet

LEMMA UniversityCheckInsAddUp ==
  ASSUME FiguresAssumption, FiguresInv
  PROVE  University.checkIns = Cardinality(checkedIn) + Cardinality(formerly)
<1> DEFINE S == OwningDepartments
           T == ({0} \X checkedIn) \cup ({1} \X formerly)
           owner(p) == OwnedBy[meeting[p[1]].module]
           g == [q \in T |-> owner(q[2])]
           f == [d \in S |-> ManagementRow(d).checkIns]
           now(d) == {p \in checkedIn : owner(p) = d}
           once(d) == {p \in formerly : owner(p) = d}
<1>1. IsFiniteSet(checkedIn) /\ IsFiniteSet(formerly)
  <2>1. IsFiniteSet(Learners)
    BY DEF FiguresAssumption
  <2>2. IsFiniteSet(Meetings \X Learners)
    BY <2>1, ClassesFinite, FS_Product
  <2> QED BY <2>2, FS_Subset DEF FiguresInv, FiguresTypeOK
<1>2. IsFiniteSet(T) /\ Cardinality(T) = Cardinality(checkedIn) + Cardinality(formerly)
  BY <1>1, TwoKinds
<1>3. ASSUME NEW p \in checkedIn \cup formerly PROVE owner(p) \in S
  <2>1. p[1] \in Meetings /\ p[2] \in Learners /\ p = <<p[1], p[2]>>
    BY DEF FiguresInv, FiguresTypeOK
  <2>2. meeting[p[1]].module \in Modules
    BY <2>1 DEF FiguresInv, ClassesHeld
  <2> QED BY <2>2, OwnersOwn
<1> HIDE DEF owner
<1>4. g \in [T -> S]
  BY <1>3
<1>5. ASSUME NEW d \in S PROVE f[d] = Cardinality({q \in T : g[q] = d})
  <2>1. {q \in T : g[q] = d} = ({0} \X now(d)) \cup ({1} \X once(d))
    OBVIOUS
  <2>2. IsFiniteSet(now(d)) /\ IsFiniteSet(once(d))
    BY <1>1, FS_Subset
  <2> HIDE DEF now, once, T, g
  <2>3. Cardinality({q \in T : g[q] = d}) = Cardinality(now(d)) + Cardinality(once(d))
    BY <2>1, <2>2, TwoKinds
  <2> QED BY <2>3 DEF ManagementRow, now, once, owner
<1>6. SumOver(S, LAMBDA d : ManagementRow(d).checkIns) = Total(S, f)
  <2>1. UNION {{d} \X (1 .. ManagementRow(d).checkIns) : d \in S} = UNION {{d} \X (1 .. f[d]) : d \in S}
    OBVIOUS
  <2> QED BY <2>1 DEF SumOver, Total
<1> HIDE DEF S, T, g, f, now, once
<1>7. Total(S, f) = Cardinality(T)
  BY <1>2, <1>4, <1>5, RowsSum
<1> QED BY <1>2, <1>6, <1>7 DEF S, University

LEMMA UnitsAddUp ==
  ASSUME FiguresAssumption, FiguresInv, NEW d \in OwningDepartments
  PROVE  /\ Overview(d).held = ManagementRow(d).held
         /\ Overview(d).held = SumOver({u \in Modules : OwnedBy[u] = d}, LAMBDA u : UnitRow(u).held)
<1> DEFINE S == {u \in Modules : OwnedBy[u] = d}
           T == MeetingsOf(S)
           g == [m \in T |-> meeting[m].module]
           f == [u \in S |-> UnitRow(u).held]
<1>1. DepartmentMeetings(d) = T
  BY MeetingsOfUnits DEF DepartmentMeetings
<1>2. T = {m \in Meetings : meeting[m].status # "NONE" /\ OwnedBy[meeting[m].module] = d}
  BY DEF MeetingsOf, FiguresInv, ClassesHeld
<1>3. IsFiniteSet(T)
  BY ClassesFinite DEF MeetingsOf
<1>4. g \in [T -> S]
  BY DEF MeetingsOf
<1>5. ASSUME NEW u \in S PROVE f[u] = Cardinality({m \in T : g[m] = u})
  <2>1. {m \in T : g[m] = u} = Of(u)
    BY DEF MeetingsOf, Of
  <2> QED BY <2>1 DEF UnitRow
<1>6. SumOver(S, LAMBDA u : UnitRow(u).held) = Total(S, f)
  <2>1. UNION {{u} \X (1 .. UnitRow(u).held) : u \in S} = UNION {{u} \X (1 .. f[u]) : u \in S}
    OBVIOUS
  <2> QED BY <2>1 DEF SumOver, Total
<1>7. Overview(d).held = Cardinality(T)
  BY <1>1 DEF Overview
<1>8. ManagementRow(d).held = Cardinality(T)
  BY <1>2 DEF ManagementRow
<1>9. Total(S, f) = Cardinality(T)
  <2> HIDE DEF T, g, f, S
  <2> QED BY <1>3, <1>4, <1>5, RowsSum
<1> QED BY <1>6, <1>7, <1>8, <1>9

LEMMA YearsAddUp ==
  ASSUME FiguresAssumption, FiguresInv, NEW d \in OwningDepartments
  PROVE  /\ Overview(d).modules = SumOver(1 .. 4, LAMBDA y : YearRow(d, y).modules) + WithoutYear(d)
         /\ Overview(d).held = SumOver(1 .. 4, LAMBDA y : YearRow(d, y).held) + SumOver(YearUnits(d, 0), LAMBDA u : UnitRow(u).held)
<1> DEFINE own == {u \in Modules : OwnedBy[u] = d}
           yearly == {u \in own : YearOf[u] # 0}
           none == YearUnits(d, 0)
<1>1. own = yearly \cup none /\ yearly \cap none = {} /\ \A u \in yearly : YearOf[u] \in 1 .. 4
  BY OwnersOwn DEF YearUnits
<1>2. Overview(d).modules = SumOver(1 .. 4, LAMBDA y : YearRow(d, y).modules) + WithoutYear(d)
  <2> DEFINE g == [u \in yearly |-> YearOf[u]]
             f == [y \in 1 .. 4 |-> YearRow(d, y).modules]
  <2>1. IsFiniteSet(Modules)
    BY DEF FiguresAssumption
  <2>2. IsFiniteSet(own) /\ IsFiniteSet(yearly)
    BY <2>1, FS_Subset
  <2>3. g \in [yearly -> 1 .. 4]
    BY <1>1
  <2>4. ASSUME NEW y \in 1 .. 4 PROVE f[y] = Cardinality({u \in yearly : g[u] = y})
    <3>1. {u \in yearly : g[u] = y} = YearUnits(d, y)
      BY DEF YearUnits
    <3> QED BY <3>1 DEF YearRow
  <2>5. SumOver(1 .. 4, LAMBDA y : YearRow(d, y).modules) = Total(1 .. 4, f)
    <3>1. UNION {{y} \X (1 .. YearRow(d, y).modules) : y \in 1 .. 4} = UNION {{y} \X (1 .. f[y]) : y \in 1 .. 4}
      OBVIOUS
    <3> QED BY <3>1 DEF SumOver, Total
  <2>6. Total(1 .. 4, f) = Cardinality(yearly)
    <3> DEFINE years == 1 .. 4
    <3> HIDE DEF f, g, yearly, years
    <3>1. g \in [yearly -> years] /\ \A y \in years : f[y] = Cardinality({u \in yearly : g[u] = y})
      BY <2>3, <2>4 DEF years
    <3>2. Total(years, f) = Cardinality(yearly)
      BY <2>2, <3>1, RowsSum
    <3> QED BY <3>2 DEF years
  <2>7. Cardinality(own) = Cardinality(yearly) + Cardinality(none)
    <3> HIDE DEF own, yearly, none
    <3> QED BY <1>1, <2>2, TwoParts
  <2> QED BY <2>5, <2>6, <2>7 DEF Overview, WithoutYear
<1>3. Overview(d).held = SumOver(1 .. 4, LAMBDA y : YearRow(d, y).held) + SumOver(none, LAMBDA u : UnitRow(u).held)
  <2> DEFINE g == [m \in MeetingsOf(yearly) |-> YearOf[meeting[m].module]]
             f == [y \in 1 .. 4 |-> YearRow(d, y).held]
             k == [m \in MeetingsOf(none) |-> meeting[m].module]
             e == [u \in none |-> UnitRow(u).held]
  <2>1. IsFiniteSet(MeetingsOf(own)) /\ IsFiniteSet(MeetingsOf(yearly)) /\ IsFiniteSet(MeetingsOf(none))
    BY ClassesFinite DEF MeetingsOf
  <2>2. g \in [MeetingsOf(yearly) -> 1 .. 4]
    BY <1>1 DEF MeetingsOf
  <2>3. ASSUME NEW y \in 1 .. 4 PROVE f[y] = Cardinality({m \in MeetingsOf(yearly) : g[m] = y})
    <3>1. {m \in MeetingsOf(yearly) : g[m] = y} = MeetingsOf(YearUnits(d, y))
      BY DEF YearUnits, MeetingsOf
    <3>2. YearRow(d, y).held = Cardinality(MeetingsOf(YearUnits(d, y)))
      BY MeetingsOfUnits DEF YearRow
    <3> QED BY <3>1, <3>2
  <2>4. SumOver(1 .. 4, LAMBDA y : YearRow(d, y).held) = Total(1 .. 4, f)
    <3>1. UNION {{y} \X (1 .. YearRow(d, y).held) : y \in 1 .. 4} = UNION {{y} \X (1 .. f[y]) : y \in 1 .. 4}
      OBVIOUS
    <3> QED BY <3>1 DEF SumOver, Total
  <2>5. k \in [MeetingsOf(none) -> none]
    BY DEF MeetingsOf
  <2>6. ASSUME NEW u \in none PROVE e[u] = Cardinality({m \in MeetingsOf(none) : k[m] = u})
    <3>1. {m \in MeetingsOf(none) : k[m] = u} = Of(u)
      BY DEF MeetingsOf, Of
    <3> QED BY <3>1 DEF UnitRow
  <2>7. SumOver(none, LAMBDA u : UnitRow(u).held) = Total(none, e)
    <3>1. UNION {{u} \X (1 .. UnitRow(u).held) : u \in none} = UNION {{u} \X (1 .. e[u]) : u \in none}
      OBVIOUS
    <3> QED BY <3>1 DEF SumOver, Total
  <2>8. Total(1 .. 4, f) = Cardinality(MeetingsOf(yearly))
    <3> DEFINE years == 1 .. 4
    <3> HIDE DEF f, g, yearly, years
    <3>1. g \in [MeetingsOf(yearly) -> years] /\ \A y \in years : f[y] = Cardinality({m \in MeetingsOf(yearly) : g[m] = y})
      BY <2>2, <2>3 DEF years
    <3>2. Total(years, f) = Cardinality(MeetingsOf(yearly))
      BY <2>1, <3>1, RowsSum
    <3> QED BY <3>2 DEF years
  <2>9. Total(none, e) = Cardinality(MeetingsOf(none))
    <3> HIDE DEF e, k, none
    <3> QED BY <2>1, <2>5, <2>6, RowsSum
  <2>10. MeetingsOf(own) = MeetingsOf(yearly) \cup MeetingsOf(none) /\ MeetingsOf(yearly) \cap MeetingsOf(none) = {}
    <3> HIDE DEF own, yearly, none
    <3> QED BY <1>1 DEF MeetingsOf
  <2>11. Cardinality(MeetingsOf(own)) = Cardinality(MeetingsOf(yearly)) + Cardinality(MeetingsOf(none))
    BY <2>1, <2>10, TwoParts
  <2>12. Overview(d).held = Cardinality(MeetingsOf(own))
    BY MeetingsOfUnits DEF Overview, DepartmentMeetings
  <2> QED BY <2>4, <2>7, <2>8, <2>9, <2>11, <2>12
<1> QED BY <1>2, <1>3

LEMMA TutorsAddUp ==
  ASSUME FiguresAssumption, FiguresInv, NEW d \in OwningDepartments
  PROVE  Overview(d).held =
           SumOver(DepartmentTutors(d), LAMBDA t : TutorRow(d, t).held) + SumOver(departed, LAMBDA t : TutorRow(d, t).held)
<1> DEFINE own == {u \in Modules : OwnedBy[u] = d}
           T == MeetingsOf(own)
           tutor(m) == TaughtBy[meeting[m].module]
           here == {m \in T : tutor(m) \notin departed}
           gone == {m \in T : tutor(m) \in departed}
           tutors == DepartmentTutors(d)
           g == [m \in here |-> tutor(m)]
           f == [t \in tutors |-> TutorRow(d, t).held]
           k == [m \in gone |-> tutor(m)]
           e == [t \in departed |-> TutorRow(d, t).held]
<1>1. DepartmentMeetings(d) = T
  BY MeetingsOfUnits DEF DepartmentMeetings
<1>2. IsFiniteSet(T) /\ IsFiniteSet(here) /\ IsFiniteSet(gone)
  BY ClassesFinite DEF MeetingsOf
<1>3. \A t : TutorRow(d, t).held = Cardinality({m \in T : tutor(m) = t})
  BY <1>1 DEF TutorRow
<1>4. g \in [here -> tutors]
  BY DEF MeetingsOf, DepartmentTutors
<1>5. k \in [gone -> departed]
  OBVIOUS
<1>6. \A t \in tutors : t \notin departed
  BY DEF DepartmentTutors
<1>7. ASSUME NEW t \in tutors PROVE f[t] = Cardinality({m \in here : g[m] = t})
  <2>1. {m \in here : g[m] = t} = {m \in T : tutor(m) = t}
    BY <1>6
  <2> QED BY <1>3, <2>1
<1>8. ASSUME NEW t \in departed PROVE e[t] = Cardinality({m \in gone : k[m] = t})
  <2>1. {m \in gone : k[m] = t} = {m \in T : tutor(m) = t}
    OBVIOUS
  <2> QED BY <1>3, <2>1
<1>9. SumOver(tutors, LAMBDA t : TutorRow(d, t).held) = Total(tutors, f)
  <2>1. UNION {{t} \X (1 .. TutorRow(d, t).held) : t \in tutors} = UNION {{t} \X (1 .. f[t]) : t \in tutors}
    OBVIOUS
  <2> QED BY <2>1 DEF SumOver, Total
<1>10. SumOver(departed, LAMBDA t : TutorRow(d, t).held) = Total(departed, e)
  <2>1. UNION {{t} \X (1 .. TutorRow(d, t).held) : t \in departed} = UNION {{t} \X (1 .. e[t]) : t \in departed}
    OBVIOUS
  <2> QED BY <2>1 DEF SumOver, Total
<1>11. T = here \cup gone /\ here \cap gone = {}
  OBVIOUS
<1>12. Overview(d).held = Cardinality(T)
  BY <1>1 DEF Overview
<1> HIDE DEF T, here, gone, tutors, f, g, e, k
<1>13. Total(tutors, f) = Cardinality(here)
  BY <1>2, <1>4, <1>7, RowsSum
<1>14. Total(departed, e) = Cardinality(gone)
  BY <1>2, <1>5, <1>8, RowsSum
<1>15. Cardinality(T) = Cardinality(here) + Cardinality(gone)
  BY <1>2, <1>11, TwoParts
<1> QED BY <1>9, <1>10, <1>12, <1>13, <1>14, <1>15 DEF tutors

LEMMA TutorsDetailAddsUp ==
  ASSUME FiguresAssumption, FiguresInv, NEW d \in OwningDepartments, NEW t \in DepartmentTutors(d),
         NEW detail \in LecturerDetails(d, t)
  PROVE  /\ Cardinality(detail.sessions) = Limited(TutorRow(d, t).held, DrilldownLimit)
         /\ TutorRow(d, t).held = SumOver(detail.modules, LAMBDA row : row.held)
<1> DEFINE own == {v \in Modules : OwnedBy[v] = d /\ TaughtBy[v] = t}
           T == MeetingsOf(own)
           S == {UnitRow(v) : v \in own}
           g == [m \in T |-> UnitRow(meeting[m].module)]
           f == [row \in S |-> row.held]
<1>1. T = {m \in DepartmentMeetings(d) : TaughtBy[meeting[m].module] = t}
  <2>1. DepartmentMeetings(d) = MeetingsOf({v \in Modules : OwnedBy[v] = d})
    BY MeetingsOfUnits DEF DepartmentMeetings
  <2> QED BY <2>1 DEF MeetingsOf
<1>2. TutorRow(d, t).held = Cardinality(T) /\ detail.sessions \in Newest(T, DrilldownLimit) /\ detail.modules = S
  <2>1. PICK page \in Newest(T, DrilldownLimit) : detail = [modules |-> S, sessions |-> page]
    BY <1>1 DEF LecturerDetails
  <2>2. TutorRow(d, t).held = Cardinality(T)
    BY <1>1 DEF TutorRow
  <2> HIDE DEF S, T
  <2> QED BY <2>1, <2>2
<1>3. IsFiniteSet(T)
  BY ClassesFinite DEF MeetingsOf
<1>4. g \in [T -> S]
  BY DEF MeetingsOf
<1>5. ASSUME NEW row \in S PROVE f[row] = Cardinality({m \in T : g[m] = row})
  <2>1. PICK v \in own : row = UnitRow(v)
    OBVIOUS
  <2>2. \A u \in own : UnitRow(u) = UnitRow(v) <=> u = v
    BY DEF UnitRow
  <2>3. {m \in T : g[m] = row} = Of(v)
    BY <2>1, <2>2 DEF MeetingsOf, Of
  <2>4. f[row] = Cardinality(Of(v))
    BY <2>1 DEF UnitRow
  <2> QED BY <2>3, <2>4
<1>6. SumOver(S, LAMBDA row : row.held) = Total(S, f)
  <2>1. UNION {{row} \X (1 .. row.held) : row \in S} = UNION {{row} \X (1 .. f[row]) : row \in S}
    OBVIOUS
  <2> QED BY <2>1 DEF SumOver, Total
<1>7. Total(S, f) = Cardinality(T)
  <2> HIDE DEF T, S, g, f
  <2> QED BY <1>3, <1>4, <1>5, RowsSum
<1>8. Cardinality(detail.sessions) = Limited(Cardinality(T), DrilldownLimit)
  BY <1>2 DEF Newest
<1> QED BY <1>2, <1>6, <1>7, <1>8

LEMMA TutorSummaryAddsUp ==
  ASSUME FiguresAssumption, FiguresInv, NEW t \in Tutors
  PROVE  TutorSummary(t).held = SumOver(OwningDepartments, LAMBDA d : TutorRow(d, t).held)
<1> DEFINE S == OwningDepartments
           own == {v \in Modules : TaughtBy[v] = t}
           T == MeetingsOf(own)
           g == [m \in T |-> OwnedBy[meeting[m].module]]
           f == [d \in S |-> TutorRow(d, t).held]
<1>1. TutorSummary(t).held = Cardinality(T)
  BY MeetingsOfUnits DEF TutorSummary
<1>2. IsFiniteSet(T)
  BY ClassesFinite DEF MeetingsOf
<1>3. g \in [T -> S]
  BY OwnersOwn DEF MeetingsOf
<1>4. ASSUME NEW d \in S PROVE f[d] = Cardinality({m \in T : g[m] = d})
  <2>1. DepartmentMeetings(d) = MeetingsOf({v \in Modules : OwnedBy[v] = d})
    BY MeetingsOfUnits DEF DepartmentMeetings
  <2>2. {m \in T : g[m] = d} = {m \in DepartmentMeetings(d) : TaughtBy[meeting[m].module] = t}
    BY <2>1 DEF MeetingsOf
  <2> QED BY <2>2 DEF TutorRow
<1>5. SumOver(S, LAMBDA d : TutorRow(d, t).held) = Total(S, f)
  <2>1. UNION {{d} \X (1 .. TutorRow(d, t).held) : d \in S} = UNION {{d} \X (1 .. f[d]) : d \in S}
    OBVIOUS
  <2> QED BY <2>1 DEF SumOver, Total
<1>6. Total(S, f) = Cardinality(T)
  <2> HIDE DEF T, S, g, f
  <2> QED BY <1>2, <1>3, <1>4, RowsSum
<1> QED BY <1>1, <1>5, <1>6

\* A class's report against its sheet, by counting.
LEMMA ReportAddsUp ==
  ASSUME NEW A, NEW H, NEW O, IsFiniteSet(A), IsFiniteSet(H), IsFiniteSet(O),
         NEW off, off = (H \cup O) \ A, NEW twice, twice = H \cap O, NEW absent, absent = A \ (H \cup O)
  PROVE  /\ Cardinality(A) - (Cardinality(H) + Cardinality(O)) <= Cardinality(absent)
         /\ Cardinality(absent) <= Cardinality(A) - (Cardinality(H) + Cardinality(O)) + Cardinality(off) + Cardinality(twice)
<1> DEFINE W == H \cup O
<1>1. IsFiniteSet(W) /\ Cardinality(W) = Cardinality(H) + Cardinality(O) - Cardinality(twice)
  BY FS_Union
<1>2. IsFiniteSet(off) /\ Cardinality(off) = Cardinality(W) - Cardinality(W \cap A)
  <2> HIDE DEF W
  <2>1. off = W \ A
    BY DEF W
  <2> QED BY <1>1, <2>1, FS_Difference
<1>3. IsFiniteSet(absent) /\ Cardinality(absent) = Cardinality(A) - Cardinality(A \cap W)
  BY FS_Difference
<1>4. IsFiniteSet(twice) /\ IsFiniteSet(A \cap W) /\ A \cap W = W \cap A
  BY FS_Intersection
<1> HIDE DEF W
<1>5. Cardinality(A \cap W) = Cardinality(W \cap A) /\ Cardinality(A \cap W) \in Nat
  BY <1>4, FS_CardinalityType
<1>6. /\ Cardinality(A) \in Nat /\ Cardinality(H) \in Nat /\ Cardinality(O) \in Nat /\ Cardinality(W) \in Nat
      /\ Cardinality(off) \in Nat /\ Cardinality(twice) \in Nat /\ Cardinality(absent) \in Nat
  BY <1>1, <1>2, <1>3, <1>4, FS_CardinalityType
<1> QED BY <1>1, <1>2, <1>3, <1>5, <1>6

LEMMA SheetsAddUp ==
  ASSUME FiguresAssumption, FiguresInv, NEW m \in Meetings, meeting[m].status # "NONE"
  PROVE  LET sheet == ExportedSheet(m)
             absent == Cardinality({s \in DOMAIN sheet : sheet[s] = "Absent"})
             off == (Here(m) \cup Once(m)) \ ActiveOn(meeting[m].module)
             twice == Here(m) \cap Once(m)
         IN /\ absent - SessionReport(m).absent \in 0 .. Cardinality(off) + Cardinality(twice)
            /\ SessionRate(m) > 100 => off \cup twice # {}
<1> DEFINE A == ActiveOn(meeting[m].module)
           H == Here(m)
           O == Once(m)
           off == (H \cup O) \ A
           twice == H \cap O
           absent == A \ (H \cup O)
<1>1. IsFiniteSet(A) /\ IsFiniteSet(H) /\ IsFiniteSet(O)
  <2>1. IsFiniteSet(Learners)
    BY DEF FiguresAssumption
  <2> QED BY <2>1, FS_Subset DEF ActiveOn, Here, Once
<1>2. {s \in DOMAIN ExportedSheet(m) : ExportedSheet(m)[s] = "Absent"} = absent
  BY DEF ExportedSheet
<1>3. /\ Cardinality(A) \in Nat /\ Cardinality(H) \in Nat /\ Cardinality(O) \in Nat
      /\ Cardinality(off) \in Nat /\ Cardinality(twice) \in Nat /\ Cardinality(absent) \in Nat
      /\ Cardinality(A) - (Cardinality(H) + Cardinality(O)) <= Cardinality(absent)
      /\ Cardinality(absent) <= Cardinality(A) - (Cardinality(H) + Cardinality(O)) + Cardinality(off) + Cardinality(twice)
      /\ Cardinality(off) + Cardinality(twice) = 0 <=> off \cup twice = {}
  <2>1. off = (H \cup O) \ A /\ twice = H \cap O /\ absent = A \ (H \cup O)
    OBVIOUS
  <2> HIDE DEF A, H, O, off, twice, absent
  <2>0. IsFiniteSet(off) /\ IsFiniteSet(twice) /\ IsFiniteSet(absent)
    <3>1. IsFiniteSet(H \cup O) /\ off \subseteq H \cup O /\ twice \subseteq H /\ absent \subseteq A
      BY <1>1, <2>1, FS_Union
    <3> QED BY <1>1, <3>1, FS_Subset
  <2>2. /\ Cardinality(A) \in Nat /\ Cardinality(H) \in Nat /\ Cardinality(O) \in Nat
        /\ Cardinality(off) \in Nat /\ Cardinality(twice) \in Nat /\ Cardinality(absent) \in Nat
    BY <1>1, <2>0, FS_CardinalityType
  <2>3. Cardinality(A) - (Cardinality(H) + Cardinality(O)) <= Cardinality(absent)
    BY <1>1, <2>1, ReportAddsUp
  <2>4. Cardinality(absent) <= Cardinality(A) - (Cardinality(H) + Cardinality(O)) + Cardinality(off) + Cardinality(twice)
    BY <1>1, <2>1, ReportAddsUp
  <2>5. Cardinality(off) + Cardinality(twice) = 0 <=> off \cup twice = {}
    <3>1. (Cardinality(off) = 0 <=> off = {}) /\ (Cardinality(twice) = 0 <=> twice = {})
      BY <2>0, FS_EmptySet
    <3> QED BY <2>2, <3>1
  <2> QED BY <2>2, <2>3, <2>4, <2>5
<1> DEFINE total == Cardinality(A)
           recorded == Cardinality(H) + Cardinality(O)
<1>4. SessionReport(m).absent = IF total > recorded THEN total - recorded ELSE 0
  BY DEF SessionReport, Recorded
<1>5. SessionRate(m) = IF total = 0 THEN -1 ELSE (recorded * 100) \div total
  BY DEF SessionRate, Recorded
<1> HIDE DEF A, H, O, off, twice, absent
<1>6. Cardinality(absent) - SessionReport(m).absent \in 0 .. Cardinality(off) + Cardinality(twice)
  BY <1>3, <1>4
<1>7. recorded <= total => ~(SessionRate(m) > 100)
  <2> HIDE DEF total, recorded
  <2>1. total \in Nat /\ recorded \in Nat
    BY <1>3 DEF total, recorded
  <2>2. ASSUME recorded <= total, total # 0 PROVE (recorded * 100) \div total <= 100
    <3>1. recorded * 100 <= total * 100
      BY <2>1, <2>2
    <3> QED BY <2>1, <2>2, <3>1
  <2> QED BY <1>5, <2>1, <2>2
<1>8. SessionRate(m) > 100 => off \cup twice # {}
  BY <1>3, <1>7
<1> QED BY <1>2, <1>6, <1>8 DEF A, H, O, off, twice

LEMMA RowsAddUpAnywhere ==
  ASSUME FiguresAssumption, FiguresInv PROVE RowsAddUp
<1>1. \A d \in OwningDepartments :
        /\ Overview(d).held = ManagementRow(d).held
        /\ Overview(d).held = SumOver({u \in Modules : OwnedBy[u] = d}, LAMBDA u : UnitRow(u).held)
  BY UnitsAddUp
<1>2. \A d \in OwningDepartments :
        /\ Overview(d).modules = SumOver(1 .. 4, LAMBDA y : YearRow(d, y).modules) + WithoutYear(d)
        /\ Overview(d).held = SumOver(1 .. 4, LAMBDA y : YearRow(d, y).held) + SumOver(YearUnits(d, 0), LAMBDA u : UnitRow(u).held)
  BY YearsAddUp
<1>3. \A d \in OwningDepartments :
        Overview(d).held =
          SumOver(DepartmentTutors(d), LAMBDA t : TutorRow(d, t).held) + SumOver(departed, LAMBDA t : TutorRow(d, t).held)
  BY TutorsAddUp
<1>4. \A d \in OwningDepartments : \A t \in DepartmentTutors(d) : \A detail \in LecturerDetails(d, t) :
        /\ Cardinality(detail.sessions) = Limited(TutorRow(d, t).held, DrilldownLimit)
        /\ TutorRow(d, t).held = SumOver(detail.modules, LAMBDA row : row.held)
  BY TutorsDetailAddsUp
<1>5. \A t \in Tutors : TutorSummary(t).held = SumOver(OwningDepartments, LAMBDA d : TutorRow(d, t).held)
  BY TutorSummaryAddsUp
<1>6. \A m \in {n \in Meetings : meeting[n].status # "NONE"} :
        LET sheet == ExportedSheet(m)
            absent == Cardinality({s \in DOMAIN sheet : sheet[s] = "Absent"})
            off == (Here(m) \cup Once(m)) \ ActiveOn(meeting[m].module)
            twice == Here(m) \cap Once(m)
        IN /\ absent - SessionReport(m).absent \in 0 .. Cardinality(off) + Cardinality(twice)
           /\ SessionRate(m) > 100 => off \cup twice # {}
  BY SheetsAddUp
<1> QED BY <1>1, <1>2, <1>3, <1>4, <1>5, <1>6, UniversityHeldAddsUp, UniversityCheckInsAddUp DEF RowsAddUp

(* For any units, staff, classes and deletions: every total is the sum of   *)
(* its rows, and the sheets differ from the report only by the roster's     *)
(* changes and records made twice (department.repository.ts, "so the rows   *)
(* add up"; management and quality assurance pages).                        *)
THEOREM RowsAlwaysAddUp ==
  ASSUME FiguresAssumption PROVE FiguresSpec => []RowsAddUp
BY RowsAddUpAnywhere, FiguresTypes, PTL

-----------------------------------------------------------------------------
\* What is on a page of a history, and what is not, add up.
CountsEach(f, us, T, g) == \A u \in us : f[u] = Cardinality({m \in T : g[m] = u})

LEMMA SummedUp ==
  ASSUME FiguresAssumption, NEW T, T \subseteq Meetings, NEW us, NEW g \in [T -> us],
         NEW f, CountsEach(f, us, T, g), NEW page
  PROVE  Cardinality(T \cap page) + Cardinality(T \ page) = Total(us, f)
<1>1. IsFiniteSet(T)
  BY ClassesFinite
<1>2. Total(us, f) = Cardinality(T)
  BY <1>1, RowsSum DEF CountsEach
<1>3. T = (T \cap page) \cup (T \ page) /\ (T \cap page) \cap (T \ page) = {}
  OBVIOUS
<1>4. Cardinality(T) = Cardinality(T \cap page) + Cardinality(T \ page)
  <2> DEFINE A == T \cap page
             C == T \ page
  <2> HIDE DEF A, C
  <2>1. T = A \cup C /\ A \cap C = {}
    BY <1>3 DEF A, C
  <2>2. Cardinality(T) = Cardinality(A) + Cardinality(C)
    BY <1>1, <2>1, TwoParts
  <2> QED BY <2>2 DEF A, C
<1> QED BY <1>2, <1>4

\* page is what an answer of n classes can hold, and history what it says of them.
AnswerHolds(us, s, n, page, history) == page \in Newest(Opened(us), n) /\ history = [m \in page |-> Mark(m, s)]
AddsUp(us, s, n, history) ==
  LET summary == HistorySummary(history)
      older == LeftOut(us, s, history)
  IN /\ summary.held + Cardinality(older) = SumOver(us, LAMBDA u : StudentRow(u, s).held)
     /\ summary.attended + Cardinality({m \in older : s \in Here(m)}) = SumOver(us, LAMBDA u : StudentRow(u, s).attended)
     /\ older # {} => Cardinality(DOMAIN history) = n

LEMMA HistorySums ==
  ASSUME FiguresAssumption, FiguresInv, NEW s \in Learners, NEW n \in Nat, NEW us \in SUBSET Modules,
         NEW page, NEW history, AnswerHolds(us, s, n, page, history)
  PROVE  AddsUp(us, s, n, history)
<1>0. page \in Newest(Opened(us), n) /\ history = [m \in page |-> Mark(m, s)]
  BY DEF AnswerHolds
<1>0a. PICK older : older = LeftOut(us, s, history)
  OBVIOUS
<1> DEFINE T == UNION {Held(u, s) : u \in us}
           A == {m \in T : s \in Here(m)}
           counted == {m \in DOMAIN history : history[m] # "OPEN"}
           atIt == {m \in counted : history[m] = "PRESENT"}
           g == [m \in T |-> meeting[m].module]
           k == [m \in A |-> meeting[m].module]
           f == [u \in us |-> StudentRow(u, s).held]
           e == [u \in us |-> StudentRow(u, s).attended]
<1>1. DOMAIN history = page /\ (\A m \in page : history[m] = Mark(m, s)) /\ page \subseteq Opened(us)
  BY <1>0 DEF Newest
<1>2. T \subseteq Opened(us) /\ Opened(us) \subseteq Meetings
  BY DEF Held, Opened, Of
<1>3. counted = T \cap page
  BY <1>1, <1>2 DEF Held, Opened, Mark
<1>4. atIt = A \cap page
  BY <1>1, <1>3 DEF Mark
<1>5. older = T \ page /\ {m \in older : s \in Here(m)} = A \ page
  <2>1. older = T \ page
    BY <1>1, <1>0a DEF LeftOut
  <2>2. \A m : m \in A \ page <=> m \in T \ page /\ s \in Here(m)
    OBVIOUS
  <2> HIDE DEF T, A
  <2> QED BY <2>1, <2>2
<1>6. g \in [T -> us] /\ k \in [A -> us]
  BY DEF Held, Of
<1>7. ASSUME NEW u \in us PROVE f[u] = Cardinality({m \in T : g[m] = u}) /\ e[u] = Cardinality({m \in A : k[m] = u})
  <2>1. {m \in T : g[m] = u} = Held(u, s)
    BY DEF Held, Of
  <2>2. {m \in A : k[m] = u} = Attended(u, s)
    <3>1. Attended(u, s) \subseteq Held(u, s)
      BY AttendedIsHeld
    <3> QED BY <3>1 DEF Held, Attended, Of
  <2> QED BY <2>1, <2>2 DEF StudentRow
<1>8. SumOver(us, LAMBDA u : StudentRow(u, s).held) = Total(us, f)
  <2>1. UNION {{u} \X (1 .. StudentRow(u, s).held) : u \in us} = UNION {{u} \X (1 .. f[u]) : u \in us}
    OBVIOUS
  <2> QED BY <2>1 DEF SumOver, Total
<1>9. SumOver(us, LAMBDA u : StudentRow(u, s).attended) = Total(us, e)
  <2>1. UNION {{u} \X (1 .. StudentRow(u, s).attended) : u \in us} = UNION {{u} \X (1 .. e[u]) : u \in us}
    OBVIOUS
  <2> QED BY <2>1 DEF SumOver, Total
<1>10. HistorySummary(history).held = Cardinality(counted) /\ HistorySummary(history).attended = Cardinality(atIt)
  BY DEF HistorySummary
<1>11. T \subseteq Meetings /\ A \subseteq Meetings
  BY <1>2
<1>12. ASSUME older # {} PROVE Cardinality(page) = n
  <2>1. Cardinality(page) = Limited(Cardinality(Opened(us)), n)
    BY <1>0 DEF Newest
  <2>2. page # Opened(us)
    BY <1>2, <1>5, <1>12
  <2>3. IsFiniteSet(Opened(us))
    BY <1>2, ClassesFinite
  <2>4. Cardinality(page) # Cardinality(Opened(us))
    BY <1>1, <2>2, <2>3, FS_Subset
  <2> QED BY <2>1, <2>4 DEF Limited
<1> HIDE DEF T, A, counted, atIt, g, k, f, e
<1>13. Cardinality(T \cap page) + Cardinality(T \ page) = Total(us, f)
  <2>1. CountsEach(f, us, T, g)
    BY <1>7 DEF CountsEach
  <2> QED BY ONLY FiguresAssumption, <1>6, <1>11, <2>1, SummedUp
<1>14. Cardinality(A \cap page) + Cardinality(A \ page) = Total(us, e)
  <2>1. CountsEach(e, us, A, k)
    BY <1>7 DEF CountsEach
  <2> QED BY ONLY FiguresAssumption, <1>6, <1>11, <2>1, SummedUp
<1>15. HistorySummary(history).held + Cardinality(older) = SumOver(us, LAMBDA u : StudentRow(u, s).held)
  BY <1>3, <1>5, <1>8, <1>10, <1>13
<1>16. HistorySummary(history).attended + Cardinality({m \in older : s \in Here(m)})
         = SumOver(us, LAMBDA u : StudentRow(u, s).attended)
  BY <1>4, <1>5, <1>9, <1>10, <1>14
<1> QED BY <1>0a, <1>1, <1>12, <1>15, <1>16 DEF AddsUp

LEMMA HistoryAgreesAnywhere ==
  ASSUME FiguresAssumption, FiguresInv PROVE HistoryAgrees
<1>1. ASSUME NEW s \in Learners, NEW n \in PageSizes, NEW us \in {UnitsOf(s)} \cup {{u} : u \in UnitsOf(s)},
             NEW history \in Histories(us, s, n)
      PROVE  LET summary == HistorySummary(history)
                 older == LeftOut(us, s, history)
             IN /\ summary.held + Cardinality(older) = SumOver(us, LAMBDA u : StudentRow(u, s).held)
                /\ summary.attended + Cardinality({m \in older : s \in Here(m)})
                     = SumOver(us, LAMBDA u : StudentRow(u, s).attended)
                /\ older # {} => Cardinality(DOMAIN history) = n
  <2>1. n \in Nat /\ us \in SUBSET Modules
    BY DEF FiguresAssumption, UnitsOf
  <2>2. PICK page \in Newest(Opened(us), n) : history = [m \in page |-> Mark(m, s)]
    BY DEF Histories
  <2>3. AnswerHolds(us, s, n, page, history)
    BY <2>2 DEF AnswerHolds
  <2>4. AddsUp(us, s, n, history)
    BY ONLY FiguresAssumption, FiguresInv, <2>1, <2>3, HistorySums
  <2> QED BY <2>4 DEF AddsUp
<1>2. ASSUME NEW u \in Modules, NEW s \in ActiveOn(u)
      PROVE  /\ LET row == StudentRow(u, s)
                IN /\ row \in StudentsUnits(s) \cap TutorsStudents(TaughtBy[u])
                   /\ row \in DepartmentStudents(OwnedBy[u])
                   /\ YearOf[u] # 0 => row \in UnitStudents(YearUnits(OwnedBy[u], YearOf[u]))
                   /\ row \in EligibilityReport({OwnedBy[u]}).rows <=> Classify(row, policy) \in {"AT_RISK", "NOT_ELIGIBLE"}
             /\ LET presentAt == {m \in Of(u) : ExportedSheet(m)[s] = "Present"}
                IN presentAt # Attended(u, s) => \E m \in presentAt : s \in Once(m)
  BY RowShownEverywhere
<1> QED BY ONLY <1>1, <1>2 DEF HistoryAgrees

(* For any classes, rosters, rule and page: a student's history adds up to  *)
(* what every page shows of them, but for the older classes a full page     *)
(* leaves out (student.repository.ts findAttendanceHistory).                *)
THEOREM HistoryAlwaysAgrees ==
  ASSUME FiguresAssumption PROVE FiguresSpec => []HistoryAgrees
BY HistoryAgreesAnywhere, FiguresTypes, PTL

-----------------------------------------------------------------------------
(* Accounts.                                                                *)

USE AccountsAssumption

-----------------------------------------------------------------------------
(* Types. *)

LEMMA AccountsInitTypeOK == AccountsInit => AccountsTypeOK
<1> SUFFICES ASSUME AccountsInit PROVE AccountsTypeOK
  OBVIOUS
<1>1. smarttt \in [People -> [role : Roles, number : Numbers \cup {None}, email : Emails \cup {None}, current : BOOLEAN]]
  BY DEF AccountsInit, Roles
<1>2. account \in [AccountIds -> AccountRow]
  BY DEF AccountsInit, NoAccount, AccountRow, Roles
<1>3. visit \in [Visits -> VisitRow]
  BY DEF AccountsInit, NoVisit, VisitRow, Claim, Roles
<1>4. QED
  BY <1>1, <1>2, <1>3 DEF AccountsInit, AccountsTypeOK

LEMMA NoVisitType == NoVisit \in VisitRow
BY DEF NoVisit, VisitRow, Claim, Roles

LEMMA ClaimOfType ==
  ASSUME AccountsTypeOK, NEW p \in People
  PROVE  ClaimOf(p) \in Claim
BY DEF AccountsTypeOK, ClaimOf, Claim

LEMMA BeginVisitTypeOK ==
  ASSUME AccountsTypeOK, NEW v \in Visits, NEW new \in VisitRow, BeginVisit(v, new)
  PROVE  AccountsTypeOK'
BY DEF AccountsTypeOK, BeginVisit

LEMMA VisitEndedTypeOK ==
  ASSUME AccountsTypeOK, NEW v \in Visits, VisitEnded(v)
  PROVE  visit' \in [Visits -> VisitRow]
BY NoVisitType DEF AccountsTypeOK, VisitEnded

LEMMA RenewTypeOK ==
  ASSUME AccountsTypeOK, NEW p \in People, Renew(p)
  PROVE  AccountsTypeOK'
<1> DEFINE Details == [role : Roles, number : Numbers \cup {None}, email : Emails \cup {None}, current : BOOLEAN]
<1>1. smarttt \in [People -> Details]
  BY DEF AccountsTypeOK
<1>2. ASSUME NEW role \in Roles, smarttt' = [smarttt EXCEPT ![p].role = role]
      PROVE  smarttt' \in [People -> Details]
  BY <1>1, <1>2
<1>3. ASSUME NEW email \in Emails \cup {None}, smarttt' = [smarttt EXCEPT ![p].email = email]
      PROVE  smarttt' \in [People -> Details]
  BY <1>1, <1>3
<1>4. ASSUME smarttt' = [smarttt EXCEPT ![p].current = ~@]
      PROVE  smarttt' \in [People -> Details]
  BY <1>1, <1>4
<1>5. ASSUME NEW number \in Numbers,
             smarttt' = [q \in People |->
                           CASE q = p -> [smarttt[q] EXCEPT !.number = number]
                             [] q # p /\ smarttt[q].number = number -> [smarttt[q] EXCEPT !.number = None]
                             [] OTHER -> smarttt[q]]
      PROVE  smarttt' \in [People -> Details]
  <2>1. ASSUME NEW q \in People
        PROVE  smarttt'[q] \in Details
    <3>1. smarttt[q] \in Details
      BY <1>1
    <3>2. [smarttt[q] EXCEPT !.number = number] \in Details /\ [smarttt[q] EXCEPT !.number = None] \in Details
      BY <3>1
    <3>3. QED
      BY <1>5, <3>1, <3>2
  <2>2. QED
    BY <1>5, <2>1
<1>6. smarttt' \in [People -> Details]
  BY <1>2, <1>3, <1>4, <1>5 DEF Renew
<1>7. QED
  BY <1>6 DEF AccountsTypeOK, Renew

LEMMA BeginTypeOK ==
  ASSUME AccountsTypeOK, NEW v \in Visits,
         Register(v) \/ \E p \in People : SignIn(v, p) \/ Provision(v, p)
  PROVE  AccountsTypeOK'
<1>1. ASSUME NEW p \in People, SignIn(v, p) \/ Provision(v, p)
      PROVE  AccountsTypeOK'
  <2>1. [NoVisit EXCEPT !.does = "look", !.person = p, !.claim = ClaimOf(p)] \in VisitRow
    BY NoVisitType, ClaimOfType DEF NoVisit, VisitRow
  <2>2. [NoVisit EXCEPT !.does = "create", !.claim = ClaimOf(p)] \in VisitRow
    BY NoVisitType, ClaimOfType DEF NoVisit, VisitRow
  <2>3. QED
    BY <1>1, <2>1, <2>2, BeginVisitTypeOK DEF SignIn, Provision
<1>2. CASE Register(v)
  <2>1. PICK role \in {"STUDENT", "LECTURER"} : \E number \in Numbers, email \in Emails :
          BeginVisit(v, [NoVisit EXCEPT !.does = "create", !.claim = [role |-> role, number |-> number, email |-> email]])
    BY <1>2 DEF Register, RegisterStudent, RegisterLecturer, RegisterAs
  <2>2. PICK number \in Numbers : \E email \in Emails :
          BeginVisit(v, [NoVisit EXCEPT !.does = "create", !.claim = [role |-> role, number |-> number, email |-> email]])
    BY <2>1
  <2>3. PICK email \in Emails :
          BeginVisit(v, [NoVisit EXCEPT !.does = "create", !.claim = [role |-> role, number |-> number, email |-> email]])
    BY <2>2
  <2>4. [role |-> role, number |-> number, email |-> email] \in Claim
    BY DEF Claim, Roles
  <2>5. [NoVisit EXCEPT !.does = "create", !.claim = [role |-> role, number |-> number, email |-> email]] \in VisitRow
    BY <2>4, NoVisitType DEF NoVisit, VisitRow
  <2>6. QED
    BY <2>3, <2>5, BeginVisitTypeOK
<1>3. QED
  BY <1>1, <1>2

\* What a sign-in that found its candidate will write.
Refreshing(r, a, email) ==
  [r EXCEPT !.does = "refresh", !.found = a, !.held = account[a].person, !.claim.email = email]

LEMMA RefreshingFields ==
  ASSUME NEW r \in VisitRow, NEW a, NEW email
  PROVE  /\ Refreshing(r, a, email).does = "refresh"
         /\ Refreshing(r, a, email).found = a
         /\ Refreshing(r, a, email).held = account[a].person
         /\ Refreshing(r, a, email).person = r.person
BY DEF Refreshing, VisitRow, Claim

LEMMA RefreshingType ==
  ASSUME AccountsTypeOK, NEW r \in VisitRow, NEW a \in AccountIds, NEW email \in Emails \cup {None}
  PROVE  Refreshing(r, a, email) \in VisitRow
<1>1. account[a].person \in People \cup {None}
  BY DEF AccountsTypeOK, AccountRow
<1>2. [r.claim EXCEPT !.email = email] \in Claim
  BY DEF VisitRow, Claim
<1>3. Refreshing(r, a, email) =
        [r EXCEPT !.does = "refresh", !.found = a, !.held = account[a].person, !.claim = [r.claim EXCEPT !.email = email]]
  BY DEF Refreshing, VisitRow, Claim
<1>4. QED
  BY <1>1, <1>2, <1>3 DEF VisitRow

\* A look-up ends the request, or leaves it to create or to refresh what it may link.
LEMMA LookUpOutcomes ==
  ASSUME AccountsTypeOK, NEW v \in Visits, LookUp(v)
  PROVE  \/ visit' = [visit EXCEPT ![v] = NoVisit]
         \/ /\ visit' = [visit EXCEPT ![v] = [visit[v] EXCEPT !.does = "create"]]
            /\ visit[v].claim.email # None
         \/ \E a \in AccountIds, email \in Emails \cup {None} :
              /\ Linkable(a, visit[v].person, visit[v].claim)
              /\ visit' = [visit EXCEPT ![v] = Refreshing(visit[v], a, email)]
<1> DEFINE r == visit[v]
<1> DEFINE found == Candidates(r.person, r.claim)
<1>0. r \in VisitRow /\ r.claim \in Claim
  BY DEF AccountsTypeOK, VisitRow
<1>1. CASE found = {}
  BY <1>1 DEF LookUp
<1>2. CASE found # {}
  <2>1. PICK a \in found :
          visit' = [visit EXCEPT ![v] =
            IF Linkable(a, r.person, r.claim)
            THEN [r EXCEPT !.does = "refresh", !.found = a, !.held = account[a].person,
                           !.claim.email = IF EmailTaken(@, a) THEN None ELSE @]
            ELSE NoVisit]
    BY <1>2 DEF LookUp
  <2>2. a \in AccountIds
    BY DEF Candidates, ById, ByKey
  <2> DEFINE email == IF EmailTaken(r.claim.email, a) THEN None ELSE r.claim.email
  <2>3. email \in Emails \cup {None}
    BY <1>0 DEF Claim
  <2>4. [r EXCEPT !.does = "refresh", !.found = a, !.held = account[a].person,
                  !.claim.email = IF EmailTaken(@, a) THEN None ELSE @] = Refreshing(r, a, email)
    BY <1>0 DEF Refreshing, VisitRow, Claim
  <2>5. QED
    BY <2>1, <2>2, <2>3, <2>4
<1>3. QED
  BY <1>1, <1>2

LEMMA LookUpTypeOK ==
  ASSUME AccountsTypeOK, NEW v \in Visits, LookUp(v)
  PROVE  AccountsTypeOK'
<1>0. visit[v] \in VisitRow
  BY DEF AccountsTypeOK
<1>1. [visit[v] EXCEPT !.does = "create"] \in VisitRow
  BY <1>0 DEF VisitRow
<1>2. visit' \in [Visits -> VisitRow]
  <2>1. CASE visit' = [visit EXCEPT ![v] = NoVisit] \/ visit' = [visit EXCEPT ![v] = [visit[v] EXCEPT !.does = "create"]]
    BY <1>1, <2>1, NoVisitType DEF AccountsTypeOK
  <2>2. ASSUME NEW a \in AccountIds, NEW email \in Emails \cup {None},
               visit' = [visit EXCEPT ![v] = Refreshing(visit[v], a, email)]
        PROVE  visit' \in [Visits -> VisitRow]
    BY <1>0, <2>2, RefreshingType DEF AccountsTypeOK
  <2>3. QED
    BY <2>1, <2>2, LookUpOutcomes
<1>3. QED
  BY <1>2 DEF AccountsTypeOK, LookUp

-----------------------------------------------------------------------------
(* The rows the writes leave. *)

RefreshedRow(r, old) ==
  [old EXCEPT !.person = r.person, !.email = IF r.claim.email = None THEN @ ELSE r.claim.email, !.status = Woken(@)]
NumberedRow(r, old) == [old EXCEPT !.number = r.claim.number]
CreatedRow(r) ==
  [NoAccount EXCEPT !.there = TRUE, !.role = r.claim.role, !.email = r.claim.email, !.person = r.person,
                    !.number = IF r.claim.role = "ADMIN" THEN None ELSE r.claim.number]
InvitedRow(email) == [NoAccount EXCEPT !.there = TRUE, !.role = "ADMIN", !.status = "PENDING", !.email = email]

LEMMA RefreshedRowType ==
  ASSUME NEW r \in VisitRow, NEW old \in AccountRow
  PROVE  RefreshedRow(r, old) \in AccountRow
<1>1. r.person \in People \cup {None} /\ r.claim.email \in Emails \cup {None}
  BY DEF VisitRow, Claim
<1>2. Woken(old.status) \in {"PENDING", "ACTIVE", "DEACTIVATED"}
  BY DEF Woken, AccountRow
<1>3. QED
  BY <1>1, <1>2 DEF RefreshedRow, AccountRow

LEMMA NumberedRowType ==
  ASSUME NEW r \in VisitRow, NEW old \in AccountRow
  PROVE  NumberedRow(r, old) \in AccountRow
<1>1. r.claim.number \in Numbers \cup {None}
  BY DEF VisitRow, Claim
<1>2. QED
  BY <1>1 DEF NumberedRow, AccountRow

LEMMA CreatedRowType ==
  ASSUME NEW r \in VisitRow
  PROVE  CreatedRow(r) \in AccountRow
<1>1. r.claim \in Claim /\ r.person \in People \cup {None}
  BY DEF VisitRow
<1>2. QED
  BY <1>1 DEF CreatedRow, NoAccount, AccountRow, Claim

LEMMA InvitedRowType ==
  ASSUME NEW email \in Emails
  PROVE  InvitedRow(email) \in AccountRow
BY DEF InvitedRow, NoAccount, AccountRow, Roles

(* Every step that touches an account touches one, in one of four ways.     *)
LEMMA AccountOutcomes ==
  ASSUME AccountsTypeOK, [AccountsNext]_accountsVars
  PROVE  \/ UNCHANGED account
         \/ \E a \in Fresh, email \in Emails :
              Fits(a, InvitedRow(email)) /\ account' = [account EXCEPT ![a] = InvitedRow(email)]
         \/ \E v \in Visits, a \in Fresh :
              /\ visit[v].does = "create"
              /\ Fits(a, CreatedRow(visit[v]))
              /\ account' = [account EXCEPT ![a] = CreatedRow(visit[v])]
         \/ \E v \in Visits :
              LET a == visit[v].found
                  row == RefreshedRow(visit[v], account[a])
              IN visit[v].does = "refresh" /\ Fits(a, row) /\ account' = [account EXCEPT ![a] = row]
         \/ \E v \in Visits :
              LET a == visit[v].found
                  row == NumberedRow(visit[v], account[a])
              IN visit[v].does = "profile" /\ Fits(a, row) /\ account' = [account EXCEPT ![a] = row]
         \/ \E a \in AccountIds :
              Live(a) /\ account' = [account EXCEPT ![a] = Anonymous(account[a])]
<1>1. CASE InviteAdmin
  BY <1>1 DEF InviteAdmin, InvitedRow
<1>2. ASSUME NEW v \in Visits, Create(v)
      PROVE  \/ UNCHANGED account
             \/ \E a \in Fresh :
                  /\ visit[v].does = "create"
                  /\ Fits(a, CreatedRow(visit[v]))
                  /\ account' = [account EXCEPT ![a] = CreatedRow(visit[v])]
  BY <1>2 DEF Create, CreateStudent, CreateLecturer, CreateAdmin, CreateRow, CreatedRow, Asking
<1>3. ASSUME NEW v \in Visits, RefreshUser(v)
      PROVE  \/ UNCHANGED account
             \/ LET a == visit[v].found
                    row == RefreshedRow(visit[v], account[a])
                IN visit[v].does = "refresh" /\ Fits(a, row) /\ account' = [account EXCEPT ![a] = row]
  BY <1>3 DEF RefreshUser, RefreshedRow, Asking
<1>4. ASSUME NEW v \in Visits, RefreshProfile(v)
      PROVE  \/ UNCHANGED account
             \/ LET a == visit[v].found
                    row == NumberedRow(visit[v], account[a])
                IN visit[v].does = "profile" /\ Fits(a, row) /\ account' = [account EXCEPT ![a] = row]
  BY <1>4 DEF RefreshProfile, NumberedRow, Asking
<1>5. ASSUME NEW a \in AccountIds, Delete(a)
      PROVE  Live(a) /\ account' = [account EXCEPT ![a] = Anonymous(account[a])]
  BY <1>5 DEF Delete
<1>6. CASE \/ \E p \in People : Renew(p)
           \/ Manage
           \/ \E v \in Visits, p \in People : SignIn(v, p) \/ Provision(v, p)
           \/ \E v \in Visits : Register(v) \/ LookUp(v)
           \/ UNCHANGED accountsVars
  BY <1>6 DEF Renew, Manage, SignIn, Provision, Register, RegisterStudent, RegisterLecturer, RegisterAs, LookUp, BeginVisit, accountsVars
<1>7. QED
  BY <1>1, <1>2, <1>3, <1>4, <1>5, <1>6 DEF AccountsNext

LEMMA WriteTypeOK ==
  ASSUME AccountsTypeOK, [AccountsNext]_accountsVars
  PROVE  account' \in [AccountIds -> AccountRow]
<1>0. account \in [AccountIds -> AccountRow] /\ visit \in [Visits -> VisitRow]
  BY DEF AccountsTypeOK
<1>2. ASSUME NEW v \in Visits, NEW a
      PROVE  a \in AccountIds => /\ RefreshedRow(visit[v], account[a]) \in AccountRow
                                 /\ NumberedRow(visit[v], account[a]) \in AccountRow
  BY <1>0, RefreshedRowType, NumberedRowType
<1>3. ASSUME NEW v \in Visits
      PROVE  CreatedRow(visit[v]) \in AccountRow
  BY <1>0, CreatedRowType
<1>4. ASSUME NEW a \in AccountIds
      PROVE  Anonymous(account[a]) \in AccountRow
  <2>1. account[a] \in AccountRow
    BY <1>0
  <2>2. QED
    BY <2>1 DEF Anonymous, AccountRow
<1>5. ASSUME NEW a, NEW row, a \in AccountIds => row \in AccountRow, account' = [account EXCEPT ![a] = row]
      PROVE  account' \in [AccountIds -> AccountRow]
  BY <1>0, <1>5
<1>6. QED
  BY <1>0, <1>2, <1>3, <1>4, <1>5, AccountOutcomes, InvitedRowType

LEMMA AccountsNextTypeOK == AccountsTypeOK /\ [AccountsNext]_accountsVars => AccountsTypeOK'
<1> SUFFICES ASSUME AccountsTypeOK, [AccountsNext]_accountsVars PROVE AccountsTypeOK'
  OBVIOUS
<1>0. account' \in [AccountIds -> AccountRow]
  BY WriteTypeOK
<1>1. ASSUME NEW p \in People, Renew(p) PROVE AccountsTypeOK'
  BY <1>1, RenewTypeOK
<1>2. CASE Manage \/ InviteAdmin
  BY <1>0, <1>2 DEF Manage, InviteAdmin, AccountsTypeOK
<1>3. ASSUME NEW v \in Visits, NEW p \in People, SignIn(v, p) \/ Provision(v, p) PROVE AccountsTypeOK'
  BY <1>3, BeginTypeOK
<1>4. ASSUME NEW v \in Visits, Register(v) PROVE AccountsTypeOK'
  BY <1>4, BeginTypeOK
<1>5. ASSUME NEW v \in Visits, LookUp(v) PROVE AccountsTypeOK'
  BY <1>5, LookUpTypeOK
<1>6. ASSUME NEW v \in Visits, RefreshUser(v) PROVE AccountsTypeOK'
  <2>1. [visit[v] EXCEPT !.does = "profile"] \in VisitRow
    BY DEF AccountsTypeOK, VisitRow
  <2>2. visit' \in [Visits -> VisitRow]
    BY <1>6, <2>1, VisitEndedTypeOK DEF RefreshUser, AccountsTypeOK
  <2>3. QED
    BY <1>0, <1>6, <2>2 DEF RefreshUser, AccountsTypeOK
<1>7. ASSUME NEW v \in Visits, RefreshProfile(v) \/ Create(v) PROVE AccountsTypeOK'
  <2>1. visit' \in [Visits -> VisitRow]
    BY <1>7, VisitEndedTypeOK DEF RefreshProfile, Create, CreateStudent, CreateLecturer, CreateAdmin, CreateRow
  <2>2. QED
    BY <1>0, <1>7, <2>1 DEF RefreshProfile, Create, CreateStudent, CreateLecturer, CreateAdmin, CreateRow, AccountsTypeOK
<1>8. CASE (\E a \in AccountIds : Delete(a)) \/ UNCHANGED accountsVars
  BY <1>0, <1>8 DEF Delete, AccountsTypeOK, accountsVars
<1>9. QED
  BY <1>1, <1>2, <1>3, <1>4, <1>5, <1>6, <1>7, <1>8 DEF AccountsNext

(* Every variable keeps its type.                                           *)
THEOREM AccountsTypes == AccountsSpec => []AccountsTypeOK
<1>1. QED
  BY AccountsInitTypeOK, AccountsNextTypeOK, PTL DEF AccountsSpec

-----------------------------------------------------------------------------
(* Whose account it is. *)

\* A refresh in flight found its account nobody's or its own person's.
HeldOwn == \A v \in Visits : visit[v].does = "refresh" => visit[v].held \in {None, visit[v].person}

LEMMA HeldOwnStep ==
  ASSUME AccountsTypeOK, HeldOwn, [AccountsNext]_accountsVars
  PROVE  HeldOwn'
<1>0. visit \in [Visits -> VisitRow]
  BY DEF AccountsTypeOK
<1>1. ASSUME NEW v \in Visits, NEW row, row.does # "refresh", visit' = [visit EXCEPT ![v] = row]
      PROVE  HeldOwn'
  BY <1>0, <1>1 DEF HeldOwn
<1>2. NoVisit.does # "refresh"
  BY DEF NoVisit
<1>3. ASSUME NEW v \in Visits, LookUp(v)
      PROVE  HeldOwn'
  <2>1. [visit[v] EXCEPT !.does = "create"].does # "refresh"
    BY <1>0 DEF VisitRow
  <2>2. ASSUME NEW a \in AccountIds, NEW email \in Emails \cup {None},
               Linkable(a, visit[v].person, visit[v].claim),
               visit' = [visit EXCEPT ![v] = Refreshing(visit[v], a, email)]
        PROVE  HeldOwn'
    <3>1. account[a].person \in {visit[v].person, None}
      BY <2>2 DEF Linkable
    <3>2. /\ Refreshing(visit[v], a, email).held = account[a].person
          /\ Refreshing(visit[v], a, email).person = visit[v].person
      BY <1>0, RefreshingFields
    <3>3. QED
      BY <1>0, <2>2, <3>1, <3>2 DEF HeldOwn
  <2>3. QED
    BY <1>1, <1>2, <1>3, <2>1, <2>2, LookUpOutcomes
<1>4. ASSUME NEW v \in Visits, Register(v) \/ \E p \in People : SignIn(v, p) \/ Provision(v, p)
      PROVE  HeldOwn'
  <2>1. ASSUME NEW p \in People, NEW claim \in Claim
        PROVE  /\ [NoVisit EXCEPT !.does = "look", !.person = p, !.claim = claim].does # "refresh"
               /\ [NoVisit EXCEPT !.does = "create", !.claim = claim].does # "refresh"
    BY DEF NoVisit
  <2>2. ASSUME NEW p \in People, SignIn(v, p) \/ Provision(v, p)
        PROVE  HeldOwn'
    BY <1>1, <2>1, <2>2, ClaimOfType DEF SignIn, Provision, BeginVisit
  <2>3. ASSUME NEW role \in {"STUDENT", "LECTURER"}, NEW number \in Numbers, NEW email \in Emails,
               BeginVisit(v, [NoVisit EXCEPT !.does = "create", !.claim = [role |-> role, number |-> number, email |-> email]])
        PROVE  HeldOwn'
    <3>1. [NoVisit EXCEPT !.does = "create", !.claim = [role |-> role, number |-> number, email |-> email]].does # "refresh"
      BY DEF NoVisit
    <3>2. QED
      BY <1>1, <2>3, <3>1 DEF BeginVisit
  <2>4. QED
    BY <1>4, <2>2, <2>3 DEF Register, RegisterStudent, RegisterLecturer, RegisterAs
<1>5. ASSUME NEW v \in Visits, RefreshUser(v)
      PROVE  HeldOwn'
  <2>1. [visit[v] EXCEPT !.does = "profile"].does # "refresh"
    BY <1>0 DEF VisitRow
  <2>2. QED
    BY <1>1, <1>2, <1>5, <2>1 DEF RefreshUser, VisitEnded
<1>6. ASSUME NEW v \in Visits, RefreshProfile(v) \/ Create(v)
      PROVE  HeldOwn'
  BY <1>1, <1>2, <1>6 DEF RefreshProfile, Create, CreateStudent, CreateLecturer, CreateAdmin, CreateRow, VisitEnded
<1>7. CASE \/ \E p \in People : Renew(p)
           \/ Manage \/ InviteAdmin
           \/ \E a \in AccountIds : Delete(a)
           \/ UNCHANGED accountsVars
  BY <1>7 DEF Renew, Manage, InviteAdmin, Delete, accountsVars, HeldOwn
<1>8. QED
  BY <1>3, <1>4, <1>5, <1>6, <1>7 DEF AccountsNext

LEMMA HeldOwnAlways == AccountsSpec => [](AccountsTypeOK /\ HeldOwn)
<1>1. AccountsInit => HeldOwn
  BY DEF AccountsInit, NoVisit, HeldOwn
<1>2. AccountsTypeOK /\ HeldOwn /\ [AccountsNext]_accountsVars => AccountsTypeOK' /\ HeldOwn'
  BY AccountsNextTypeOK, HeldOwnStep
<1>3. QED
  BY <1>1, <1>2, AccountsInitTypeOK, PTL DEF AccountsSpec

\* The link of an account that has one, in one step.
LEMMA LinkKeptStep ==
  ASSUME AccountsTypeOK, HeldOwn, [AccountsNext]_accountsVars, NEW a \in AccountIds,
         Live(a), account[a].person # None, account'[a].person \notin {account[a].person, None}
  PROVE  \E v \in Visits : visit[v].does = "refresh" /\ visit[v].found = a /\ visit[v].held \in {None, account'[a].person}
<1>0. account \in [AccountIds -> AccountRow] /\ visit \in [Visits -> VisitRow] /\ account[a] \in AccountRow
  BY DEF AccountsTypeOK
<1>1. ASSUME NEW b \in Fresh, NEW row, account' = [account EXCEPT ![b] = row]
      PROVE  FALSE
  <2>1. b # a
    BY DEF Fresh, Live
  <2>2. QED
    BY <1>0, <1>1, <2>1
<1>2. ASSUME NEW b \in AccountIds, account' = [account EXCEPT ![b] = Anonymous(account[b])]
      PROVE  FALSE
  <2>1. account[b] \in AccountRow
    BY <1>0
  <2>2. Anonymous(account[b]).person = None
    BY <2>1 DEF Anonymous, AccountRow
  <2>3. QED
    BY <1>0, <1>2, <2>2
<1>3. ASSUME NEW v \in Visits,
             account' = [account EXCEPT ![visit[v].found] = NumberedRow(visit[v], account[visit[v].found])]
      PROVE  FALSE
  <2>1. visit[v].found = a => NumberedRow(visit[v], account[a]).person = account[a].person
    BY <1>0 DEF NumberedRow, AccountRow
  <2>2. QED
    BY <1>0, <1>3, <2>1
<1>4. ASSUME NEW v \in Visits, visit[v].does = "refresh",
             account' = [account EXCEPT ![visit[v].found] = RefreshedRow(visit[v], account[visit[v].found])]
      PROVE  visit[v].found = a /\ visit[v].held \in {None, account'[a].person}
  <2>1. visit[v].found = a
    BY <1>0, <1>4
  <2>2. RefreshedRow(visit[v], account[a]).person = visit[v].person
    BY <1>0 DEF RefreshedRow, AccountRow
  <2>3. account'[a].person = visit[v].person
    BY <1>0, <1>4, <2>1, <2>2
  <2>4. QED
    BY <1>4, <2>1, <2>3 DEF HeldOwn
<1>5. QED
  BY <1>0, <1>1, <1>2, <1>3, <1>4, AccountOutcomes

(* An account linked to one person passes to another only by a sign-in that *)
(* found it nobody's, or that person's: a refresh in flight carries what    *)
(* Linkable let through (auth.smarttt.ts linkExisting).                     *)
THEOREM LinkAlwaysKept == AccountsSpec => LinkKept
<1>1. AccountsTypeOK /\ HeldOwn /\ [AccountsNext]_accountsVars
        => [\A a \in AccountIds :
              Live(a) /\ account[a].person # None /\ account'[a].person \notin {account[a].person, None} =>
                \E v \in Visits : visit[v].does = "refresh" /\ visit[v].found = a /\ visit[v].held \in {None, account'[a].person}]_accountsVars
  BY LinkKeptStep
<1>2. QED
  BY <1>1, HeldOwnAlways, PTL DEF AccountsSpec, LinkKept

-----------------------------------------------------------------------------
(* What deletion leaves. *)

LEMMA AnonymousNamesNobody ==
  ASSUME NEW row \in AccountRow
  PROVE  Named(Anonymous(row)) = {}
<1>1. /\ Anonymous(row).number = None
      /\ Anonymous(row).email = None
      /\ Anonymous(row).person = None
  BY DEF Anonymous, AccountRow
<1>2. QED
  BY <1>1 DEF Named, Names

LEMMA DeletedStep ==
  ASSUME AccountsTypeOK, [AccountsNext]_accountsVars, NEW a \in AccountIds, account'[a].deleted
  PROVE  \/ Named(account'[a]) \subseteq IF account[a].deleted THEN Named(account[a]) ELSE {}
         \/ \E v \in Visits : visit[v].does \in {"refresh", "profile"} /\ visit[v].found = a
<1>0. account \in [AccountIds -> AccountRow] /\ visit \in [Visits -> VisitRow]
  BY DEF AccountsTypeOK
<1>1. CASE account'[a] = account[a]
  BY <1>1 DEF Named, Names
<1>2. ASSUME NEW b, NEW row, account' = [account EXCEPT ![b] = row], a # b
      PROVE  account'[a] = account[a]
  BY <1>0, <1>2
<1>3. ASSUME NEW email, account' = [account EXCEPT ![a] = InvitedRow(email)]
      PROVE  FALSE
  <2>1. InvitedRow(email).deleted = FALSE
    BY DEF InvitedRow, NoAccount
  <2>2. QED
    BY <1>0, <1>3, <2>1
<1>4. ASSUME NEW v \in Visits, account' = [account EXCEPT ![a] = CreatedRow(visit[v])]
      PROVE  FALSE
  <2>1. CreatedRow(visit[v]).deleted = FALSE
    BY DEF CreatedRow, NoAccount
  <2>2. QED
    BY <1>0, <1>4, <2>1
<1>5. ASSUME account' = [account EXCEPT ![a] = Anonymous(account[a])]
      PROVE  Named(account'[a]) = {}
  BY <1>0, <1>5, AnonymousNamesNobody
<1>6. QED
  BY <1>1, <1>2, <1>3, <1>4, <1>5, AccountOutcomes

(* A deleted account names nobody, unless a sign-in that found it before it *)
(* was deleted writes afterwards (auth.deletion.repository.ts               *)
(* anonymiseAccount).                                                       *)
THEOREM DeletedAlwaysNamesNobody == AccountsSpec => DeletedNamesNobody
<1>1. AccountsTypeOK /\ [AccountsNext]_accountsVars
        => [\A a \in AccountIds :
              account'[a].deleted =>
                \/ Named(account'[a]) \subseteq IF account[a].deleted THEN Named(account[a]) ELSE {}
                \/ \E v \in Visits : visit[v].does \in {"refresh", "profile"} /\ visit[v].found = a]_accountsVars
  BY DeletedStep
<1>2. QED
  BY <1>1, AccountsTypes, PTL DEF AccountsSpec, DeletedNamesNobody

-----------------------------------------------------------------------------
(* One live account each. *)

\* A live account has an address, and so has one about to be created.
LiveAddressed ==
  /\ \A a \in AccountIds : Live(a) => account[a].email # None
  /\ \A v \in Visits : visit[v].does = "create" => visit[v].claim.email # None

OneEachInv == AccountsTypeOK /\ LiveAddressed /\ OneLiveAccountEach

LEMMA CreateAddressed ==
  ASSUME OneEachInv, [AccountsNext]_accountsVars
  PROVE  \A v \in Visits : visit'[v].does = "create" => visit'[v].claim.email # None
<1> USE DEF OneEachInv
<1>0. visit \in [Visits -> VisitRow] /\ smarttt \in [People -> [role : Roles, number : Numbers \cup {None}, email : Emails \cup {None}, current : BOOLEAN]]
  BY DEF AccountsTypeOK
<1> DEFINE Goal == \A v \in Visits : visit'[v].does = "create" => visit'[v].claim.email # None
<1>1. ASSUME NEW v \in Visits, NEW row, row.does = "create" => row.claim.email # None, visit' = [visit EXCEPT ![v] = row]
      PROVE  Goal
  BY <1>0, <1>1 DEF LiveAddressed
<1>2. NoVisit.does # "create"
  BY DEF NoVisit
<1>3. ASSUME NEW v \in Visits, LookUp(v)
      PROVE  Goal
  <2>1. [visit[v] EXCEPT !.does = "create"].claim = visit[v].claim
    BY <1>0 DEF VisitRow
  <2>2. \A a, email : Refreshing(visit[v], a, email).does = "refresh"
    BY <1>0, RefreshingFields
  <2>3. QED
    BY <1>1, <1>2, <1>3, <2>1, <2>2, LookUpOutcomes
<1>4. ASSUME NEW v \in Visits, NEW p \in People, SignIn(v, p) \/ Provision(v, p)
      PROVE  Goal
  <2>1. ClaimOf(p).email = smarttt[p].email
    BY DEF ClaimOf
  <2>2. [NoVisit EXCEPT !.does = "look", !.person = p, !.claim = ClaimOf(p)].does = "look"
    BY DEF NoVisit
  <2>3. [NoVisit EXCEPT !.does = "create", !.claim = ClaimOf(p)].claim = ClaimOf(p)
    BY DEF NoVisit
  <2>4. CASE SignIn(v, p)
    BY <1>1, <2>2, <2>4 DEF SignIn, BeginVisit
  <2>5. CASE Provision(v, p)
    BY <1>1, <2>1, <2>3, <2>5 DEF Provision, BeginVisit
  <2>6. QED
    BY <1>4, <2>4, <2>5
<1>5. ASSUME NEW v \in Visits, Register(v)
      PROVE  Goal
  <2>1. ASSUME NEW role \in {"STUDENT", "LECTURER"}, NEW number \in Numbers, NEW email \in Emails,
               BeginVisit(v, [NoVisit EXCEPT !.does = "create", !.claim = [role |-> role, number |-> number, email |-> email]])
        PROVE  Goal
    <3>1. [NoVisit EXCEPT !.does = "create", !.claim = [role |-> role, number |-> number, email |-> email]].claim.email = email
      BY DEF NoVisit
    <3>2. QED
      BY <1>1, <2>1, <3>1 DEF BeginVisit
  <2>2. QED
    BY <1>5, <2>1 DEF Register, RegisterStudent, RegisterLecturer, RegisterAs
<1>6. ASSUME NEW v \in Visits, RefreshUser(v)
      PROVE  Goal
  <2>1. [visit[v] EXCEPT !.does = "profile"].does # "create"
    BY <1>0 DEF VisitRow
  <2>2. QED
    BY <1>1, <1>2, <1>6, <2>1 DEF RefreshUser, VisitEnded
<1>7. ASSUME NEW v \in Visits, RefreshProfile(v) \/ Create(v)
      PROVE  Goal
  BY <1>1, <1>2, <1>7 DEF RefreshProfile, Create, CreateStudent, CreateLecturer, CreateAdmin, CreateRow, VisitEnded
<1>8. CASE \/ \E p \in People : Renew(p)
           \/ Manage \/ InviteAdmin
           \/ \E a \in AccountIds : Delete(a)
           \/ UNCHANGED accountsVars
  BY <1>8 DEF Renew, Manage, InviteAdmin, Delete, accountsVars, LiveAddressed
<1>9. QED
  BY <1>3, <1>4, <1>5, <1>6, <1>7, <1>8 DEF AccountsNext

\* A write that fits, and gives the account an address if it is live, keeps both.
LEMMA FittingWrite ==
  ASSUME OneEachInv, NEW a \in AccountIds, NEW row \in AccountRow,
         account' = [account EXCEPT ![a] = row],
         row.there /\ ~row.deleted => row.email # None /\ Fits(a, row)
  PROVE  (\A b \in AccountIds : Live(b)' => account'[b].email # None) /\ OneLiveAccountEach'
<1>0. account \in [AccountIds -> AccountRow]
  BY DEF OneEachInv, AccountsTypeOK
<1>1. \A b \in AccountIds : account'[b] = IF b = a THEN row ELSE account[b]
  BY <1>0
<1>2. \A b \in AccountIds : Live(b)' => account'[b].email # None
  BY <1>1 DEF Live, OneEachInv, LiveAddressed
<1>3. ASSUME NEW b \in AccountIds, NEW c \in AccountIds, b # c, Live(b)', Live(c)'
      PROVE  /\ account'[b].email # account'[c].email
             /\ account'[b].person # None => account'[b].person # account'[c].person
             /\ account'[b].number # None /\ account'[b].role = account'[c].role => account'[b].number # account'[c].number
  <2>1. CASE b # a /\ c # a
    BY <1>1, <1>3, <2>1 DEF OneEachInv, OneLiveAccountEach, Live
  <2>2. CASE b = a
    BY <1>1, <1>3, <2>2 DEF Live, Fits
  <2>3. CASE c = a
    BY <1>1, <1>3, <2>3 DEF Live, Fits
  <2>4. QED
    BY <2>1, <2>2, <2>3
<1>4. QED
  BY <1>2, <1>3 DEF OneLiveAccountEach

LEMMA NothingWritten ==
  ASSUME OneEachInv, \A b \in AccountIds : account'[b] = account[b]
  PROVE  (\A b \in AccountIds : Live(b)' => account'[b].email # None) /\ OneLiveAccountEach'
<1>1. \A b \in AccountIds : Live(b)' = Live(b)
  BY DEF Live
<1>2. \A b \in AccountIds : Live(b)' => account'[b].email # None
  BY <1>1 DEF OneEachInv, LiveAddressed
<1>3. OneLiveAccountEach'
  BY <1>1 DEF OneEachInv, OneLiveAccountEach
<1>4. QED
  BY <1>2, <1>3

LEMMA OneEachStep ==
  ASSUME OneEachInv, [AccountsNext]_accountsVars
  PROVE  OneEachInv'
<1>0. account \in [AccountIds -> AccountRow] /\ visit \in [Visits -> VisitRow]
  BY DEF OneEachInv, AccountsTypeOK
<1> DEFINE Goal == (\A b \in AccountIds : Live(b)' => account'[b].email # None) /\ OneLiveAccountEach'
<1>1. ASSUME UNCHANGED account
      PROVE  Goal
  BY <1>1, NothingWritten
<1>2. ASSUME NEW a \in Fresh, NEW email \in Emails, Fits(a, InvitedRow(email)),
             account' = [account EXCEPT ![a] = InvitedRow(email)]
      PROVE  Goal
  <2>1. InvitedRow(email) \in AccountRow /\ InvitedRow(email).email = email
    BY InvitedRowType DEF InvitedRow, NoAccount
  <2>2. QED
    BY <1>2, <2>1, FittingWrite DEF Fresh
<1>3. ASSUME NEW v \in Visits, NEW a \in Fresh, visit[v].does = "create", Fits(a, CreatedRow(visit[v])),
             account' = [account EXCEPT ![a] = CreatedRow(visit[v])]
      PROVE  Goal
  <2>1. CreatedRow(visit[v]) \in AccountRow
    BY <1>0, CreatedRowType
  <2>2. CreatedRow(visit[v]).email = visit[v].claim.email
    BY DEF CreatedRow, NoAccount
  <2>3. visit[v].claim.email # None
    BY <1>3 DEF OneEachInv, LiveAddressed
  <2>4. QED
    BY <1>3, <2>1, <2>2, <2>3, FittingWrite DEF Fresh
<1>4. ASSUME NEW v \in Visits, NEW a, a = visit[v].found,
             NEW row, row \in {RefreshedRow(visit[v], account[a]), NumberedRow(visit[v], account[a])},
             Fits(a, row), account' = [account EXCEPT ![a] = row]
      PROVE  Goal
  <2>1. CASE a \notin AccountIds
    <3>1. \A b \in AccountIds : account'[b] = account[b]
      BY <1>0, <1>4, <2>1
    <3>2. QED
      BY <3>1, NothingWritten
  <2>2. CASE a \in AccountIds
    <3>1. account[a] \in AccountRow
      BY <1>0, <2>2
    <3>2. row \in AccountRow
      BY <1>0, <1>4, <3>1, RefreshedRowType, NumberedRowType
    <3>3. row.there = account[a].there /\ row.deleted = account[a].deleted
      BY <1>4, <3>1 DEF RefreshedRow, NumberedRow, AccountRow
    <3>4. row.email = account[a].email \/ row.email # None
      BY <1>4, <3>1 DEF RefreshedRow, NumberedRow, AccountRow
    <3>5. row.there /\ ~row.deleted => row.email # None
      BY <2>2, <3>3, <3>4 DEF OneEachInv, LiveAddressed, Live
    <3>6. QED
      BY <1>4, <2>2, <3>2, <3>5, FittingWrite
  <2>3. QED
    BY <2>1, <2>2
<1>5. ASSUME NEW a \in AccountIds, account' = [account EXCEPT ![a] = Anonymous(account[a])]
      PROVE  Goal
  <2>1. account[a] \in AccountRow
    BY <1>0
  <2>2. Anonymous(account[a]) \in AccountRow /\ Anonymous(account[a]).deleted
    BY <2>1 DEF Anonymous, AccountRow
  <2>3. QED
    BY <1>5, <2>2, FittingWrite
<1>6. Goal
  <2>1. ASSUME NEW v \in Visits,
               LET a == visit[v].found
                   row == RefreshedRow(visit[v], account[a])
               IN Fits(a, row) /\ account' = [account EXCEPT ![a] = row]
        PROVE  Goal
    BY <1>4, <2>1
  <2>2. ASSUME NEW v \in Visits,
               LET a == visit[v].found
                   row == NumberedRow(visit[v], account[a])
               IN Fits(a, row) /\ account' = [account EXCEPT ![a] = row]
        PROVE  Goal
    BY <1>4, <2>2
  <2> HIDE DEF Goal
  <2>3. QED
    <3>1. AccountsTypeOK
      BY DEF OneEachInv
    <3>2. QED
      BY <1>1, <1>2, <1>3, <1>5, <2>1, <2>2, <3>1, AccountOutcomes
<1>7. LiveAddressed'
  BY <1>6, CreateAddressed DEF LiveAddressed
<1>8. AccountsTypeOK'
  BY AccountsNextTypeOK DEF OneEachInv
<1>9. QED
  BY <1>6, <1>7, <1>8 DEF OneEachInv

(* No two live accounts of a role share a number, and no two share an       *)
(* address or a person in SMARTTT, although registration, sign-in and the   *)
(* terminals each check and write in statements of their own: the unique    *)
(* indexes refuse the later write (auth.smarttt.ts createFor,               *)
(* auth.service.ts registerStudent).                                        *)
THEOREM OneLiveAccountAlways == AccountsSpec => []OneLiveAccountEach
<1>1. AccountsInit => OneEachInv
  <2>1. ASSUME AccountsInit PROVE LiveAddressed /\ OneLiveAccountEach
    BY <2>1 DEF AccountsInit, NoAccount, NoVisit, LiveAddressed, OneLiveAccountEach, Live
  <2>2. QED
    BY <2>1, AccountsInitTypeOK DEF OneEachInv
<1>2. OneEachInv /\ [AccountsNext]_accountsVars => OneEachInv'
  BY OneEachStep
<1>3. OneEachInv => OneLiveAccountEach
  BY DEF OneEachInv
<1>4. QED
  BY <1>1, <1>2, <1>3, PTL DEF AccountsSpec

=============================================================================
