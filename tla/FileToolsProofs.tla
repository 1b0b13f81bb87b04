-------------------------- MODULE FileToolsProofs ---------------------------
(* Theorems of FileTools: for any files, any edits, any number of calls that
   overlap, and any number of stops of the container. *)
EXTENDS FileTools, SequenceTheorems, FiniteSetTheorems, NaturalsInduction, WellFoundedInduction,
        TLAPS

Texts   == Seq(Tokens)
Results == [ok : BOOLEAN, text : Texts]

-----------------------------------------------------------------------------
(* Induction over the natural numbers, for a set in place of a predicate. *)
LEMMA NumbersReach ==
  ASSUME NEW S, 0 \in S, \A n \in Nat : n \in S => n + 1 \in S
  PROVE  Nat \subseteq S
  <1> DEFINE Out == Nat \ S
  <1> SUFFICES ASSUME Out # {} PROVE FALSE
    OBVIOUS
  <1>0. Out \subseteq Nat /\ Out # {}
    OBVIOUS
  <1>1. PICK n \in Out : \A m \in Out : <<m, n>> \notin OpToRel(<, Nat)
    BY <1>0, NatLessThanWellFounded, WFMin
  <1>2. \A m \in Out : ~(m < n)
    <2> HIDE DEF Out
    <2> QED BY <1>0, <1>1, Zenon DEF OpToRel
  <1>3. n \in Nat /\ n # 0 /\ n - 1 \in Nat /\ n - 1 < n /\ (n - 1) + 1 = n
    OBVIOUS
  <1>4. n - 1 \in S
    BY <1>2, <1>3
  <1> QED BY <1>3, <1>4

-----------------------------------------------------------------------------
(* The texts the tools compute *)

(* The places of a string in a text can be counted. *)
LEMMA MatchesAreCounted ==
  ASSUME NEW s \in Texts, NEW t
  PROVE  /\ Matches(s, t) \subseteq DOMAIN s /\ Cardinality(Matches(s, t)) \in Nat
         /\ Cardinality(Matches(s, t)) = 0 <=> Matches(s, t) = {}
         /\ Cardinality(Matches(s, t)) = 1 => \E i : Matches(s, t) = {i}
  <1>1. DOMAIN s = 1..Len(s) /\ Len(s) \in Nat
    BY LenProperties DEF Texts
  <1>2. Matches(s, t) \subseteq DOMAIN s
    BY DEF Matches
  <1>3. IsFiniteSet(Matches(s, t))
    <2>1. IsFiniteSet(DOMAIN s)
      BY <1>1, FS_Interval
    <2> QED BY <1>2, <2>1, FS_Subset
  <1> QED BY <1>2, <1>3, FS_CardinalityType, FS_EmptySet, FS_Singleton

(* The beginning of a text. *)
LEMMA Beginnings ==
  ASSUME NEW s \in Texts, NEW n \in 0..Len(s)
  PROVE  /\ SubSeq(s, 1, n) \in Texts /\ Len(SubSeq(s, 1, n)) = n
         /\ \A j \in 1..n : SubSeq(s, 1, n)[j] = s[j]
         /\ IsPrefix(SubSeq(s, 1, n), s)
  <1> DEFINE u == SubSeq(s, 1, n)
  <1>1. Len(s) \in Nat /\ \A j \in 1..n : s[j] \in Tokens
    BY LenProperties, ElementOfSeq DEF Texts
  <1>2. u \in Texts /\ Len(u) = n /\ \A j \in 1..n : u[j] = s[j]
    <2>1. /\ u \in Texts /\ Len(u) = IF 1 <= n THEN n - 1 + 1 ELSE 0
          /\ \A j \in 1..(n - 1 + 1) : u[j] = s[1 + j - 1]
      BY <1>1, SubSeqProperties DEF Texts
    <2> HIDE DEF u
    <2> QED BY <1>1, <2>1
  <1>3. SubSeq(u, 1, n) = u
    BY <1>2, SubSeqFull DEF Texts
  <1>4. IsPrefix(u, s)
    <2>1. Len(u) = n /\ n <= Len(s) /\ SubSeq(u, 1, n) = SubSeq(s, 1, n)
      BY <1>1, <1>2, <1>3 DEF u
    <2> HIDE DEF u
    <2> QED BY <2>1 DEF IsPrefix
  <1> QED BY <1>2, <1>4

(* The end of a text. *)
LEMMA Endings ==
  ASSUME NEW s \in Texts, NEW k \in 1..Len(s)
  PROVE  /\ SubSeq(s, k + 1, Len(s)) \in Texts /\ Len(SubSeq(s, k + 1, Len(s))) = Len(s) - k
         /\ \A j \in 1..(Len(s) - k) : SubSeq(s, k + 1, Len(s))[j] = s[k + j]
  <1> DEFINE v == SubSeq(s, k + 1, Len(s))
  <1>1. Len(s) \in Nat /\ \A j \in (k + 1)..Len(s) : s[j] \in Tokens
    BY LenProperties, ElementOfSeq DEF Texts
  <1>2. /\ v \in Texts /\ Len(v) = IF k + 1 <= Len(s) THEN Len(s) - (k + 1) + 1 ELSE 0
        /\ \A j \in 1..(Len(s) - (k + 1) + 1) : v[j] = s[(k + 1) + j - 1]
    BY <1>1, SubSeqProperties DEF Texts
  <1> HIDE DEF v
  <1>3. v \in Texts /\ Len(v) = Len(s) - k /\ \A j \in 1..(Len(s) - k) : v[j] = s[k + j]
    BY <1>1, <1>2
  <1> QED BY <1>3 DEF v

(* Two texts, one after the other. *)
LEMMA Joins ==
  ASSUME NEW u \in Texts, NEW v \in Texts
  PROVE  /\ u \o v \in Texts /\ Len(u \o v) = Len(u) + Len(v)
         /\ \A j \in 1..Len(u) : (u \o v)[j] = u[j]
         /\ \A j \in 1..Len(v) : (u \o v)[Len(u) + j] = v[j]
  <1>1. Len(u) \in Nat /\ Len(v) \in Nat
    BY LenProperties DEF Texts
  <1> DEFINE t == u \o v
  <1>2. /\ t \in Texts /\ Len(t) = Len(u) + Len(v)
        /\ \A j \in 1..(Len(u) + Len(v)) : t[j] = IF j <= Len(u) THEN u[j] ELSE v[j - Len(u)]
    BY ConcatProperties DEF Texts
  <1> HIDE DEF t
  <1>3. \A j \in 1..Len(u) : t[j] = u[j]
    BY <1>1, <1>2
  <1>4. ASSUME NEW j \in 1..Len(v) PROVE t[Len(u) + j] = v[j]
    <2>1. /\ Len(u) + j \in 1..(Len(u) + Len(v)) /\ ~(Len(u) + j <= Len(u))
          /\ (Len(u) + j) - Len(u) = j
      BY <1>1
    <2> QED BY <1>2, <2>1
  <1> QED BY <1>2, <1>3, <1>4 DEF t

(* A string of a text replaced by another text. *)
LEMMA SpliceFacts ==
  ASSUME NEW s \in Texts, NEW k \in 1..Len(s), NEW new \in Texts
  PROVE  LET t == Spliced(s, k, new)
         IN  /\ t \in Texts /\ Len(t) = (Len(s) - 1) + Len(new)
             /\ \A j \in 1..(k - 1) : t[j] = s[j]
             /\ \A j \in 1..Len(new) : t[(k - 1) + j] = new[j]
             /\ \A j \in (k + 1)..Len(s) : t[(j - 1) + Len(new)] = s[j]
  <1> DEFINE u == SubSeq(s, 1, k - 1)
             v == SubSeq(s, k + 1, Len(s))
             h == u \o new
             t == h \o v
  <1>1. Len(s) \in Nat /\ Len(new) \in Nat /\ k - 1 \in 0..Len(s)
    BY LenProperties DEF Texts
  <1>2. u \in Texts /\ Len(u) = k - 1 /\ \A j \in 1..(k - 1) : u[j] = s[j]
    <2> HIDE DEF u
    <2> QED BY <1>1, Beginnings DEF u
  <1>3. v \in Texts /\ Len(v) = Len(s) - k /\ \A j \in 1..(Len(s) - k) : v[j] = s[k + j]
    <2> HIDE DEF v
    <2> QED BY Endings DEF v
  <1> HIDE DEF u, v
  <1>4. /\ h \in Texts /\ Len(h) = (k - 1) + Len(new)
        /\ \A j \in 1..(k - 1) : h[j] = u[j]
        /\ \A j \in 1..Len(new) : h[(k - 1) + j] = new[j]
    <2>1. /\ h \in Texts /\ Len(h) = Len(u) + Len(new)
          /\ \A j \in 1..Len(u) : h[j] = u[j]
          /\ \A j \in 1..Len(new) : h[Len(u) + j] = new[j]
      <3> HIDE DEF h
      <3> QED BY <1>2, Joins DEF h
    <2>2. Len(u) = k - 1
      BY <1>2
    <2> HIDE DEF h
    <2> QED BY <2>1, <2>2
  <1> HIDE DEF h
  <1>5. /\ t \in Texts /\ Len(t) = Len(h) + Len(v)
        /\ \A j \in 1..Len(h) : t[j] = h[j]
        /\ \A j \in 1..Len(v) : t[Len(h) + j] = v[j]
    BY <1>3, <1>4, Joins
  <1>6. Spliced(s, k, new) = t
    BY DEF Spliced, t, h, u, v
  <1> HIDE DEF t
  <1>7. Len(t) = (Len(s) - 1) + Len(new)
    BY <1>1, <1>3, <1>4, <1>5
  <1>8. \A j \in 1..(k - 1) : t[j] = s[j]
    BY <1>1, <1>2, <1>4, <1>5
  <1>9. ASSUME NEW j \in 1..Len(new) PROVE t[(k - 1) + j] = new[j]
    <2>1. (k - 1) + j \in 1..Len(h)
      BY <1>1, <1>4
    <2> QED BY <1>4, <1>5, <2>1
  <1>10. ASSUME NEW j \in (k + 1)..Len(s) PROVE t[(j - 1) + Len(new)] = s[j]
    <2>1. /\ j - k \in 1..Len(v) /\ j - k \in 1..(Len(s) - k) /\ k + (j - k) = j
          /\ Len(h) + (j - k) = (j - 1) + Len(new)
      BY <1>1, <1>3, <1>4
    <2> QED BY <1>3, <1>5, <2>1
  <1> QED BY <1>5, <1>6, <1>7, <1>8, <1>9, <1>10

(* What String.replace reads in a new string is a text, and the string itself if it
   is no pattern. *)
LEMMA ExpansionFacts ==
  ASSUME NEW s \in Texts, NEW k \in 1..Len(s), NEW new \in Tokens
  PROVE  /\ Expansion(new, s, k) \in Texts
         /\ new \notin Patterns => Expansion(new, s, k) = <<new>>
  <1>1. Len(s) \in Nat /\ s[k] \in Tokens /\ Dollar \in Tokens /\ k - 1 \in 0..Len(s)
    BY LenProperties, ElementOfSeq, ToolsAssumption DEF Texts
  <1>2. \A x \in Tokens : <<x>> \in Texts
    BY DEF Texts
  <1>3. SubSeq(s, 1, k - 1) \in Texts /\ SubSeq(s, k + 1, Len(s)) \in Texts
    BY <1>1, Beginnings, Endings
  <1> QED BY <1>1, <1>2, <1>3 DEF Expansion, Patterns

(* A change that is made was asked for, and does what it says if its new string
   is taken as it stands. *)
LEMMA EditFacts ==
  ASSUME NEW s \in Texts, NEW e \in Changes
  PROVE  /\ Edit(s, e) \in Results
         /\ Edit(s, e).ok => /\ Fits(e, s)
                             /\ e.all \/ e.new \notin Patterns => Exactly(e, s, Edit(s, e).text)
  <1> DEFINE found == Matches(s, e.old)
             k     == CHOOSE j \in found : TRUE
             text  == [i \in DOMAIN s |-> IF i \in found THEN e.new ELSE s[i]]
             new   == Expansion(e.new, s, k)
  <1>1. /\ DOMAIN s = 1..Len(s) /\ Len(s) \in Nat /\ \A i \in DOMAIN s : s[i] \in Tokens
        /\ e.old \in Tokens /\ e.new \in Tokens /\ e.all \in BOOLEAN
    BY LenProperties, ElementOfSeq DEF Texts, Changes
  <1>2. Refused \in Results /\ ~Refused.ok
    BY EmptySeq DEF Refused, Results, Texts
  <1>3. CASE found = {} \/ (Cardinality(found) > 1 /\ ~e.all)
    BY <1>2, <1>3 DEF Edit
  <1>4. CASE ~(found = {} \/ (Cardinality(found) > 1 /\ ~e.all))
    <2>1. Cardinality(found) \in Nat /\ Cardinality(found) # 0
      BY <1>4, MatchesAreCounted
    <2>2. Fits(e, s)
      <3> DEFINE n == Cardinality(Matches(s, e.old))
      <3>1. n = 1 \/ n > 1
        <4>1. n \in Nat /\ n # 0
          BY <2>1
        <4> HIDE DEF n
        <4> QED BY <4>1
      <3> QED BY <1>1, <1>4, <3>1 DEF Fits
    <2>3. CASE e.all
      <3>1. text \in Texts
        <4>1. text \in [1..Len(s) -> Tokens]
          BY <1>1
        <4> QED BY <1>1, <4>1, SeqDef DEF Texts
      <3>2. Edit(s, e) = Agreed(text)
        BY <1>4, <2>3 DEF Edit
      <3>3. Exactly(e, s, text)
        BY <1>1 DEF Exactly, Matches, text
      <3> HIDE DEF text
      <3>4. Agreed(text) \in Results /\ Agreed(text).text = text
        BY <3>1 DEF Agreed, Results
      <3> QED BY <2>2, <3>2, <3>3, <3>4
    <2>4. CASE ~e.all
      <3>1. Cardinality(found) = 1
        BY <1>1, <2>2, <2>4 DEF Fits
      <3>2. found = {k} /\ k \in 1..Len(s)
        <4>1. PICK i : found = {i}
          BY <3>1, MatchesAreCounted
        <4> QED BY <1>1, <4>1 DEF Matches
      <3>3. Edit(s, e) = Agreed(Spliced(s, k, new))
        BY <1>4, <2>4 DEF Edit
      <3> HIDE DEF k
      <3>4. new \in Texts /\ (e.new \notin Patterns => new = <<e.new>>)
        BY <1>1, <3>2, ExpansionFacts
      <3> HIDE DEF new
      <3> DEFINE t == Spliced(s, k, new)
      <3>5. /\ t \in Texts /\ Len(t) = (Len(s) - 1) + Len(new)
            /\ \A j \in 1..(k - 1) : t[j] = s[j]
            /\ \A j \in 1..Len(new) : t[(k - 1) + j] = new[j]
            /\ \A j \in (k + 1)..Len(s) : t[(j - 1) + Len(new)] = s[j]
        BY <3>2, <3>4, SpliceFacts
      <3> HIDE DEF t
      <3>6. ASSUME e.new \notin Patterns PROVE Exactly(e, s, t)
        <4>1. Len(new) = 1 /\ new[1] = e.new
          BY <3>4, <3>6
        <4>2. Len(t) = Len(s) /\ DOMAIN t = 1..Len(t)
          BY <1>1, <3>5, <4>1, LenProperties DEF Texts
        <4>3. ASSUME NEW i \in 1..Len(s) PROVE t[i] = IF s[i] = e.old THEN e.new ELSE s[i]
          <5>1. s[i] = e.old <=> i = k
            BY <1>1, <3>2 DEF Matches
          <5>2. CASE i = k
            <6>1. 1 \in 1..Len(new) /\ (k - 1) + 1 = k
              BY <3>2, <4>1
            <6> QED BY <3>5, <4>1, <5>1, <5>2, <6>1
          <5>3. CASE i # k
            <6>1. i \in 1..(k - 1) \/ (i \in (k + 1)..Len(s) /\ (i - 1) + Len(new) = i)
              BY <1>1, <3>2, <4>1, <5>3
            <6> QED BY <3>5, <5>1, <5>3, <6>1
          <5> QED BY <5>2, <5>3
        <4> QED BY <1>1, <4>2, <4>3 DEF Exactly
      <3>7. Agreed(t) \in Results /\ Agreed(t).text = t
        BY <3>5 DEF Agreed, Results
      <3>8. Edit(s, e) = Agreed(t)
        BY <3>3 DEF t
      <3> QED BY <2>2, <2>4, <3>6, <3>7, <3>8
    <2> QED BY <1>1, <2>3, <2>4
  <1> QED BY <1>3, <1>4

(* The edits of one call, taken one after the other: the recursion is well-founded. *)
LEMMA EditsAreSteps ==
  ASSUME NEW s \in Texts, NEW edits \in Seq(Changes)
  PROVE  \E after \in [0..Len(edits) -> Results] :
           /\ Edits(s, edits) = after[Len(edits)]
           /\ after[0] = Agreed(s)
           /\ \A k \in DOMAIN edits :
                after[k] = IF after[k - 1].ok THEN Edit(after[k - 1].text, edits[k]) ELSE after[k - 1]
  <1> DEFINE N       == Len(edits)
             Goes(f) == [k \in 0..N |-> IF k = 0 THEN Agreed(s)
                                        ELSE IF f[k - 1].ok THEN Edit(f[k - 1].text, edits[k])
                                        ELSE f[k - 1]]
             Step(f, k) == IF f[k - 1].ok THEN Edit(f[k - 1].text, edits[k]) ELSE f[k - 1]
             Good(f, n) == f[0] = Agreed(s) /\ \A k \in 1..n : f[k] = Step(f, k)
             Reached == {n \in Nat : n <= N => \E f \in [0..n -> Results] : Good(f, n)}
  <1>1. N \in Nat /\ DOMAIN edits = 1..N /\ \A k \in 1..N : edits[k] \in Changes
    BY LenProperties, ElementOfSeq
  <1>2. Agreed(s) \in Results
    BY DEF Agreed, Results
  <1>3. \A r \in Results, e \in Changes : r.ok => Edit(r.text, e) \in Results
    <2> SUFFICES ASSUME NEW r \in Results, NEW e \in Changes PROVE Edit(r.text, e) \in Results
      OBVIOUS
    <2>1. r.text \in Texts
      BY DEF Results
    <2> QED BY <2>1, EditFacts
  <1>4. 0 \in Reached
    <2> DEFINE f == [k \in {0} |-> Agreed(s)]
    <2>1. f \in [0..0 -> Results] /\ Good(f, 0)
      BY <1>2
    <2> QED BY <2>1
  <1>5. ASSUME NEW n \in Nat, n \in Reached PROVE n + 1 \in Reached
    <2> SUFFICES ASSUME n + 1 <= N PROVE \E g \in [0..(n + 1) -> Results] : Good(g, n + 1)
      BY <1>5
    <2>1. n <= N
      BY <1>1
    <2>2. PICK f \in [0..n -> Results] : Good(f, n)
      BY <1>5, <2>1
    <2> DEFINE r == IF f[n].ok THEN Edit(f[n].text, edits[n + 1]) ELSE f[n]
               g == [k \in 0..(n + 1) |-> IF k = n + 1 THEN r ELSE f[k]]
    <2>3. r \in Results
      BY <1>1, <1>3
    <2>4. g \in [0..(n + 1) -> Results]
      <3> HIDE DEF r
      <3> QED BY <2>3
    <2>5. g[0] = f[0] /\ \A k \in 1..n : g[k] = f[k] /\ g[k - 1] = f[k - 1]
      OBVIOUS
    <2>6. g[n + 1] = Step(g, n + 1)
      <3>1. g[n + 1] = r /\ g[(n + 1) - 1] = f[n] /\ (n + 1) - 1 = n
        <4> HIDE DEF r
        <4> QED OBVIOUS
      <3> HIDE DEF g
      <3> QED BY <3>1
    <2>7. \A k \in 1..(n + 1) : k = n + 1 \/ k \in 1..n
      OBVIOUS
    <2>8. \A k \in 1..n : g[k] = Step(g, k)
      <3> HIDE DEF g
      <3> QED BY <2>2, <2>5
    <2>9. g[0] = Agreed(s)
      BY <2>2, <2>5
    <2>10. Good(g, n + 1)
      <3> HIDE DEF g, Step
      <3> QED BY <2>6, <2>7, <2>8, <2>9
    <2> QED BY <2>4, <2>10
  <1>6. N \in Reached
    <2> HIDE DEF Reached
    <2> QED BY <1>1, <1>4, <1>5, NumbersReach
  <1>7. PICK f \in [0..N -> Results] : Good(f, N)
    BY <1>1, <1>6
  <1>8. f = Goes(f)
    <2>1. \A k \in 0..N : k = 0 \/ k \in 1..N
      BY <1>1
    <2>2. \A k \in 0..N : f[k] = IF k = 0 THEN Agreed(s) ELSE Step(f, k)
      BY <1>1, <1>7, <2>1
    <2> QED BY <2>2
  <1> DEFINE after == CHOOSE h : h = Goes(h)
  <1>9. after = Goes(after)
    <2> HIDE DEF Goes
    <2> QED BY <1>8
  <1>10. Edits(s, edits) = after[N]
    BY DEF Edits
  <1>11. /\ after[0] = Agreed(s)
         /\ \A k \in 1..N : after[k] = Step(after, k)
         /\ DOMAIN after = 0..N /\ after = [k \in 0..N |-> after[k]]
    <2> HIDE DEF after
    <2>1. \A k \in 0..N : after[k] = IF k = 0 THEN Agreed(s) ELSE Step(after, k)
      BY <1>9
    <2>2. \A k \in 1..N : k \in 0..N /\ k # 0
      BY <1>1
    <2>3. DOMAIN after = 0..N /\ after = [k \in 0..N |-> after[k]]
      BY <1>9
    <2> HIDE DEF Step
    <2> QED BY <1>1, <2>1, <2>2, <2>3
  <1> HIDE DEF after
  <1> DEFINE Typed == {n \in Nat : n <= N => after[n] \in Results}
  <1>12. 0 \in Typed
    BY <1>2, <1>11
  <1>13. ASSUME NEW n \in Nat, n \in Typed PROVE n + 1 \in Typed
    <2> SUFFICES ASSUME n + 1 <= N PROVE after[n + 1] \in Results
      OBVIOUS
    <2>1. after[n] \in Results /\ n + 1 \in 1..N /\ (n + 1) - 1 = n
      BY <1>1, <1>13
    <2>2. after[n + 1] = IF after[n].ok THEN Edit(after[n].text, edits[n + 1]) ELSE after[n]
      BY <1>11, <2>1
    <2> QED BY <1>1, <1>3, <2>1, <2>2
  <1>14. \A n \in 0..N : after[n] \in Results
    <2>1. Nat \subseteq Typed
      <3> HIDE DEF Typed
      <3> QED BY <1>12, <1>13, NumbersReach
    <2> QED BY <1>1, <2>1
  <1>15. after \in [0..N -> Results]
    BY <1>11, <1>14
  <1> QED BY <1>1, <1>10, <1>11, <1>15

(* A multi_edit that goes through made each of its changes on the text the one
   before it left; one that does not has no text. *)
LEMMA EditsFacts ==
  ASSUME NEW s \in Texts, NEW edits \in Seq(Changes)
  PROVE  /\ Edits(s, edits) \in Results
         /\ /\ Edits(s, edits).ok
            /\ \A k \in DOMAIN edits : edits[k].all \/ edits[k].new \notin Patterns
            => Edited(edits, s, Edits(s, edits).text)
  <1> DEFINE N == Len(edits)
  <1>1. N \in Nat /\ DOMAIN edits = 1..N /\ \A k \in 1..N : edits[k] \in Changes
    BY LenProperties, ElementOfSeq
  <1>2. PICK after \in [0..N -> Results] :
          /\ Edits(s, edits) = after[N]
          /\ after[0] = Agreed(s)
          /\ \A k \in 1..N :
               after[k] = IF after[k - 1].ok THEN Edit(after[k - 1].text, edits[k]) ELSE after[k - 1]
    BY <1>1, EditsAreSteps
  <1>3. \A k \in 0..N : after[k] \in Results /\ after[k].ok \in BOOLEAN /\ after[k].text \in Texts
    BY <1>2 DEF Results
  <1> SUFFICES ASSUME after[N].ok, \A k \in 1..N : edits[k].all \/ edits[k].new \notin Patterns
               PROVE  Edited(edits, s, after[N].text)
    BY <1>1, <1>2, <1>3
  <1>4. \A k \in 1..N : after[k].ok => after[k - 1].ok
    BY <1>1, <1>2
  (* From the last one backwards: none was refused. *)
  <1> DEFINE Fine == {n \in Nat : n <= N => after[N - n].ok}
  <1>5. \A k \in 0..N : after[k].ok
    <2>1. 0 \in Fine
      BY <1>1
    <2>2. ASSUME NEW n \in Nat, n \in Fine PROVE n + 1 \in Fine
      <3> SUFFICES ASSUME n + 1 <= N PROVE after[N - (n + 1)].ok
        OBVIOUS
      <3>1. N - n \in 1..N /\ (N - n) - 1 = N - (n + 1) /\ n <= N
        BY <1>1
      <3> QED BY <1>4, <2>2, <3>1
    <2>3. Nat \subseteq Fine
      <3> HIDE DEF Fine
      <3> QED BY <2>1, <2>2, NumbersReach
    <2> SUFFICES ASSUME NEW k \in 0..N PROVE after[k].ok
      OBVIOUS
    <2>4. N - k \in Nat /\ N - k <= N /\ N - (N - k) = k
      BY <1>1
    <2> QED BY <2>3, <2>4
  <1>6. ASSUME NEW k \in 1..N
        PROVE  /\ Fits(edits[k], after[k - 1].text)
               /\ Exactly(edits[k], after[k - 1].text, after[k].text)
    <2>1. k - 1 \in 0..N /\ k \in 0..N
      BY <1>1
    <2>2. after[k - 1].text \in Texts /\ after[k].ok /\ edits[k] \in Changes
          /\ after[k] = Edit(after[k - 1].text, edits[k])
          /\ (edits[k].all \/ edits[k].new \notin Patterns)
      BY <1>1, <1>2, <1>3, <1>5, <2>1
    <2> QED BY <2>2, EditFacts
  <1> DEFINE Strings == Range(s) \union {edits[k].new : k \in 1..N}
             Long == {n \in Nat : n <= N => after[n].text \in [DOMAIN s -> Strings]}
  <1>7. \A k \in 0..N : after[k].text \in [DOMAIN s -> Strings]
    <2>1. 0 \in Long
      <3>1. s \in [DOMAIN s -> Strings]
        <4>1. s = [i \in DOMAIN s |-> s[i]]
          BY LenProperties DEF Texts
        <4> QED BY <4>1 DEF Range
      <3>2. after[0].text = s
        BY <1>2 DEF Agreed
      <3> QED BY <3>1, <3>2
    <2>2. ASSUME NEW n \in Nat, n \in Long PROVE n + 1 \in Long
      <3> SUFFICES ASSUME n + 1 <= N PROVE after[n + 1].text \in [DOMAIN s -> Strings]
        OBVIOUS
      <3>1. n + 1 \in 1..N /\ (n + 1) - 1 = n /\ n <= N
        BY <1>1
      <3> DEFINE u == after[n].text
                 v == after[n + 1].text
      <3>2. u \in [DOMAIN s -> Strings] /\ Exactly(edits[n + 1], u, v) /\ v \in Texts
        <4>1. n + 1 \in 0..N
          BY <1>1, <3>1
        <4> QED BY <1>3, <1>6, <2>2, <3>1, <4>1
      <3>3. edits[n + 1].new \in Strings
        BY <3>1
      <3> HIDE DEF u, v, Strings
      <3>4. DOMAIN u = DOMAIN s /\ DOMAIN v = DOMAIN u
        BY <3>2 DEF Exactly
      <3>5. \A i \in DOMAIN v : v[i] \in Strings
        BY <3>2, <3>3, <3>4 DEF Exactly
      <3>6. v = [i \in DOMAIN v |-> v[i]]
        BY <3>2, LenProperties DEF Texts
      <3>7. v \in [DOMAIN s -> Strings]
        BY <3>4, <3>5, <3>6
      <3> QED BY <3>7 DEF v
    <2>3. Nat \subseteq Long
      <3> HIDE DEF Long
      <3> QED BY <2>1, <2>2, NumbersReach
    <2> HIDE DEF Strings
    <2> QED BY <1>1, <2>3
  <1> DEFINE via == [k \in 0..N |-> after[k].text]
  <1>8. via \in [0..N -> [DOMAIN s -> Range(s) \union {edits[k].new : k \in DOMAIN edits}]]
    BY <1>1, <1>7
  <1>9. via[0] = s /\ via[N] = after[N].text
    BY <1>1, <1>2 DEF Agreed
  <1>10. \A k \in 1..N : Fits(edits[k], via[k - 1]) /\ Exactly(edits[k], via[k - 1], via[k])
    <2> SUFFICES ASSUME NEW k \in 1..N
                 PROVE  Fits(edits[k], via[k - 1]) /\ Exactly(edits[k], via[k - 1], via[k])
      OBVIOUS
    <2>1. via[k - 1] = after[k - 1].text /\ via[k] = after[k].text
      BY <1>1
    <2> HIDE DEF via
    <2> QED BY <1>6, <2>1
  <1> HIDE DEF via
  <1> QED BY <1>1, <1>8, <1>9, <1>10 DEF Edited

(* A text that has one string more, at i, is the other again without it. *)
LEMMA RemovedAgain ==
  ASSUME NEW s \in Texts, NEW t \in Texts, NEW i \in 1..Len(t), Len(t) = Len(s) + 1,
         \A j \in 1..(i - 1) : t[j] = s[j],
         \A j \in i..Len(s) : t[j + 1] = s[j]
  PROVE  RemoveAt(t, i) = s
  <1> DEFINE u == SubSeq(t, 1, i - 1)
             v == SubSeq(t, i + 1, Len(t))
  <1>1. Len(s) \in Nat /\ Len(t) \in Nat /\ \A j \in 1..Len(t) : t[j] \in Tokens
    BY LenProperties, ElementOfSeq DEF Texts
  <1>2. u \in Texts /\ Len(u) = i - 1 /\ \A j \in 1..(i - 1) : u[j] = t[j]
    <2>1. \A j \in 1..(i - 1) : t[j] \in Tokens
      BY <1>1
    <2>2. /\ u \in Texts /\ Len(u) = IF 1 <= i - 1 THEN (i - 1) - 1 + 1 ELSE 0
          /\ \A j \in 1..((i - 1) - 1 + 1) : u[j] = t[1 + j - 1]
      BY <1>1, <2>1, SubSeqProperties DEF Texts
    <2> HIDE DEF u
    <2> QED BY <1>1, <2>2
  <1>3. v \in Texts /\ Len(v) = Len(t) - i /\ \A j \in 1..(Len(t) - i) : v[j] = t[i + j]
    <2>1. \A j \in (i + 1)..Len(t) : t[j] \in Tokens
      BY <1>1
    <2>2. /\ v \in Texts /\ Len(v) = IF i + 1 <= Len(t) THEN Len(t) - (i + 1) + 1 ELSE 0
          /\ \A j \in 1..(Len(t) - (i + 1) + 1) : v[j] = t[(i + 1) + j - 1]
      BY <1>1, <2>1, SubSeqProperties DEF Texts
    <2> HIDE DEF v
    <2> QED BY <1>1, <2>2
  <1> HIDE DEF u, v
  <1>4. /\ u \o v \in Texts /\ Len(u \o v) = Len(s)
        /\ \A j \in 1..Len(s) : (u \o v)[j] = IF j <= i - 1 THEN u[j] ELSE v[j - (i - 1)]
    BY <1>1, <1>2, <1>3, ConcatProperties DEF Texts
  <1>5. ASSUME NEW j \in 1..Len(s) PROVE (u \o v)[j] = s[j]
    <2>1. CASE j <= i - 1
      <3>1. j \in 1..(i - 1)
        BY <1>1, <2>1
      <3> QED BY <1>2, <1>4, <2>1, <3>1
    <2>2. CASE ~(j <= i - 1)
      <3>1. j - (i - 1) \in 1..(Len(t) - i) /\ i + (j - (i - 1)) = j + 1 /\ j \in i..Len(s)
        BY <1>1, <2>2
      <3> QED BY <1>3, <1>4, <2>2, <3>1
    <2> QED BY <2>1, <2>2
  <1>6. u \o v = s
    BY <1>4, <1>5, SeqEqual DEF Texts
  <1> QED BY <1>6 DEF RemoveAt, u, v

(* An insertion puts the new string where it was asked for and nothing else. *)
LEMMA InsertFacts ==
  ASSUME NEW s \in Texts, NEW op \in Operations, op.kind = "insert"
  PROVE  /\ Insert(s, op) \in Results
         /\ Insert(s, op).ok /\ Literal(op) => Inserted(op, s, Insert(s, op).text)
  <1>1. op.anchor \in Tokens \union {NoAnchor} /\ op.new \in Tokens /\ op.before \in BOOLEAN
    BY DEF Operations
  <1>2. Len(s) \in Nat /\ DOMAIN s = 1..Len(s) /\ \A j \in 1..Len(s) : s[j] \in Tokens
    BY LenProperties, ElementOfSeq DEF Texts
  <1>3. CASE op.anchor = NoAnchor
    <2> DEFINE i == IF op.before THEN 1 ELSE Len(s) + 1
               t == IF op.before THEN <<op.new>> \o s ELSE Append(s, op.new)
    <2>1. Insert(s, op) = Agreed(t)
      BY <1>3 DEF Insert
    <2>2. /\ t \in Texts /\ Len(t) = Len(s) + 1 /\ t[i] = op.new
          /\ \A j \in 1..(i - 1) : t[j] = s[j]
          /\ \A j \in i..Len(s) : t[j + 1] = s[j]
      <3>1. CASE op.before
        <4>1. <<op.new>> \in Seq(Tokens) /\ Len(<<op.new>>) = 1 /\ <<op.new>>[1] = op.new
          BY <1>1
        <4> DEFINE w == <<op.new>>
        <4> HIDE DEF w
        <4>2. /\ w \o s \in Seq(Tokens) /\ Len(w \o s) = 1 + Len(s)
              /\ \A j \in 1..(1 + Len(s)) : (w \o s)[j] = IF j <= 1 THEN w[j] ELSE s[j - 1]
          BY <4>1, ConcatProperties DEF Texts, w
        <4>3. (w \o s)[1] = op.new /\ \A j \in 1..Len(s) : (w \o s)[j + 1] = s[j]
          <5>1. /\ 1 \in 1..(1 + Len(s)) /\ 1 <= 1
                /\ \A j \in 1..Len(s) : j + 1 \in 1..(1 + Len(s)) /\ ~(j + 1 <= 1) /\ (j + 1) - 1 = j
            BY <1>2
          <5> QED BY <4>1, <4>2, <5>1 DEF w
        <4>4. t = w \o s /\ i = 1
          BY <3>1 DEF w
        <4> HIDE DEF t, i
        <4> QED BY <1>2, <4>2, <4>3, <4>4 DEF Texts
      <3>2. CASE ~op.before
        <4>1. /\ Append(s, op.new) \in Seq(Tokens) /\ Len(Append(s, op.new)) = Len(s) + 1
              /\ \A j \in 1..Len(s) : Append(s, op.new)[j] = s[j]
              /\ Append(s, op.new)[Len(s) + 1] = op.new
          BY <1>1, AppendProperties DEF Texts
        <4> QED BY <1>2, <3>2, <4>1 DEF Texts
      <3> QED BY <3>1, <3>2
    <2>3. i \in 1..Len(t)
      <3> HIDE DEF t
      <3> QED BY <1>2, <2>2
    <2> HIDE DEF t
    <2>4. RemoveAt(t, i) = s
      <3> HIDE DEF i
      <3> QED BY <2>2, <2>3, RemovedAgain
    <2>5. Inserted(op, s, t)
      BY <1>2, <1>3, <2>2, <2>3, <2>4 DEF Inserted
    <2>6. Agreed(t) \in Results /\ Agreed(t).text = t
      BY <2>2 DEF Agreed, Results
    <2> QED BY <2>1, <2>5, <2>6
  <1>4. CASE op.anchor # NoAnchor /\ Cardinality(Matches(s, op.anchor)) # 1
    <2>1. Insert(s, op) = Refused
      BY <1>4 DEF Insert
    <2>2. Refused \in Results /\ ~Refused.ok
      BY EmptySeq DEF Refused, Results, Texts
    <2> QED BY <2>1, <2>2
  <1>5. CASE op.anchor # NoAnchor /\ Cardinality(Matches(s, op.anchor)) = 1
    <2>1. PICK k : Matches(s, op.anchor) = {k}
      BY <1>5, MatchesAreCounted
    <2>2. k \in 1..Len(s) /\ s[k] = op.anchor
      BY <1>2, <2>1 DEF Matches
    <2> DEFINE pair == IF op.before THEN <<op.new, op.anchor>> ELSE <<op.anchor, op.new>>
               both == Together(pair, s, k)
               t    == Spliced(s, k, both)
               i    == IF op.before THEN k ELSE k + 1
    <2>3. Insert(s, op) = Agreed(t)
      BY <1>5, <2>1 DEF Insert
    <2>4. /\ pair[1] \in Tokens /\ pair[2] \in Tokens
          /\ op.before => pair[1] = op.new /\ pair[2] = op.anchor
          /\ ~op.before => pair[1] = op.anchor /\ pair[2] = op.new
      BY <1>1, <1>5
    <2>5. Literal(op) => pair \notin DOMAIN Meet /\ pair[1] \notin Patterns /\ pair[2] \notin Patterns
      BY <1>1, <1>5, <2>4 DEF Literal
    <2> HIDE DEF pair
    <2>6. both \in Texts /\ (Literal(op) => Len(both) = 2 /\ both[1] = pair[1] /\ both[2] = pair[2])
      <3>1. CASE pair \in DOMAIN Meet
        <4>1. /\ Meet[pair].front \in Texts /\ Meet[pair].rear \in Texts
              /\ Meet[pair].pattern \in Tokens
          BY <3>1, ToolsAssumption DEF Texts
        <4>2. Expansion(Meet[pair].pattern, s, k) \in Texts
          BY <2>2, <4>1, ExpansionFacts
        <4>3. Meet[pair].front \o Expansion(Meet[pair].pattern, s, k) \o Meet[pair].rear \in Texts
          BY <4>1, <4>2, Joins
        <4> QED BY <2>5, <3>1, <4>3 DEF Together
      <3>2. CASE pair \notin DOMAIN Meet
        <4> DEFINE one == Expansion(pair[1], s, k)
                   two == Expansion(pair[2], s, k)
        <4>1. /\ one \in Texts /\ two \in Texts
              /\ Literal(op) => one = <<pair[1]>> /\ two = <<pair[2]>>
          BY <2>2, <2>4, <2>5, ExpansionFacts
        <4>2. both = one \o two
          BY <3>2 DEF Together
        <4> HIDE DEF one, two, both
        <4>3. /\ both \in Texts /\ Len(both) = Len(one) + Len(two)
              /\ \A j \in 1..Len(one) : both[j] = one[j]
              /\ \A j \in 1..Len(two) : both[Len(one) + j] = two[j]
          BY <4>1, <4>2, Joins
        <4>4. ASSUME Literal(op) PROVE Len(both) = 2 /\ both[1] = pair[1] /\ both[2] = pair[2]
          <5>1. Len(one) = 1 /\ one[1] = pair[1] /\ Len(two) = 1 /\ two[1] = pair[2]
            BY <4>1, <4>4
          <5>2. Len(both) = 2 /\ 1 \in 1..Len(one) /\ 1 \in 1..Len(two) /\ Len(one) + 1 = 2
            BY <4>3, <5>1
          <5> QED BY <4>3, <5>1, <5>2
        <4> QED BY <4>3, <4>4
      <3> QED BY <3>1, <3>2
    <2> HIDE DEF both
    <2>7. /\ t \in Texts /\ Len(t) = (Len(s) - 1) + Len(both)
          /\ \A j \in 1..(k - 1) : t[j] = s[j]
          /\ \A j \in 1..Len(both) : t[(k - 1) + j] = both[j]
          /\ \A j \in (k + 1)..Len(s) : t[(j - 1) + Len(both)] = s[j]
      BY <2>2, <2>6, SpliceFacts
    <2> HIDE DEF t
    <2>8. ASSUME Literal(op) PROVE Inserted(op, s, t)
      <3>1. Len(both) = 2 /\ Len(t) = Len(s) + 1 /\ t[k] = pair[1] /\ t[k + 1] = pair[2]
        <4>1. Len(both) = 2 /\ both[1] = pair[1] /\ both[2] = pair[2]
          BY <2>6, <2>8
        <4>2. 1 \in 1..Len(both) /\ 2 \in 1..Len(both) /\ (k - 1) + 1 = k /\ (k - 1) + 2 = k + 1
          BY <2>2, <4>1
        <4> QED BY <1>2, <2>7, <4>1, <4>2
      <3>2. \A j \in (k + 1)..Len(s) : t[j + 1] = s[j]
        <4> SUFFICES ASSUME NEW j \in (k + 1)..Len(s) PROVE t[j + 1] = s[j]
          OBVIOUS
        <4>1. (j - 1) + Len(both) = j + 1
          BY <3>1, <2>2
        <4> QED BY <2>7, <4>1
      <3>3. i \in 1..Len(t) /\ t[i] = op.new /\ s[IF op.before THEN i ELSE i - 1] = op.anchor
        BY <1>1, <1>2, <2>2, <2>4, <3>1
      <3>4. ASSUME NEW j \in 1..(i - 1) PROVE t[j] = s[j]
        <4>1. CASE j \in 1..(k - 1)
          BY <2>7, <4>1
        <4>2. CASE j \notin 1..(k - 1)
          <5>1. ~op.before /\ j = k
            BY <1>1, <2>2, <4>2
          <5> QED BY <2>2, <2>4, <3>1, <5>1
        <4> QED BY <4>1, <4>2
      <3>5. ASSUME NEW j \in i..Len(s) PROVE t[j + 1] = s[j]
        <4>1. CASE j \in (k + 1)..Len(s)
          BY <3>2, <4>1
        <4>2. CASE j \notin (k + 1)..Len(s)
          <5>1. op.before /\ j = k
            BY <1>1, <2>2, <4>2
          <5> QED BY <2>2, <2>4, <3>1, <5>1
        <4> QED BY <4>1, <4>2
      <3> HIDE DEF i
      <3>6. RemoveAt(t, i) = s
        BY <2>7, <3>1, <3>3, <3>4, <3>5, RemovedAgain
      <3> QED BY <1>5, <3>3, <3>6 DEF Inserted
    <2>9. Agreed(t) \in Results /\ Agreed(t).text = t
      BY <2>7 DEF Agreed, Results
    <2> QED BY <2>3, <2>8, <2>9
  <1> QED BY <1>3, <1>4, <1>5

(* A file that is not there has no text. *)
LEMMA StatesAreTexts ==
  ASSUME NEW f \in FileStates
  PROVE  f.text \in Texts /\ f.there \in BOOLEAN /\ (f.there => f = Text(f.text))
  <1>1. CASE f = NoFile
    <2>1. f.text = <<>> /\ f.there = FALSE
      BY <1>1 DEF NoFile
    <2>2. <<>> \in Texts
      BY EmptySeq DEF Texts
    <2> QED BY <2>1, <2>2
  <1>2. CASE f \in [there : {TRUE}, text : Seq(Tokens)]
    BY <1>2 DEF Texts, Text
  <1> QED BY <1>1, <1>2 DEF FileStates

(* What a call that decides to write may write, and what it then promises. *)
LEMMA DecisionFacts ==
  ASSUME NEW op \in Operations, NEW f \in FileStates, op.kind \in {"edit", "insert", "write"}
  PROVE  /\ Decision(op, f) \in Results
         /\ /\ Decision(op, f).ok /\ Literal(op)
            /\ op.kind = "write" \/ f.there
            => Described(op, f, Decision(op, f).text)
  <1>1. f.text \in Texts
    BY StatesAreTexts
  <1>2. CASE op.kind = "write"
    <2>1. op.text \in Texts /\ op.overwrite \in BOOLEAN
      BY <1>2 DEF Operations, Texts
    <2>2. Refused \in Results /\ ~Refused.ok /\ Agreed(op.text) \in Results
          /\ Agreed(op.text).text = op.text
      BY <2>1, EmptySeq DEF Refused, Agreed, Results, Texts
    <2> QED BY <1>2, <2>2 DEF Decision, Described
  <1>3. CASE op.kind = "edit"
    <2>1. op.edits \in Seq(Changes)
      BY <1>3 DEF Operations
    <2>2. Decision(op, f) = Edits(f.text, op.edits)
      BY <1>3 DEF Decision
    <2>3. Edits(f.text, op.edits).ok /\ Literal(op)
          => Edited(op.edits, f.text, Edits(f.text, op.edits).text)
      BY <1>1, <1>3, <2>1, EditsFacts DEF Literal
    <2> QED BY <1>1, <1>3, <2>1, <2>2, <2>3, EditsFacts DEF Described
  <1>4. CASE op.kind = "insert"
    <2>1. Decision(op, f) = Insert(f.text, op)
      BY <1>4 DEF Decision
    <2> QED BY <1>1, <1>4, <2>1, InsertFacts DEF Described
  <1> QED BY <1>2, <1>3, <1>4

(* What a shell leaves when it writes a piece of its text over another. *)
LEMMA OverlayFacts ==
  ASSUME NEW new \in Texts, NEW old \in Texts, NEW p \in Nat, NEW q \in (p + 1)..Len(new)
  PROVE  LET t == Overlay(new, p, q, old)
         IN  /\ t \in Texts /\ Len(t) = IF q > Len(old) THEN q ELSE Len(old)
             /\ \A i \in 1..Len(t) : t[i] = IF i \in (p + 1)..q THEN new[i]
                                            ELSE IF i <= Len(old) THEN old[i] ELSE Nul
  <1> DEFINE n == IF q > Len(old) THEN q ELSE Len(old)
             t == Overlay(new, p, q, old)
  <1>1. /\ Len(new) \in Nat /\ Len(old) \in Nat /\ Nul \in Tokens
        /\ \A j \in 1..Len(old) : old[j] \in Tokens
        /\ \A j \in 1..Len(new) : new[j] \in Tokens
    BY LenProperties, ElementOfSeq, ToolsAssumption DEF Texts
  <1>2. n \in Nat /\ t = [i \in 1..n |-> IF i \in (p + 1)..q THEN new[i]
                                         ELSE IF i <= Len(old) THEN old[i] ELSE Nul]
    BY <1>1 DEF Overlay
  <1> HIDE DEF n, t
  <1>3. t \in [1..n -> Tokens]
    BY <1>1, <1>2
  <1>4. t \in Texts /\ Len(t) = n
    BY <1>2, <1>3, SeqDef, LenProperties DEF Texts
  <1>5. \A i \in 1..Len(t) : t[i] = IF i \in (p + 1)..q THEN new[i]
                                    ELSE IF i <= Len(old) THEN old[i] ELSE Nul
    BY <1>2, <1>4
  <1> QED BY <1>4, <1>5 DEF t, n

-----------------------------------------------------------------------------
(* The invariant *)

Closed    == [step : {"idle"}, result : {"none", "success", "refused", "threw"}]
OpenCalls == [step : {"asking", "making", "opening", "filling"}, op : Ops,
              plan : Texts, pos : Nat, linked : BOOLEAN, undisturbed : BOOLEAN, before : FileStates]

(* A shell is not beyond the end of its text, and the file it writes is there. *)
InPlace(c) ==
  /\ calls[c].step = "filling" => calls[c].pos <= Len(calls[c].plan)
  /\ calls[c].step # "filling" => calls[c].pos = 0 /\ ~calls[c].linked
  /\ calls[c].linked => file.there

ShellsAreInPlace == \A c \in Calls : Open(c) => InPlace(c)

(* What the last call to empty the file has written so far is accounted for, and
   every other call that writes the file is one whose text may be mixed in. *)
LastIsInFile ==
  last.known =>
    /\ file.there
    /\ calls[last.by].step = "filling" =>
         /\ calls[last.by].linked /\ calls[last.by].plan = last.text
         /\ Accounted(file.text, calls[last.by].pos)
    /\ calls[last.by].step # "filling" => Accounted(file.text, Len(last.text))
    /\ \A c \in Calls : c # last.by /\ Writing(c) => calls[c].plan \in last.mixed

(* An undisturbed call works on the file it found, and on nothing else than what
   it decided of it. *)
OnItsOwn(c) ==
  LET call == calls[c]
  IN  /\ call.step # "filling" => file = call.before
      /\ call.step # "asking" =>
           /\ call.op.kind \in {"edit", "insert", "write"}
           /\ call.op.kind = "write" \/ call.before.there
           /\ Decision(call.op, call.before).ok
           /\ call.plan = Decision(call.op, call.before).text
      /\ call.step = "filling" => call.linked /\ file = Text(SubSeq(call.plan, 1, call.pos))

UndisturbedAreOnTheirOwn == \A c \in Calls : Open(c) /\ calls[c].undisturbed => OnItsOwn(c)

IInv == TypeOK /\ ShellsAreInPlace /\ LastIsInFile /\ UndisturbedAreOnTheirOwn

(* The shape of a call. *)
LEMMA CallFacts ==
  ASSUME TypeOK, NEW c \in Calls
  PROVE  /\ calls \in [Calls -> Closed \union OpenCalls]
         /\ Open(c) => calls[c] \in OpenCalls
         /\ ~Open(c) => calls[c] \in Closed
  <1>1. calls \in [Calls -> Closed \union OpenCalls]
    BY DEF TypeOK, Closed, OpenCalls, Texts
  <1>2. calls[c] \in Closed \/ calls[c] \in OpenCalls
    BY <1>1
  <1> QED BY <1>1, <1>2 DEF Open, Closed, OpenCalls

LEMMA InitHolds == Init => IInv
  <1> SUFFICES ASSUME Init PROVE IInv
    OBVIOUS
  <1>1. TypeOK
    <2>1. calls \in [Calls -> Closed]
      BY DEF Init, Done, Closed
    <2> QED BY <2>1, ToolsAssumption DEF Init, TypeOK, Closed
  <1>2. LastIsInFile
    BY DEF LastIsInFile, Init, Unknown
  <1>3. \A c \in Calls : ~Open(c)
    BY DEF Init, Open, Done
  <1> QED BY <1>1, <1>2, <1>3 DEF IInv, ShellsAreInPlace, UndisturbedAreOnTheirOwn

(* What the step of a call does to its own state, and what it may do to another. *)
LEMMA UpdateFacts ==
  ASSUME TypeOK, NEW c \in Calls, NEW k, calls' = [calls EXCEPT ![c] = k]
  PROVE  calls'[c] = k /\ \A d \in Calls : d # c => calls'[d] = calls[d]
  BY CallFacts

LEMMA EndsFacts ==
  ASSUME TypeOK, NEW c \in Calls, NEW r, Ends(c, r)
  PROVE  calls'[c] = Done(r) /\ \A d \in Calls : d # c => calls'[d] = calls[d]
  BY CallFacts DEF Ends

LEMMA GoesOnFacts ==
  ASSUME TypeOK, NEW c \in Calls, NEW s, GoesOn(c, s)
  PROVE  /\ calls'[c] = [calls[c] EXCEPT !.step = s]
         /\ \A d \in Calls : d # c => calls'[d] = calls[d]
  BY CallFacts DEF GoesOn

LEMMA PlansFacts ==
  ASSUME TypeOK, NEW c \in Calls, Open(c), NEW t, NEW seeing, Plans(c, t, seeing)
  PROVE  /\ calls'[c] = [calls[c] EXCEPT !.step = "making", !.plan = t, !.undisturbed = @ /\ seeing]
         /\ \A d \in Calls : d # c => calls'[d] = calls[d]
  <1>1. calls[c] \in OpenCalls
    BY CallFacts
  <1> QED BY <1>1, CallFacts DEF Plans, OpenCalls

LEMMA DisturbsFacts ==
  ASSUME TypeOK, NEW c \in Calls, NEW k, NEW same, Disturbs(c, k, same)
  PROVE  /\ calls'[c] = k
         /\ \A d \in Calls : d # c /\ ~Open(d) => calls'[d] = calls[d]
         /\ \A d \in Calls : d # c /\ Open(d) =>
              calls'[d] = [calls[d] EXCEPT !.undisturbed = FALSE, !.linked = @ /\ same]
  BY DEF Disturbs

(* The actions of a call, as steps of it. *)
Acts(c) == (\E op \in Ops : Start(c, op)) \/ RunCommand(c) \/ Progress(c) \/ Breaks(c)

(* What the step of a call does to another: nothing, unless it changes the file. *)
Shaken(d, same) ==
  /\ Open(d)
  /\ calls'[d] = [calls[d] EXCEPT !.undisturbed = FALSE, !.linked = @ /\ same]

LEMMA OthersFacts ==
  ASSUME TypeOK, NEW c \in Calls, Acts(c), NEW d \in Calls, d # c
  PROVE  \/ calls'[d] = calls[d] /\ (Open(d) => UNCHANGED file)
         \/ \E same \in BOOLEAN :
              /\ Shaken(d, same)
              /\ same => file'.there
              /\ ~same => last' = Unknown
  <1>1. ASSUME NEW op \in Ops, Start(c, op) PROVE calls'[d] = calls[d] /\ UNCHANGED file
    BY <1>1, UpdateFacts DEF Start
  <1>2. CASE Look(c) \/ Search(c) \/ MakeDirectory(c) \/ Close(c) \/ Breaks(c)
    BY <1>2, EndsFacts, GoesOnFacts DEF Look, Search, MakeDirectory, Close, Breaks
  <1>3. CASE Decide(c)
    <2>1. Open(c)
      BY <1>3 DEF Decide, Open
    <2> QED BY <1>3, <2>1, EndsFacts, PlansFacts DEF Decide
  <1>4. ASSUME NEW k, NEW same \in BOOLEAN, Disturbs(c, k, same)
        PROVE  \/ calls'[d] = calls[d] /\ ~Open(d)
               \/ Shaken(d, same)
    <2>1. CASE Open(d)
      <3>1. calls'[d] = [calls[d] EXCEPT !.undisturbed = FALSE, !.linked = @ /\ same]
        BY <1>4, <2>1 DEF Disturbs
      <3> QED BY <2>1, <3>1 DEF Shaken
    <2>2. CASE ~Open(d)
      BY <1>4, <2>2, DisturbsFacts
    <2> QED BY <2>1, <2>2
  <1>5. CASE RunCommand(c)
    <2>1. CASE Ends(c, "success") /\ UNCHANGED <<file, last>>
      BY <2>1, EndsFacts
    <2>2. CASE /\ file' = calls[c].op.leaves /\ last' = Unknown
               /\ Disturbs(c, Done("success"), calls[c].op.leaves.there /\ ~calls[c].op.anew)
      <3> DEFINE same == calls[c].op.leaves.there /\ ~calls[c].op.anew
      <3>1. same \in BOOLEAN /\ (same => file'.there) /\ last' = Unknown
        BY <2>2
      <3>2. Disturbs(c, Done("success"), same)
        BY <2>2
      <3> HIDE DEF same
      <3> QED BY <1>4, <3>1, <3>2
    <2> QED BY <1>5, <2>1, <2>2 DEF RunCommand
  <1>6. CASE Truncate(c)
    <2>1. CASE Ends(c, "threw") /\ UNCHANGED <<file, last>>
      BY <2>1, EndsFacts
    <2>2. CASE file' = Text(<<>>) /\ Disturbs(c, Filling(c), TRUE)
      BY <1>4, <2>2 DEF Text
    <2> QED BY <1>6, <2>1, <2>2 DEF Truncate
  <1>7. CASE Put(c)
    <2>1. PICK q \in (calls[c].pos + 1)..Len(calls[c].plan) :
            \/ /\ file' = Text(Overlay(calls[c].plan, calls[c].pos, q, file.text))
               /\ Disturbs(c, [calls[c] EXCEPT !.pos = q], TRUE)
            \/ calls' = [calls EXCEPT ![c] = [calls[c] EXCEPT !.pos = q]] /\ UNCHANGED file
      BY <1>7 DEF Put
    <2>2. CASE /\ file' = Text(Overlay(calls[c].plan, calls[c].pos, q, file.text))
               /\ Disturbs(c, [calls[c] EXCEPT !.pos = q], TRUE)
      <3>1. file'.there
        BY <2>2 DEF Text
      <3> QED BY <1>4, <2>2, <3>1
    <2>3. CASE calls' = [calls EXCEPT ![c] = [calls[c] EXCEPT !.pos = q]] /\ UNCHANGED file
      BY <2>3, UpdateFacts
    <2> QED BY <2>1, <2>2, <2>3
  <1> QED BY <1>1, <1>2, <1>3, <1>5, <1>6, <1>7 DEF Acts, Progress

(* A call that is shaken is at the same place with the same text. *)
LEMMA ShakenFacts ==
  ASSUME TypeOK, NEW d \in Calls, NEW same \in BOOLEAN, Shaken(d, same)
  PROVE  /\ calls'[d] \in OpenCalls /\ Open(d) /\ Open(d)' /\ ~calls'[d].undisturbed
         /\ calls'[d].step = calls[d].step /\ calls'[d].pos = calls[d].pos
         /\ calls'[d].plan = calls[d].plan
         /\ calls'[d].linked => calls[d].linked /\ same
         /\ calls[d].linked /\ same => calls'[d].linked
  <1>1. calls[d] \in OpenCalls /\ Open(d)
    BY CallFacts DEF Shaken
  <1>2. calls'[d] = [calls[d] EXCEPT !.undisturbed = FALSE, !.linked = @ /\ same]
    BY DEF Shaken
  <1> QED BY <1>1, <1>2 DEF OpenCalls, Open

(* What a call decides can be planned. *)
LEMMA DecideFacts ==
  ASSUME TypeOK, NEW c \in Calls, Decide(c)
  PROVE  /\ Open(c) /\ calls[c].op \in Operations
         /\ calls[c].op.kind \in {"edit", "insert", "write"}
         /\ \/ Ends(c, "threw") \/ Ends(c, "refused")
            \/ \E runs \in {FALSE, up} :
                 LET seen == IF runs THEN file ELSE NoFile
                     d    == Decision(calls[c].op, seen)
                 IN  /\ seen \in FileStates /\ d \in Results
                     /\ calls[c].op.kind = "write" \/ seen.there
                     /\ d.ok /\ Plans(c, d.text, runs)
  <1>1. Open(c) /\ calls[c].op \in Operations
    BY CallFacts, ToolsAssumption DEF Decide, Open, OpenCalls
  <1>2. calls[c].op.kind \in {"edit", "insert", "write"}
    BY DEF Decide
  <1>3. \A runs \in {FALSE, up} : (IF runs THEN file ELSE NoFile) \in FileStates
    BY DEF TypeOK, FileStates
  <1>4. \A runs \in {FALSE, up} : Decision(calls[c].op, IF runs THEN file ELSE NoFile) \in Results
    BY <1>1, <1>2, <1>3, DecisionFacts
  <1> QED BY <1>1, <1>2, <1>3, <1>4 DEF Decide

(* What a shell that writes a piece does. *)
LEMMA PutFacts ==
  ASSUME TypeOK, NEW c \in Calls, Put(c)
  PROVE  /\ Open(c) /\ calls[c].step = "filling" /\ calls[c] \in OpenCalls
         /\ UNCHANGED <<up, starts, stops, last>>
         /\ \E q \in (calls[c].pos + 1)..Len(calls[c].plan) :
              /\ calls'[c] = [calls[c] EXCEPT !.pos = q] /\ calls'[c] \in OpenCalls
              /\ calls[c].linked => file' = Text(Overlay(calls[c].plan, calls[c].pos, q, file.text))
              /\ ~calls[c].linked => UNCHANGED file
  <1>1. Open(c) /\ calls[c].step = "filling" /\ calls[c] \in OpenCalls
    BY CallFacts DEF Put, Open
  <1>2. calls[c].pos \in Nat /\ Len(calls[c].plan) \in Nat
    BY <1>1, LenProperties DEF OpenCalls, Texts
  <1>3. PICK q \in (calls[c].pos + 1)..Len(calls[c].plan) :
          LET k == [calls[c] EXCEPT !.pos = q]
          IN  IF calls[c].linked
              THEN /\ file' = Text(Overlay(calls[c].plan, calls[c].pos, q, file.text))
                   /\ Disturbs(c, k, TRUE)
              ELSE calls' = [calls EXCEPT ![c] = k] /\ UNCHANGED file
    BY DEF Put
  <1>4. calls'[c] = [calls[c] EXCEPT !.pos = q]
    BY <1>3, UpdateFacts, DisturbsFacts
  <1>5. q \in Nat
    BY <1>2
  <1>6. calls'[c] \in OpenCalls
    BY <1>1, <1>4, <1>5 DEF OpenCalls
  <1>7. calls[c].linked => file' = Text(Overlay(calls[c].plan, calls[c].pos, q, file.text))
    BY <1>3
  <1>8. ~calls[c].linked => UNCHANGED file
    BY <1>3
  <1>9. UNCHANGED <<up, starts, stops, last>>
    BY DEF Put
  <1> QED BY <1>1, <1>4, <1>6, <1>7, <1>8, <1>9

(* A call that empties the file begins to fill it. *)
LEMMA TruncateFacts ==
  ASSUME TypeOK, NEW c \in Calls, Truncate(c)
  PROVE  /\ Open(c) /\ calls[c].step = "opening" /\ calls[c] \in OpenCalls
         /\ \/ /\ up /\ file' = Text(<<>>) /\ last' = Emptied(c)
               /\ calls'[c] = Filling(c) /\ calls'[c] \in OpenCalls
               /\ calls'[c].step = "filling" /\ calls'[c].linked
               /\ calls'[c].plan = calls[c].plan /\ calls'[c].pos = calls[c].pos
               /\ calls'[c].op = calls[c].op /\ calls'[c].before = calls[c].before
               /\ calls'[c].undisturbed = calls[c].undisturbed
               /\ \A d \in Calls : d # c => \/ calls'[d] = calls[d] /\ ~Open(d)
                                            \/ Shaken(d, TRUE)
            \/ Ends(c, "threw") /\ UNCHANGED <<file, last>>
  <1>1. Open(c) /\ calls[c].step = "opening" /\ calls[c] \in OpenCalls
    BY CallFacts DEF Truncate, Open
  <1>2. CASE up /\ file' = Text(<<>>) /\ last' = Emptied(c) /\ Disturbs(c, Filling(c), TRUE)
    <2>1. /\ calls'[c] = Filling(c)
          /\ \A d \in Calls : d # c => (calls'[d] = calls[d] /\ ~Open(d)) \/ Shaken(d, TRUE)
      BY <1>2, DisturbsFacts DEF Shaken
    <2> QED BY <1>1, <1>2, <2>1 DEF Filling, OpenCalls
  <1> QED BY <1>1, <1>2 DEF Truncate

(* The types, by actions. *)
LEMMA TypeHolds == TypeOK /\ [Next]_vars => TypeOK'
  <1> SUFFICES ASSUME TypeOK, [Next]_vars PROVE TypeOK'
    OBVIOUS
  <1> DEFINE Lasts   == {Unknown} \union [known : {TRUE}, by : Calls, text : Seq(Tokens),
                                          mixed : SUBSET Seq(Tokens)]
             CallsOK == calls' \in [Calls -> Closed \union OpenCalls]
             RestOK  == /\ file' \in FileStates /\ up' \in BOOLEAN /\ last' \in Lasts
                        /\ starts' \in 0..MaxStarts /\ stops' \in 0..MaxStops
  <1> SUFFICES CallsOK /\ RestOK
    BY DEF TypeOK, Closed, OpenCalls, Texts
  <1>0. /\ file \in FileStates /\ up \in BOOLEAN /\ last \in Lasts /\ Unknown \in Lasts
        /\ starts \in 0..MaxStarts /\ stops \in 0..MaxStops
        /\ calls \in [Calls -> Closed \union OpenCalls]
    BY DEF TypeOK, Closed, OpenCalls, Texts
  <1>a. ASSUME NEW C PROVE LastIfNot(C) \in Lasts
    <2> HIDE DEF Lasts
    <2> QED BY <1>0 DEF LastIfNot
  <1> HIDE DEF Lasts
  (* Each call has a proper state afterwards if the one that acts has. *)
  <1>b. ASSUME NEW c \in Calls, Acts(c), calls'[c] \in Closed \union OpenCalls,
               DOMAIN calls' = Calls /\ calls' = [d \in Calls |-> calls'[d]]
        PROVE  CallsOK
    <2>1. ASSUME NEW d \in Calls, d # c PROVE calls'[d] \in Closed \union OpenCalls
      <3>1. CASE calls'[d] = calls[d]
        BY <1>0, <3>1
      <3>2. ASSUME NEW same \in BOOLEAN, Shaken(d, same) PROVE calls'[d] \in OpenCalls
        BY <3>2, ShakenFacts
      <3> QED BY <1>b, <2>1, <3>1, <3>2, OthersFacts
    <2> QED BY <1>b, <2>1
  <1>1. ASSUME NEW c \in Calls, NEW op \in Ops, Start(c, op) PROVE CallsOK /\ RestOK
    <2> DEFINE new == [step |-> "asking", op |-> op, plan |-> <<>>, pos |-> 0,
                       linked |-> FALSE, undisturbed |-> TRUE, before |-> file]
    <2>1. new \in OpenCalls
      <3>1. <<>> \in Texts
        BY EmptySeq DEF Texts
      <3> QED BY <1>0, <3>1 DEF OpenCalls
    <2>2. calls' = [calls EXCEPT ![c] = new]
      BY <1>1 DEF Start
    <2> HIDE DEF new
    <2>3. CallsOK
      BY <1>0, <2>1, <2>2
    <2>4. starts' \in 0..MaxStarts
      BY <1>0, <1>1, ToolsAssumption DEF Start
    <2> HIDE DEF CallsOK
    <2> QED BY <1>0, <1>1, <2>3, <2>4 DEF Start
  <1>2. \A r \in {"success", "refused", "threw"} : Done(r) \in Closed
    BY DEF Done, Closed
  <1>3. ASSUME NEW c \in Calls, NEW r \in {"success", "refused", "threw"}, Ends(c, r) PROVE CallsOK
    BY <1>0, <1>2, <1>3 DEF Ends
  <1>4. ASSUME NEW c \in Calls, Look(c) \/ Search(c) \/ Close(c) \/ Breaks(c) PROVE CallsOK /\ RestOK
    <2>1. Ends(c, "success") \/ Ends(c, "threw")
      BY <1>4 DEF Look, Search, Close, Breaks
    <2>2. CallsOK
      BY <1>3, <2>1
    <2> HIDE DEF CallsOK
    <2> QED BY <1>0, <1>a, <1>4, <2>2 DEF Look, Search, Close, Breaks
  <1>5. ASSUME NEW c \in Calls, NEW k \in OpenCalls, NEW same, Disturbs(c, k, same) \/ Disturbs(c, Done("success"), same)
        PROVE  DOMAIN calls' = Calls /\ calls' = [d \in Calls |-> calls'[d]]
    BY <1>5 DEF Disturbs
  <1>6. ASSUME NEW c \in Calls, RunCommand(c) PROVE CallsOK /\ RestOK
    <2>1. calls[c].op \in Operations /\ calls[c].op.kind = "bash" /\ calls[c] \in OpenCalls /\ Acts(c)
      BY <1>6, CallFacts, ToolsAssumption DEF RunCommand, Open, OpenCalls, Acts
    <2>2. calls[c].op.leaves \in FileStates
      BY <2>1 DEF Operations
    <2>3. CASE Ends(c, "success") /\ UNCHANGED <<file, last>>
      <3>1. CallsOK
        BY <1>3, <2>3
      <3> HIDE DEF CallsOK
      <3> QED BY <1>0, <1>6, <2>3, <3>1 DEF RunCommand
    <2>4. CASE /\ file' = calls[c].op.leaves /\ last' = Unknown
               /\ Disturbs(c, Done("success"), calls[c].op.leaves.there /\ ~calls[c].op.anew)
      <3>1. calls'[c] = Done("success")
        BY <2>4, DisturbsFacts
      <3>2. CallsOK
        BY <1>b, <1>2, <1>5, <2>1, <2>4, <3>1
      <3> HIDE DEF CallsOK
      <3> QED BY <1>0, <1>6, <2>2, <2>4, <3>2 DEF RunCommand
    <2> QED BY <1>6, <2>3, <2>4 DEF RunCommand
  <1>7. ASSUME NEW c \in Calls, Decide(c) PROVE CallsOK /\ RestOK
    <2>1. Open(c) /\ calls[c] \in OpenCalls
      BY <1>7, DecideFacts, CallFacts
    <2>2. ASSUME NEW t \in Texts, NEW seeing \in BOOLEAN, Plans(c, t, seeing) PROVE CallsOK
      <3>1. [calls[c] EXCEPT !.step = "making", !.plan = t, !.undisturbed = @ /\ seeing] \in OpenCalls
        BY <2>1 DEF OpenCalls
      <3>2. calls' = [calls EXCEPT ![c] = [calls[c] EXCEPT !.step = "making", !.plan = t,
                                                           !.undisturbed = @ /\ seeing]]
        BY <1>0, <2>1, <2>2 DEF Plans, OpenCalls
      <3> QED BY <1>0, <3>1, <3>2
    <2>3. CallsOK
      <3>1. CASE Ends(c, "threw") \/ Ends(c, "refused")
        BY <1>3, <3>1
      <3>2. ASSUME NEW runs \in {FALSE, up}, NEW d \in Results, Plans(c, d.text, runs) PROVE CallsOK
        <4>1. d.text \in Texts /\ runs \in BOOLEAN
          BY <1>0 DEF Results
        <4> HIDE DEF CallsOK
        <4> QED BY <2>2, <3>2, <4>1
      <3> HIDE DEF CallsOK
      <3> QED BY <1>7, <3>1, <3>2, DecideFacts
    <2> HIDE DEF CallsOK
    <2> QED BY <1>0, <1>7, <2>3 DEF Decide
  <1>8. ASSUME NEW c \in Calls, MakeDirectory(c) PROVE CallsOK /\ RestOK
    <2>1. calls[c] \in OpenCalls /\ GoesOn(c, "opening")
      BY <1>8, CallFacts DEF MakeDirectory, Open
    <2>2. [calls[c] EXCEPT !.step = "opening"] \in OpenCalls
      BY <2>1 DEF OpenCalls
    <2>3. calls' = [calls EXCEPT ![c] = [calls[c] EXCEPT !.step = "opening"]]
      BY <2>1 DEF GoesOn
    <2>4. CallsOK
      BY <1>0, <2>2, <2>3
    <2> HIDE DEF CallsOK
    <2> QED BY <1>0, <1>8, <2>4 DEF MakeDirectory
  <1>9. ASSUME NEW c \in Calls, Truncate(c) PROVE CallsOK /\ RestOK
    <2>1. Acts(c) /\ UNCHANGED <<up, starts, stops>>
      BY <1>9 DEF Acts, Progress, Truncate
    <2>2. CASE Ends(c, "threw") /\ UNCHANGED <<file, last>>
      <3>1. CallsOK
        BY <1>3, <2>2
      <3> HIDE DEF CallsOK
      <3> QED BY <1>0, <2>1, <2>2, <3>1
    <2>3. CASE up /\ file' = Text(<<>>) /\ last' = Emptied(c) /\ Disturbs(c, Filling(c), TRUE)
      <3>1. calls[c] \in OpenCalls
        BY <1>9, TruncateFacts
      <3>2. Filling(c) \in OpenCalls
        BY <3>1 DEF Filling, OpenCalls
      <3>3. calls'[c] = Filling(c)
        BY <2>3, DisturbsFacts
      <3>4. CallsOK
        BY <1>b, <1>5, <2>1, <2>3, <3>2, <3>3
      <3>5. Text(<<>>) \in FileStates
        BY EmptySeq DEF FileStates, Text
      <3>6. Emptied(c) \in Lasts
        <4>1. calls[c].plan \in Seq(Tokens)
          BY <3>1 DEF OpenCalls, Texts
        <4>2. \A d \in Calls : Writing(d) => calls[d].plan \in Seq(Tokens)
          <5> SUFFICES ASSUME NEW d \in Calls, Writing(d) PROVE calls[d].plan \in Seq(Tokens)
            OBVIOUS
          <5> QED BY CallFacts DEF Writing, Open, OpenCalls, Texts
        <4>3. {calls[d].plan : d \in {b \in Calls : Writing(b)}} \in SUBSET Seq(Tokens)
          BY <4>2
        <4> QED BY <4>1, <4>3 DEF Emptied, Lasts
      <3> HIDE DEF CallsOK
      <3> QED BY <1>0, <2>1, <2>3, <3>4, <3>5, <3>6
    <2> QED BY <1>9, <2>2, <2>3 DEF Truncate
  <1>10. ASSUME NEW c \in Calls, Put(c) PROVE CallsOK /\ RestOK
    <2>1. Acts(c)
      BY <1>10 DEF Acts, Progress
    <2>2. PICK q \in (calls[c].pos + 1)..Len(calls[c].plan) :
            /\ calls'[c] \in OpenCalls
            /\ calls[c].linked => file' = Text(Overlay(calls[c].plan, calls[c].pos, q, file.text))
            /\ ~calls[c].linked => UNCHANGED file
      BY <1>10, PutFacts
    <2>3. DOMAIN calls' = Calls /\ calls' = [d \in Calls |-> calls'[d]]
      <3>1. CASE calls[c].linked
        BY <1>10, <3>1 DEF Put, Disturbs
      <3>2. CASE ~calls[c].linked
        <4>1. \E k : calls' = [calls EXCEPT ![c] = k]
          BY <1>10, <3>2 DEF Put
        <4> QED BY <1>0, <4>1
      <3> QED BY <3>1, <3>2
    <2>4. CallsOK
      BY <1>b, <2>1, <2>2, <2>3
    <2>5. file' \in FileStates
      <3>1. CASE ~calls[c].linked
        BY <1>0, <2>2, <3>1
      <3>2. CASE calls[c].linked
        <4>1. calls[c].plan \in Texts /\ calls[c].pos \in Nat /\ file.text \in Texts
          BY <1>0, <1>10, PutFacts, StatesAreTexts DEF OpenCalls
        <4>2. Overlay(calls[c].plan, calls[c].pos, q, file.text) \in Texts
          BY <4>1, OverlayFacts
        <4> DEFINE t == Overlay(calls[c].plan, calls[c].pos, q, file.text)
        <4>3. file' = Text(t)
          BY <2>2, <3>2
        <4> HIDE DEF t
        <4>4. t \in Seq(Tokens)
          BY <4>2 DEF t, Texts
        <4> QED BY <4>3, <4>4 DEF FileStates, Text
      <3> QED BY <3>1, <3>2
    <2> HIDE DEF CallsOK
    <2> QED BY <1>0, <1>10, <2>4, <2>5, PutFacts
  <1>11. CASE StopContainer
    <2>1. CallsOK
      <3>1. calls' = [c \in Calls |-> IF calls[c].step = "filling" THEN Done("threw") ELSE calls[c]]
        BY <1>11 DEF StopContainer
      <3> QED BY <1>0, <1>2, <3>1
    <2>2. stops' \in 0..MaxStops
      BY <1>0, <1>11, ToolsAssumption DEF StopContainer
    <2>3. up' = FALSE /\ UNCHANGED <<file, starts>> /\ last' = LastIfNot(Calls)
      BY <1>11 DEF StopContainer
    <2> HIDE DEF CallsOK
    <2> QED BY <1>0, <1>a, <2>1, <2>2, <2>3
  <1>12. CASE StartContainer
    BY <1>0, <1>12 DEF StartContainer
  <1>13. CASE UNCHANGED vars
    BY <1>0, <1>13 DEF vars
  <1> QED BY <1>1, <1>4, <1>6, <1>7, <1>8, <1>9, <1>10, <1>11, <1>12, <1>13 DEF Next, Progress

(* A step that is taken is a step of a call or of the container. *)
LEMMA NextActs ==
  ASSUME [Next]_vars
  PROVE  \/ \E c \in Calls : Acts(c)
         \/ StopContainer \/ StartContainer \/ UNCHANGED vars
  BY DEF Next, Acts

(* Where a call is after its own step. *)
LEMMA OwnStep ==
  ASSUME TypeOK, NEW c \in Calls, Acts(c), Open(c)'
  PROVE  /\ calls'[c] \in OpenCalls
         /\ calls'[c].step # "filling" =>
              /\ UNCHANGED <<file, last>> /\ calls[c].step # "filling"
              /\ \/ \E op \in Ops : Start(c, op)
                 \/ Decide(c)
                 \/ MakeDirectory(c)
         /\ calls'[c].step = "filling" =>
              \/ Truncate(c) /\ file' = Text(<<>>) /\ last' = Emptied(c)
              \/ Put(c)
  <1>1. calls'[c] \in OpenCalls
    <2>1. [Next]_vars
      BY DEF Next, Acts
    <2>2. TypeOK'
      BY <2>1, TypeHolds
    <2> QED BY <2>2 DEF TypeOK, Open, OpenCalls, Texts
  <1>2. ASSUME NEW r, Ends(c, r) PROVE FALSE
    <2>1. calls'[c] = Done(r)
      BY <1>2, EndsFacts
    <2>2. Done(r).step = "idle"
      BY DEF Done
    <2> QED BY <2>1, <2>2 DEF Open
  <1>3. ~Look(c) /\ ~Search(c) /\ ~Close(c) /\ ~Breaks(c)
    BY <1>2 DEF Look, Search, Close, Breaks
  <1>4. ~RunCommand(c)
    <2>1. ASSUME NEW same, Disturbs(c, Done("success"), same) PROVE FALSE
      <3>1. calls'[c] = Done("success")
        BY <2>1, DisturbsFacts
      <3>2. Done("success").step = "idle"
        BY DEF Done
      <3> QED BY <3>1, <3>2 DEF Open
    <2> QED BY <1>2, <2>1 DEF RunCommand
  <1>5. ASSUME NEW op \in Ops, Start(c, op)
        PROVE  calls'[c].step # "filling" /\ calls[c].step # "filling" /\ UNCHANGED <<file, last>>
    BY <1>5, UpdateFacts DEF Start, Open
  <1>6. CASE Decide(c)
    <2>1. Open(c) /\ calls[c] \in OpenCalls /\ calls[c].step = "asking" /\ UNCHANGED <<file, last>>
      BY <1>6, DecideFacts, CallFacts DEF Decide
    <2>2. \E t, seeing : Plans(c, t, seeing)
      BY <1>2, <1>6, DecideFacts
    <2>3. calls'[c].step # "filling"
      BY <2>1, <2>2, PlansFacts DEF OpenCalls
    <2> QED BY <1>1, <1>6, <2>1, <2>3
  <1>7. CASE MakeDirectory(c)
    <2>1. calls[c] \in OpenCalls /\ calls[c].step = "making" /\ UNCHANGED <<file, last>>
      BY <1>7, CallFacts DEF MakeDirectory, Open
    <2>2. calls'[c].step # "filling"
      <3>1. calls'[c] = [calls[c] EXCEPT !.step = "opening"]
        BY <1>7, GoesOnFacts DEF MakeDirectory
      <3> QED BY <2>1, <3>1 DEF OpenCalls
    <2> QED BY <1>1, <1>7, <2>1, <2>2
  <1>8. CASE Truncate(c)
    BY <1>1, <1>2, <1>8, TruncateFacts
  <1>9. CASE Put(c)
    <2>1. calls'[c].step = "filling"
      <3>1. PICK q : calls'[c] = [calls[c] EXCEPT !.pos = q]
        BY <1>9, PutFacts
      <3>2. calls[c] \in OpenCalls /\ calls[c].step = "filling"
        BY <1>9, PutFacts
      <3> QED BY <3>1, <3>2 DEF OpenCalls
    <2> QED BY <1>1, <1>9, <2>1
  <1> QED BY <1>1, <1>3, <1>4, <1>5, <1>6, <1>7, <1>8, <1>9 DEF Acts, Progress

(* What a call decided goes with it. *)
LEMMA DecideMoves ==
  ASSUME TypeOK, NEW c \in Calls, Decide(c), Open(c)'
  PROVE  /\ calls[c].step = "asking" /\ calls'[c].step = "making"
         /\ calls'[c].pos = calls[c].pos /\ calls'[c].linked = calls[c].linked
         /\ calls'[c].op = calls[c].op /\ calls'[c].before = calls[c].before
         /\ calls[c].op.kind \in {"edit", "insert", "write"}
         /\ calls'[c].undisturbed =>
              /\ calls[c].undisturbed
              /\ calls[c].op.kind = "write" \/ file.there
              /\ Decision(calls[c].op, file).ok
              /\ calls'[c].plan = Decision(calls[c].op, file).text
  <1>1. calls[c] \in OpenCalls /\ Open(c) /\ calls[c].step = "asking"
        /\ calls[c].op.kind \in {"edit", "insert", "write"}
    BY DecideFacts, CallFacts DEF Decide
  <1>2. ASSUME NEW r, Ends(c, r) PROVE FALSE
    <2>1. calls'[c] = Done(r)
      BY <1>2, EndsFacts
    <2>2. Done(r).step = "idle"
      BY DEF Done
    <2> QED BY <2>1, <2>2 DEF Open
  <1>3. PICK runs \in {FALSE, up} :
          LET seen == IF runs THEN file ELSE NoFile
              d    == Decision(calls[c].op, seen)
          IN  /\ calls[c].op.kind = "write" \/ seen.there
              /\ d.ok /\ Plans(c, d.text, runs)
    BY <1>2, DecideFacts
  <1> DEFINE t == Decision(calls[c].op, IF runs THEN file ELSE NoFile).text
  <1>4. Plans(c, t, runs)
    BY <1>3
  <1> HIDE DEF t
  <1>5. calls'[c] = [calls[c] EXCEPT !.step = "making", !.plan = t, !.undisturbed = @ /\ runs]
    BY <1>1, <1>4, CallFacts DEF Plans, OpenCalls
  <1>6. /\ calls'[c].step = "making" /\ calls'[c].plan = t
        /\ calls'[c].pos = calls[c].pos /\ calls'[c].linked = calls[c].linked
        /\ calls'[c].op = calls[c].op /\ calls'[c].before = calls[c].before
        /\ calls'[c].undisturbed => calls[c].undisturbed /\ runs
    BY <1>1, <1>5 DEF OpenCalls
  <1>7. ASSUME runs
        PROVE  /\ calls[c].op.kind = "write" \/ file.there
               /\ Decision(calls[c].op, file).ok
               /\ t = Decision(calls[c].op, file).text
    BY <1>3, <1>7 DEF t
  <1> QED BY <1>1, <1>6, <1>7

LEMMA MakeDirectoryMoves ==
  ASSUME TypeOK, NEW c \in Calls, MakeDirectory(c)
  PROVE  /\ calls[c].step = "making" /\ calls'[c].step = "opening" /\ Open(c)
         /\ calls'[c].pos = calls[c].pos /\ calls'[c].linked = calls[c].linked
         /\ calls'[c].op = calls[c].op /\ calls'[c].before = calls[c].before
         /\ calls'[c].plan = calls[c].plan /\ calls'[c].undisturbed = calls[c].undisturbed
         /\ UNCHANGED <<file, last>>
  <1>1. calls[c] \in OpenCalls /\ Open(c) /\ calls[c].step = "making" /\ UNCHANGED <<file, last>>
    BY CallFacts DEF MakeDirectory, Open
  <1>2. calls'[c] = [calls[c] EXCEPT !.step = "opening"]
    BY GoesOnFacts DEF MakeDirectory
  <1> QED BY <1>1, <1>2 DEF OpenCalls

LEMMA StartMoves ==
  ASSUME TypeOK, NEW c \in Calls, NEW op \in Ops, Start(c, op)
  PROVE  /\ ~Open(c) /\ calls'[c].step = "asking" /\ calls'[c].before = file
         /\ calls'[c].pos = 0 /\ ~calls'[c].linked /\ UNCHANGED <<file, last>>
  <1> DEFINE new == [step |-> "asking", op |-> op, plan |-> <<>>, pos |-> 0,
                     linked |-> FALSE, undisturbed |-> TRUE, before |-> file]
  <1>1. calls' = [calls EXCEPT ![c] = new] /\ ~Open(c) /\ UNCHANGED <<file, last>>
    BY DEF Start
  <1>2. new.step = "asking" /\ new.before = file /\ new.pos = 0 /\ ~new.linked
    OBVIOUS
  <1> HIDE DEF new
  <1>3. calls'[c] = new
    BY <1>1, UpdateFacts
  <1> QED BY <1>1, <1>2, <1>3

(* Shells go on from the start of their texts, in a file that is there. *)
LEMMA ShellsHold == IInv /\ [Next]_vars => ShellsAreInPlace'
  <1> SUFFICES ASSUME TypeOK, ShellsAreInPlace, [Next]_vars PROVE ShellsAreInPlace'
    BY DEF IInv
  <1> SUFFICES ASSUME NEW d \in Calls, Open(d)' PROVE InPlace(d)'
    BY DEF ShellsAreInPlace
  <1>1. ASSUME NEW c \in Calls, Acts(c), d # c PROVE InPlace(d)'
    <2>1. CASE calls'[d] = calls[d] /\ (Open(d) => UNCHANGED file)
      <3>1. Open(d) /\ UNCHANGED file
        BY <2>1 DEF Open
      <3> QED BY <2>1, <3>1 DEF ShellsAreInPlace, InPlace
    <2>2. ASSUME NEW same \in BOOLEAN, Shaken(d, same), same => file'.there PROVE InPlace(d)'
      <3>1. InPlace(d)
        BY <2>2 DEF Shaken, ShellsAreInPlace
      <3> QED BY <2>2, <3>1, ShakenFacts DEF InPlace
    <2> QED BY <1>1, <2>1, <2>2, OthersFacts
  <1>2. ASSUME Acts(d), calls'[d].step # "filling" PROVE InPlace(d)'
    <2>1. ASSUME NEW op \in Ops, Start(d, op) PROVE InPlace(d)'
      BY <1>2, <2>1, StartMoves DEF InPlace
    <2>2. ASSUME Open(d), calls[d].step # "filling",
                 calls'[d].pos = calls[d].pos, calls'[d].linked = calls[d].linked
          PROVE  InPlace(d)'
      BY <1>2, <2>2 DEF InPlace, ShellsAreInPlace
    <2>3. CASE Decide(d)
      BY <2>2, <2>3, DecideMoves, DecideFacts
    <2>4. CASE MakeDirectory(d)
      BY <2>2, <2>4, MakeDirectoryMoves
    <2> QED BY <1>2, <2>1, <2>3, <2>4, OwnStep
  <1>3. CASE Truncate(d) /\ file' = Text(<<>>) /\ calls'[d].step = "filling"
    <2>1. calls'[d].pos = 0 /\ calls'[d].plan = calls[d].plan /\ calls[d] \in OpenCalls
      <3>1. ~Ends(d, "threw")
        <4>1. Done("threw").step = "idle"
          BY DEF Done
        <4> QED BY <1>3, <4>1, EndsFacts
      <3>2. calls[d].pos = 0
        BY <1>3, TruncateFacts DEF ShellsAreInPlace, InPlace
      <3> QED BY <1>3, <3>1, <3>2, TruncateFacts
    <2>2. Len(calls[d].plan) \in Nat
      BY <2>1, LenProperties DEF OpenCalls, Texts
    <2> QED BY <1>3, <2>1, <2>2 DEF InPlace, Text
  <1>4. CASE Put(d)
    <2>1. calls[d] \in OpenCalls /\ InPlace(d) /\ calls[d].step = "filling"
      BY <1>4, PutFacts DEF ShellsAreInPlace
    <2>2. PICK q \in (calls[d].pos + 1)..Len(calls[d].plan) :
            /\ calls'[d] = [calls[d] EXCEPT !.pos = q]
            /\ calls[d].linked => file' = Text(Overlay(calls[d].plan, calls[d].pos, q, file.text))
            /\ ~calls[d].linked => UNCHANGED file
      BY <1>4, PutFacts
    <2>3. /\ calls'[d].pos = q /\ calls'[d].plan = calls[d].plan /\ calls'[d].step = "filling"
          /\ calls'[d].linked = calls[d].linked
      BY <2>1, <2>2 DEF OpenCalls
    <2>4. calls[d].linked => file'.there
      BY <2>2 DEF Text
    <2>5. q <= Len(calls[d].plan)
      BY <2>1, LenProperties DEF OpenCalls, Texts
    <2> QED BY <2>3, <2>4, <2>5 DEF InPlace
  <1>5. CASE Acts(d)
    BY <1>2, <1>3, <1>4, <1>5, OwnStep
  <1>6. CASE StopContainer
    <2>1. /\ UNCHANGED file
          /\ calls'[d] = IF calls[d].step = "filling" THEN Done("threw") ELSE calls[d]
      BY <1>6 DEF StopContainer
    <2>2. Open(d) /\ calls'[d] = calls[d]
      BY <2>1 DEF Open, Done
    <2> QED BY <2>1, <2>2 DEF ShellsAreInPlace, InPlace
  <1>7. CASE StartContainer \/ UNCHANGED vars
    BY <1>7 DEF StartContainer, vars, ShellsAreInPlace, InPlace, Open
  <1> QED BY <1>1, <1>5, <1>6, <1>7, NextActs

-----------------------------------------------------------------------------
(* The last call to empty the file *)

Sound(text, own, mixed, done) ==
  /\ Len(text) >= done
  /\ \A i \in DOMAIN text :
       \/ i <= done /\ text[i] = own[i]
       \/ \E t \in mixed : i \in DOMAIN t /\ (text[i] = t[i] \/ (i > done /\ text[i] = Nul))

(* A piece that the last call to empty the file writes, or one whose text may be
   mixed in, leaves every place accounted for. *)
LEMMA PieceFacts ==
  ASSUME NEW old \in Texts, NEW own \in Texts, NEW mixed \in SUBSET Texts,
         NEW done \in Nat, done <= Len(own), Sound(old, own, mixed, done),
         NEW new \in Texts, NEW p \in Nat, NEW q \in (p + 1)..Len(new)
  PROVE  LET t == Overlay(new, p, q, old)
         IN  /\ new = own /\ p = done => Sound(t, own, mixed, q)
             /\ new \in mixed => Sound(t, own, mixed, done)
  <1> DEFINE t == Overlay(new, p, q, old)
  <1>1. /\ t \in Texts /\ Len(t) = IF q > Len(old) THEN q ELSE Len(old)
        /\ \A i \in 1..Len(t) : t[i] = IF i \in (p + 1)..q THEN new[i]
                                       ELSE IF i <= Len(old) THEN old[i] ELSE Nul
    BY OverlayFacts
  <1> HIDE DEF t
  <1>2. /\ DOMAIN t = 1..Len(t) /\ Len(t) \in Nat /\ DOMAIN old = 1..Len(old) /\ Len(old) \in Nat
        /\ DOMAIN new = 1..Len(new) /\ Len(new) \in Nat /\ Len(own) \in Nat /\ q \in Nat
    BY <1>1, LenProperties DEF Texts
  <1>3. Len(old) >= done
    BY DEF Sound
  <1>4. ASSUME NEW i \in 1..Len(old)
        PROVE  \/ i <= done /\ old[i] = own[i]
               \/ \E u \in mixed : i \in DOMAIN u /\ (old[i] = u[i] \/ (i > done /\ old[i] = Nul))
    BY <1>2 DEF Sound
  <1>5. ASSUME new = own, p = done PROVE Sound(t, own, mixed, q)
    <2>1. Len(t) >= q
      BY <1>1, <1>2
    <2>2. ASSUME NEW i \in 1..Len(t)
          PROVE  \/ i <= q /\ t[i] = own[i]
                 \/ \E u \in mixed : i \in DOMAIN u /\ (t[i] = u[i] \/ (i > q /\ t[i] = Nul))
      <3>1. CASE i \in (p + 1)..q
        BY <1>1, <1>2, <1>5, <3>1
      <3>2. CASE i \notin (p + 1)..q
        <4>1. i \in 1..Len(old)
          BY <1>1, <1>2, <1>3, <1>5, <3>2
        <4>2. t[i] = old[i]
          BY <1>1, <1>2, <3>2, <4>1
        <4>3. i <= done => i <= q
          BY <1>2, <1>5
        <4>4. i > done => i > q
          BY <1>2, <1>5, <3>2
        <4> QED BY <1>4, <4>1, <4>2, <4>3, <4>4
      <3> QED BY <3>1, <3>2
    <2> QED BY <1>2, <2>1, <2>2 DEF Sound
  <1>6. ASSUME new \in mixed PROVE Sound(t, own, mixed, done)
    <2>1. Len(t) >= done
      BY <1>1, <1>2, <1>3
    <2>2. ASSUME NEW i \in 1..Len(t)
          PROVE  \/ i <= done /\ t[i] = own[i]
                 \/ \E u \in mixed : i \in DOMAIN u /\ (t[i] = u[i] \/ (i > done /\ t[i] = Nul))
      <3>1. CASE i \in (p + 1)..q
        BY <1>1, <1>2, <1>6, <3>1
      <3>2. CASE i \notin (p + 1)..q /\ i <= Len(old)
        <4>1. t[i] = old[i] /\ i \in 1..Len(old)
          BY <1>1, <1>2, <3>2
        <4> QED BY <1>4, <4>1
      <3>3. CASE i \notin (p + 1)..q /\ ~(i <= Len(old))
        <4>1. t[i] = Nul /\ i > done /\ i \in DOMAIN new
          BY <1>1, <1>2, <1>3, <3>3
        <4> QED BY <1>6, <4>1
      <3> QED BY <3>1, <3>2, <3>3
    <2> QED BY <1>2, <2>1, <2>2 DEF Sound
  <1> QED BY <1>5, <1>6 DEF t

(* A call that keeps its place in its writing. *)
Keeps(d) ==
  /\ calls'[d].step = calls[d].step
  /\ calls[d].step = "filling" =>
       /\ calls'[d].plan = calls[d].plan /\ calls'[d].pos = calls[d].pos
       /\ calls'[d].linked <=> calls[d].linked

LEMMA OthersKeep ==
  ASSUME TypeOK, NEW c \in Calls, Acts(c), last'.known, NEW d \in Calls, d # c
  PROVE  Keeps(d)
  <1>1. CASE calls'[d] = calls[d]
    BY <1>1 DEF Keeps
  <1>2. ASSUME NEW same \in BOOLEAN, Shaken(d, same), ~same => last' = Unknown PROVE Keeps(d)
    <2>1. same
      BY <1>2 DEF Unknown
    <2> QED BY <1>2, <2>1, ShakenFacts DEF Keeps
  <1> QED BY <1>1, <1>2, OthersFacts

(* The last call to empty the file has what it has written in it, and nobody mixes in
   a text but those who were writing by then: who empties it later is the last. *)
LEMMA LastHolds == IInv /\ [Next]_vars => LastIsInFile'
  <1> SUFFICES ASSUME TypeOK, ShellsAreInPlace, LastIsInFile, [Next]_vars, last'.known
               PROVE  LastIsInFile'
    BY DEF IInv, LastIsInFile
  <1> DEFINE by == last.by
  <1>0. ASSUME last.known
        PROVE  /\ by \in Calls /\ last.text \in Texts /\ last.mixed \in SUBSET Texts
               /\ calls[by].step = "filling" =>
                    /\ calls[by] \in OpenCalls /\ calls[by].pos <= Len(last.text)
               /\ \A s, n : Accounted(s, n) <=> Sound(s, last.text, last.mixed, n)
    <2>1. by \in Calls /\ last.text \in Texts /\ last.mixed \in SUBSET Texts
      <3>1. last \in {Unknown} \union [known : {TRUE}, by : Calls, text : Texts, mixed : SUBSET Texts]
        BY DEF TypeOK, Texts
      <3>2. last # Unknown
        BY <1>0 DEF Unknown
      <3> QED BY <3>1, <3>2
    <2>2. calls[by].step = "filling" => calls[by] \in OpenCalls /\ calls[by].pos <= Len(last.text)
      BY <1>0, <2>1, CallFacts DEF ShellsAreInPlace, InPlace, LastIsInFile, Open
    <2> QED BY <2>1, <2>2 DEF Accounted, Sound
  <1>1. ASSUME UNCHANGED <<file, last>>, \A d \in Calls : Keeps(d) PROVE LastIsInFile'
    <2>1. last.known /\ by \in Calls /\ Keeps(by)
      BY <1>0, <1>1
    <2>2. \A d \in Calls : Writing(d)' => Writing(d) /\ calls'[d].plan = calls[d].plan
      BY <1>1 DEF Keeps, Writing
    <2>3. calls'[by].step = "filling" =>
            /\ calls'[by].linked /\ calls'[by].plan = last.text
            /\ Accounted(file.text, calls'[by].pos)
      BY <2>1 DEF Keeps, LastIsInFile
    <2>4. calls'[by].step # "filling" => Accounted(file.text, Len(last.text))
      BY <2>1 DEF Keeps, LastIsInFile
    <2>5. \A s, n : Accounted(s, n)' <=> Accounted(s', n')
      BY <1>1 DEF Accounted
    <2> QED BY <1>1, <2>1, <2>2, <2>3, <2>4, <2>5 DEF LastIsInFile
  <1>2. ASSUME NEW c \in Calls, Acts(c), UNCHANGED <<file, last>>,
               calls[c].step # "filling", calls'[c].step # "filling"
        PROVE  LastIsInFile'
    <2>1. last.known /\ by \in Calls
      BY <1>0, <1>2
    <2>2. \A d \in Calls : d # c => Keeps(d)
      BY <1>2, OthersKeep
    <2>3. \A d \in Calls : Writing(d)' => Writing(d) /\ calls'[d].plan = calls[d].plan
      BY <1>2, <2>2 DEF Keeps, Writing
    <2>4. calls'[by].step = "filling" =>
            /\ calls'[by].linked /\ calls'[by].plan = last.text
            /\ Accounted(file.text, calls'[by].pos)
      BY <1>2, <2>1, <2>2 DEF Keeps, LastIsInFile
    <2>5. calls'[by].step # "filling" => Accounted(file.text, Len(last.text))
      BY <1>2, <2>1, <2>2 DEF Keeps, LastIsInFile
    <2> QED BY <1>2, <2>1, <2>3, <2>4, <2>5 DEF LastIsInFile, Accounted
  (* A call that ends its writing, well or not. *)
  <1>3. ASSUME NEW c \in Calls, Acts(c), UNCHANGED <<file, last>>, calls'[c].step # "filling",
               c = by => calls[c].step = "filling" /\ calls[c].pos = Len(calls[c].plan)
        PROVE  LastIsInFile'
    <2>1. last.known /\ by \in Calls
      BY <1>0, <1>3
    <2>2. \A d \in Calls : d # c => Keeps(d)
      BY <1>3, OthersKeep
    <2>3. \A d \in Calls : Writing(d)' => Writing(d) /\ calls'[d].plan = calls[d].plan
      BY <1>3, <2>2 DEF Keeps, Writing
    <2>4. calls'[by].step = "filling" =>
            /\ calls'[by].linked /\ calls'[by].plan = last.text
            /\ Accounted(file.text, calls'[by].pos)
      BY <1>3, <2>1, <2>2 DEF Keeps, LastIsInFile
    <2>5. calls'[by].step # "filling" => Accounted(file.text, Len(last.text))
      <3>1. CASE by = c
        BY <1>3, <2>1, <3>1 DEF LastIsInFile
      <3>2. CASE by # c
        BY <2>1, <2>2, <3>2 DEF Keeps, LastIsInFile
      <3> QED BY <3>1, <3>2
    <2> QED BY <1>3, <2>1, <2>3, <2>4, <2>5 DEF LastIsInFile, Accounted
  <1>4. ASSUME NEW c \in Calls, NEW r, Ends(c, r) PROVE calls'[c].step = "idle"
    <2>1. calls'[c] = Done(r)
      BY <1>4, EndsFacts
    <2>2. Done(r).step = "idle"
      BY DEF Done
    <2> QED BY <2>1, <2>2
  <1>5. ASSUME NEW c \in Calls, Acts(c), Open(c)', calls'[c].step # "filling" PROVE LastIsInFile'
    BY <1>2, <1>5, OwnStep
  <1>6. ASSUME NEW c \in Calls, Acts(c), ~Open(c)' PROVE LastIsInFile'
    <2>1. calls'[c].step # "filling"
      BY <1>6 DEF Open
    <2>2. CASE calls[c].step # "filling"
      <3>1. UNCHANGED <<file, last>>
        <4>1. ASSUME NEW op \in Ops, Start(c, op) PROVE FALSE
          BY <1>6, <4>1, StartMoves DEF Open
        <4>2. CASE RunCommand(c)
          BY <4>2 DEF RunCommand, Unknown
        <4>3. CASE Truncate(c)
          BY <1>6, <4>3, TruncateFacts DEF Open
        <4> QED BY <1>6, <2>2, <4>1, <4>2, <4>3
                DEF Acts, Progress, Look, Search, Decide, MakeDirectory, Put, Close, Breaks
      <3> QED BY <1>2, <1>6, <2>1, <2>2, <3>1
    <2>3. CASE calls[c].step = "filling"
      <3>1. Close(c) \/ Breaks(c)
        <4>1. ~Put(c)
          <5> SUFFICES ASSUME Put(c) PROVE FALSE
            OBVIOUS
          <5>1. calls'[c] \in OpenCalls
            BY PutFacts
          <5> QED BY <1>6, <5>1 DEF Open, OpenCalls
        <4> QED BY <1>6, <2>3, <4>1
                DEF Acts, Progress, Start, Look, Search, RunCommand, Decide, MakeDirectory, Truncate, Open
      <3>2. CASE Close(c)
        <4>1. UNCHANGED <<file, last>> /\ calls[c].pos = Len(calls[c].plan)
          BY <3>2 DEF Close
        <4> QED BY <1>3, <1>6, <2>1, <2>3, <4>1
      <3>3. CASE Breaks(c)
        <4>1. UNCHANGED file /\ last' = LastIfNot({c})
          BY <3>3 DEF Breaks
        <4>2. UNCHANGED last /\ by # c
          BY <1>0, <2>3, <4>1 DEF LastIfNot, Unknown
        <4> QED BY <1>3, <1>6, <2>1, <4>1, <4>2
      <3> QED BY <3>1, <3>2, <3>3
    <2> QED BY <2>2, <2>3
  <1>7. ASSUME NEW c \in Calls, Truncate(c), Open(c)' PROVE LastIsInFile'
    <2>1. ~Ends(c, "threw")
      BY <1>4, <1>7 DEF Open
    <2>2. /\ file' = Text(<<>>) /\ last' = Emptied(c) /\ calls[c] \in OpenCalls
          /\ calls'[c].step = "filling" /\ calls'[c].linked
          /\ calls'[c].plan = calls[c].plan /\ calls'[c].pos = calls[c].pos
      BY <1>7, <2>1, TruncateFacts
    <2>3. calls[c].pos = 0 /\ Acts(c)
      BY <1>7, TruncateFacts DEF ShellsAreInPlace, InPlace, Acts, Progress
    <2>4. /\ last'.by = c /\ last'.text = calls[c].plan
          /\ last'.mixed = {calls[d].plan : d \in {b \in Calls : Writing(b)}}
      BY <2>2 DEF Emptied
    <2>5. ASSUME NEW d \in Calls, d # c, Writing(d)' PROVE calls'[d].plan \in last'.mixed
      <3>1. Writing(d) /\ calls'[d].plan = calls[d].plan
        <4>1. Keeps(d)
          BY <2>3, <2>5, OthersKeep
        <4> QED BY <2>5, <4>1 DEF Keeps, Writing
      <3> QED BY <2>4, <3>1
    <2>6. Accounted(<<>>, 0)'
      <3>1. DOMAIN <<>> = {} /\ Len(<<>>) >= 0
        BY EmptySeq
      <3> QED BY <3>1 DEF Accounted
    <2>7. file'.text = <<>> /\ file'.there
      BY <2>2 DEF Text
    <2> QED BY <2>2, <2>3, <2>4, <2>5, <2>6, <2>7 DEF LastIsInFile
  <1>8. ASSUME NEW c \in Calls, Put(c) PROVE LastIsInFile'
    <2>1. /\ calls[c].step = "filling" /\ calls[c] \in OpenCalls /\ Acts(c) /\ UNCHANGED last
          /\ last.known
      BY <1>8, PutFacts DEF Acts, Progress
    <2>2. PICK q \in (calls[c].pos + 1)..Len(calls[c].plan) :
            /\ calls'[c] = [calls[c] EXCEPT !.pos = q] /\ calls'[c] \in OpenCalls
            /\ calls[c].linked => file' = Text(Overlay(calls[c].plan, calls[c].pos, q, file.text))
            /\ ~calls[c].linked => UNCHANGED file
      BY <1>8, PutFacts
    <2>3. /\ calls'[c].step = "filling" /\ calls'[c].plan = calls[c].plan /\ calls'[c].pos = q
          /\ calls'[c].linked <=> calls[c].linked
      BY <2>1, <2>2 DEF OpenCalls
    <2>4. \A d \in Calls : d # c => Keeps(d)
      BY <2>1, OthersKeep
    <2>5. \A d \in Calls : Writing(d)' => Writing(d) /\ calls'[d].plan = calls[d].plan
      BY <2>1, <2>3, <2>4 DEF Keeps, Writing
    <2>6. /\ by \in Calls /\ last.text \in Texts /\ last.mixed \in SUBSET Texts
          /\ \A s, n : Accounted(s, n) <=> Sound(s, last.text, last.mixed, n)
          /\ file.there /\ file.text \in Texts
          /\ calls[c].plan \in Texts /\ calls[c].pos \in Nat
      BY <1>0, <2>1, StatesAreTexts DEF LastIsInFile, TypeOK, OpenCalls
    <2> DEFINE t == Overlay(calls[c].plan, calls[c].pos, q, file.text)
    <2>7. CASE ~calls[c].linked
      <3>1. UNCHANGED file /\ by # c
        BY <2>1, <2>2, <2>7 DEF LastIsInFile
      <3>2. calls'[by].step = "filling" =>
              /\ calls'[by].linked /\ calls'[by].plan = last.text
              /\ Accounted(file.text, calls'[by].pos)
        BY <2>1, <2>4, <2>6, <3>1 DEF Keeps, LastIsInFile
      <3>3. calls'[by].step # "filling" => Accounted(file.text, Len(last.text))
        BY <2>1, <2>4, <2>6, <3>1 DEF Keeps, LastIsInFile
      <3> QED BY <2>1, <2>5, <2>6, <3>1, <3>2, <3>3 DEF LastIsInFile, Accounted
    <2>8. CASE calls[c].linked
      <3>1. file' = Text(t)
        BY <2>2, <2>8
      <3>2. ASSUME NEW done \in Nat, done <= Len(last.text), Accounted(file.text, done)
            PROVE  /\ calls[c].plan = last.text /\ calls[c].pos = done => Accounted(t, q)
                   /\ calls[c].plan \in last.mixed => Accounted(t, done)
        <4>1. Sound(file.text, last.text, last.mixed, done)
          BY <2>6, <3>2
        <4>2. /\ calls[c].plan = last.text /\ calls[c].pos = done => Sound(t, last.text, last.mixed, q)
              /\ calls[c].plan \in last.mixed => Sound(t, last.text, last.mixed, done)
          <5> HIDE DEF t
          <5> QED BY <2>6, <3>2, <4>1, PieceFacts DEF t
        <4> HIDE DEF t
        <4> QED BY <2>6, <4>2
      <3> HIDE DEF t
      <3>3. file'.there /\ file'.text = t
        BY <3>1 DEF Text
      <3>4. CASE by = c
        <4>1. Accounted(t, q)
          BY <1>0, <2>1, <2>6, <3>2, <3>4 DEF LastIsInFile
        <4>2. calls'[by].plan = last.text /\ calls'[by].linked /\ calls'[by].pos = q
          BY <2>1, <2>3, <3>4 DEF LastIsInFile
        <4> QED BY <2>1, <2>3, <2>5, <3>3, <3>4, <4>1, <4>2 DEF LastIsInFile, Accounted
      <3>5. CASE by # c
        <4>1. calls[c].plan \in last.mixed
          BY <2>1, <2>8, <3>5 DEF LastIsInFile, Writing
        <4>2. Keeps(by)
          BY <2>4, <2>6, <3>5
        <4>3. ASSUME calls[by].step = "filling"
              PROVE  /\ calls'[by].linked /\ calls'[by].plan = last.text
                     /\ Accounted(t, calls'[by].pos)
          <5>1. /\ calls[by].linked /\ calls[by].plan = last.text
                /\ Accounted(file.text, calls[by].pos)
            BY <2>1, <4>3 DEF LastIsInFile
          <5>2. calls[by].pos \in Nat /\ calls[by].pos <= Len(last.text)
            BY <1>0, <2>1, <4>3 DEF OpenCalls
          <5> QED BY <3>2, <4>1, <4>2, <4>3, <5>1, <5>2 DEF Keeps
        <4>4. ASSUME calls[by].step # "filling" PROVE Accounted(t, Len(last.text))
          <5>1. Len(last.text) \in Nat /\ Len(last.text) <= Len(last.text)
            BY <2>6, LenProperties DEF Texts
          <5>2. Accounted(file.text, Len(last.text))
            BY <2>1, <4>4 DEF LastIsInFile
          <5> QED BY <3>2, <4>1, <5>1, <5>2
        <4>5. calls'[by].step = calls[by].step
          BY <4>2 DEF Keeps
        <4> QED BY <2>1, <2>5, <3>3, <4>3, <4>4, <4>5 DEF LastIsInFile, Accounted
      <3> QED BY <3>4, <3>5
    <2> QED BY <2>7, <2>8
  <1>9. ASSUME NEW c \in Calls, Acts(c) PROVE LastIsInFile'
    BY <1>5, <1>6, <1>7, <1>8, <1>9, OwnStep
  <1>10. CASE StopContainer
    <2>1. UNCHANGED file /\ last' = LastIfNot(Calls)
          /\ calls' = [c \in Calls |-> IF calls[c].step = "filling" THEN Done("threw") ELSE calls[c]]
      BY <1>10 DEF StopContainer
    <2>2. UNCHANGED last /\ last.known /\ by \in Calls /\ calls[by].step # "filling"
      BY <1>0, <2>1 DEF LastIfNot, Unknown
    <2>3. \A d \in Calls : calls'[d].step # "filling"
      <3>1. Done("threw").step = "idle"
        BY DEF Done
      <3> QED BY <2>1, <3>1
    <2> QED BY <2>1, <2>2, <2>3 DEF LastIsInFile, Accounted, Writing
  <1>11. CASE StartContainer \/ UNCHANGED vars
    <2>1. UNCHANGED <<calls, file, last>>
      BY <1>11 DEF StartContainer, vars
    <2> QED BY <1>1, <2>1 DEF Keeps
  <1> QED BY <1>9, <1>10, <1>11, NextActs

-----------------------------------------------------------------------------
(* Undisturbed calls *)

(* In a file that has what a shell wrote so far, the next piece goes on from there. *)
LEMMA OverlayGrows ==
  ASSUME NEW new \in Texts, NEW old \in Texts, NEW p \in Nat, NEW q \in (p + 1)..Len(new)
  PROVE  old = SubSeq(new, 1, p) => Overlay(new, p, q, old) = SubSeq(new, 1, q)
  <1> DEFINE t == Overlay(new, p, q, old)
             u == SubSeq(new, 1, q)
  <1>1. /\ t \in Texts /\ Len(t) = IF q > Len(old) THEN q ELSE Len(old)
        /\ \A i \in 1..Len(t) : t[i] = IF i \in (p + 1)..q THEN new[i]
                                       ELSE IF i <= Len(old) THEN old[i] ELSE Nul
    BY OverlayFacts
  <1> SUFFICES ASSUME old = SubSeq(new, 1, p) PROVE t = u
    OBVIOUS
  <1>2. Len(new) \in Nat /\ p \in 0..Len(new) /\ q \in 0..Len(new)
    BY LenProperties DEF Texts
  <1>3. Len(old) = p /\ \A j \in 1..p : old[j] = new[j]
    BY <1>2, Beginnings
  <1>4. u \in Texts /\ Len(u) = q /\ \A j \in 1..q : u[j] = new[j]
    BY <1>2, Beginnings
  <1> HIDE DEF t, u
  <1>5. Len(t) = q
    BY <1>1, <1>2, <1>3
  <1>6. \A j \in 1..q : t[j] = u[j]
    BY <1>1, <1>2, <1>3, <1>4, <1>5
  <1> QED BY <1>1, <1>4, <1>5, <1>6, SeqEqual DEF Texts

(* A call that nobody disturbs finds the file as it left it. *)
LEMMA UndisturbedHold == IInv /\ [Next]_vars => UndisturbedAreOnTheirOwn'
  <1> SUFFICES ASSUME TypeOK, ShellsAreInPlace, UndisturbedAreOnTheirOwn, [Next]_vars,
                      NEW d \in Calls, Open(d)', calls'[d].undisturbed
               PROVE  OnItsOwn(d)'
    BY DEF IInv, UndisturbedAreOnTheirOwn
  <1>1. ASSUME Open(d), calls'[d] = calls[d], UNCHANGED file PROVE OnItsOwn(d)'
    BY <1>1 DEF UndisturbedAreOnTheirOwn, OnItsOwn
  <1>2. ASSUME NEW c \in Calls, Acts(c), d # c PROVE OnItsOwn(d)'
    <2>1. ASSUME NEW same \in BOOLEAN, Shaken(d, same) PROVE FALSE
      BY <2>1, ShakenFacts
    <2>2. calls'[d] = calls[d] /\ (Open(d) => UNCHANGED file)
      BY <1>2, <2>1, OthersFacts
    <2>3. Open(d)
      BY <2>2 DEF Open
    <2> QED BY <1>1, <2>2, <2>3
  <1>3. ASSUME NEW op \in Ops, Start(d, op) PROVE OnItsOwn(d)'
    BY <1>3, StartMoves DEF OnItsOwn
  <1>4. CASE Decide(d)
    <2>1. Open(d) /\ UNCHANGED file
      BY <1>4, DecideFacts DEF Decide
    <2>2. /\ calls[d].step = "asking" /\ calls'[d].step = "making" /\ calls[d].undisturbed
          /\ calls'[d].op = calls[d].op /\ calls'[d].before = calls[d].before
          /\ calls[d].op.kind \in {"edit", "insert", "write"}
          /\ calls[d].op.kind = "write" \/ file.there
          /\ Decision(calls[d].op, file).ok
          /\ calls'[d].plan = Decision(calls[d].op, file).text
      BY <1>4, DecideMoves
    <2>3. file = calls[d].before
      BY <2>1, <2>2 DEF UndisturbedAreOnTheirOwn, OnItsOwn
    <2> QED BY <2>1, <2>2, <2>3 DEF OnItsOwn
  <1>5. CASE MakeDirectory(d)
    <2>1. /\ calls[d].step = "making" /\ calls'[d].step = "opening" /\ Open(d)
          /\ calls'[d].op = calls[d].op /\ calls'[d].before = calls[d].before
          /\ calls'[d].plan = calls[d].plan /\ calls[d].undisturbed /\ UNCHANGED file
      BY <1>5, MakeDirectoryMoves
    <2>2. OnItsOwn(d)
      BY <2>1 DEF UndisturbedAreOnTheirOwn
    <2> QED BY <2>1, <2>2 DEF OnItsOwn
  <1>6. CASE Truncate(d)
    <2>1. ~Ends(d, "threw")
      <3>1. Done("threw").step = "idle"
        BY DEF Done
      <3> QED BY <3>1, EndsFacts DEF Open
    <2>2. /\ calls[d].step = "opening" /\ Open(d) /\ calls[d].pos = 0 /\ calls[d] \in OpenCalls
          /\ file' = Text(<<>>)
          /\ calls'[d].step = "filling" /\ calls'[d].linked
          /\ calls'[d].op = calls[d].op /\ calls'[d].before = calls[d].before
          /\ calls'[d].plan = calls[d].plan /\ calls'[d].pos = calls[d].pos
          /\ calls[d].undisturbed
      BY <1>6, <2>1, TruncateFacts DEF ShellsAreInPlace, InPlace
    <2>3. OnItsOwn(d)
      BY <2>2 DEF UndisturbedAreOnTheirOwn
    <2>4. SubSeq(calls[d].plan, 1, 0) = <<>>
      <3>1. 0 \in 0..Len(calls[d].plan) /\ calls[d].plan \in Texts
        BY <2>2, LenProperties DEF OpenCalls, Texts
      <3>2. SubSeq(calls[d].plan, 1, 0) \in Texts /\ Len(SubSeq(calls[d].plan, 1, 0)) = 0
        BY <3>1, Beginnings
      <3> QED BY <3>2, EmptySeq DEF Texts
    <2> QED BY <2>2, <2>3, <2>4 DEF OnItsOwn
  <1>7. CASE Put(d)
    <2>1. calls[d].step = "filling" /\ calls[d] \in OpenCalls /\ Open(d)
      BY <1>7, PutFacts
    <2>2. PICK q \in (calls[d].pos + 1)..Len(calls[d].plan) :
            /\ calls'[d] = [calls[d] EXCEPT !.pos = q]
            /\ calls[d].linked => file' = Text(Overlay(calls[d].plan, calls[d].pos, q, file.text))
      BY <1>7, PutFacts
    <2>3. /\ calls'[d].pos = q /\ calls'[d].plan = calls[d].plan /\ calls'[d].step = "filling"
          /\ calls'[d].linked = calls[d].linked /\ calls'[d].op = calls[d].op
          /\ calls'[d].before = calls[d].before /\ calls'[d].undisturbed = calls[d].undisturbed
      BY <2>1, <2>2 DEF OpenCalls
    <2>4. OnItsOwn(d)
      BY <2>1, <2>3 DEF UndisturbedAreOnTheirOwn
    <2> DEFINE plan == calls[d].plan
               p    == calls[d].pos
    <2>5. plan \in Texts /\ p \in Nat /\ p <= Len(plan) /\ file = Text(SubSeq(plan, 1, p))
      BY <2>1, <2>4 DEF OpenCalls, ShellsAreInPlace, InPlace, OnItsOwn
    <2>6. file' = Text(Overlay(plan, p, q, file.text))
      BY <2>1, <2>2, <2>4 DEF OnItsOwn
    <2> HIDE DEF plan, p
    <2>7. file.text = SubSeq(plan, 1, p) /\ SubSeq(plan, 1, p) \in Texts
      <3>1. p \in 0..Len(plan)
        BY <2>5, LenProperties DEF Texts
      <3> QED BY <2>5, <3>1, Beginnings DEF Text
    <2>8. Overlay(plan, p, q, file.text) = SubSeq(plan, 1, q)
      <3>1. q \in (p + 1)..Len(plan) /\ plan \in Texts /\ p \in Nat
        BY <2>5 DEF plan, p
      <3> QED BY <2>7, <3>1, OverlayGrows
    <2>9. file' = Text(SubSeq(calls'[d].plan, 1, calls'[d].pos))
      BY <2>3, <2>6, <2>8 DEF plan
    <2> QED BY <2>1, <2>3, <2>4, <2>9 DEF OnItsOwn
  <1>8. CASE Acts(d)
    BY <1>3, <1>4, <1>5, <1>6, <1>7, <1>8, OwnStep
  <1>9. CASE StopContainer
    <2>1. /\ UNCHANGED file
          /\ calls'[d] = IF calls[d].step = "filling" THEN Done("threw") ELSE calls[d]
      BY <1>9 DEF StopContainer
    <2>2. Open(d) /\ calls'[d] = calls[d]
      BY <2>1 DEF Open, Done
    <2> QED BY <1>1, <2>1, <2>2
  <1>10. CASE StartContainer \/ UNCHANGED vars
    <2>1. UNCHANGED <<file, calls>>
      BY <1>10 DEF StartContainer, vars
    <2> QED BY <1>1, <2>1 DEF Open
  <1> QED BY <1>2, <1>8, <1>9, <1>10, NextActs

-----------------------------------------------------------------------------
(* The theorems *)

(* The invariant that the properties below rest on. *)
THEOREM Invariance == Spec => []IInv
  <1>1. IInv /\ [Next]_vars => IInv'
    BY TypeHolds, ShellsHold, LastHolds, UndisturbedHold DEF IInv
  <1> QED BY InitHolds, <1>1, PTL DEF Spec

(* Every call, however many overlap and whenever commands fail or the container
   stops, works on texts over the tokens; whatever edits it makes are defined on
   every text. *)
THEOREM TypeCorrectness == Spec => []TypeOK
  <1>1. IInv => TypeOK
    BY DEF IInv
  <1> QED BY <1>1, Invariance, PTL

(* The last call to empty the file, once it has written its text, shares the file
   only with calls that were writing when it emptied it: for any number of calls, in
   any pieces, through removals, failures and stops of the container. *)
THEOREM LastWriterWins == Spec => []LastWriterIsWhole
  <1>1. IInv => LastWriterIsWhole
    BY DEF IInv, LastIsInFile, LastWriterIsWhole
  <1> QED BY <1>1, Invariance, PTL

(* A call under which nobody changes the file does as it says, for every list of
   edits and every text. *)
THEOREM Atomicity == Spec => UndisturbedDoesAsSaid
  <1> DEFINE AsSaid(c) ==
        LET call   == calls[c]
            result == calls'[c].result
        IN  Open(c) /\ ~Open(c)' /\ call.undisturbed /\ call.op.kind # "bash"
            => \/ /\ file' = call.before
                  /\ result = "success" => call.op.kind \in {"look", "search"}
               \/ /\ result # "refused" /\ call.op.kind \notin {"look", "search"}
                  /\ file'.there /\ IsPrefix(file'.text, call.plan)
                  /\ result = "success" => file'.text = call.plan
                  /\ Literal(call.op) => Described(call.op, call.before, call.plan)
  <1>1. ASSUME IInv, [Next]_vars, NEW c \in Calls PROVE AsSaid(c)
    <2> SUFFICES ASSUME Open(c), ~Open(c)', calls[c].undisturbed, calls[c].op.kind # "bash"
                 PROVE  AsSaid(c)
      OBVIOUS
    <2>0. /\ TypeOK /\ InPlace(c) /\ OnItsOwn(c) /\ calls[c] \in OpenCalls
          /\ calls[c].op \in Operations /\ calls[c].before \in FileStates
      BY <1>1, CallFacts, ToolsAssumption
         DEF IInv, ShellsAreInPlace, UndisturbedAreOnTheirOwn, OpenCalls
    <2>1. ASSUME NEW r, Ends(c, r) PROVE calls'[c].result = r
      <3>1. calls'[c] = Done(r)
        BY <2>0, <2>1, EndsFacts
      <3> QED BY <3>1 DEF Done
    (* A call that ends before it has touched the file ... *)
    <2>2. ASSUME calls[c].step # "filling", UNCHANGED file, NEW r, Ends(c, r),
                 r = "success" => calls[c].op.kind \in {"look", "search"}
          PROVE  AsSaid(c)
      BY <2>0, <2>1, <2>2 DEF OnItsOwn
    (* ... and one that ends while it fills it. *)
    <2>3. ASSUME calls[c].step = "filling", UNCHANGED file, calls'[c].result # "refused",
                 calls'[c].result = "success" => calls[c].pos = Len(calls[c].plan)
          PROVE  AsSaid(c)
      <3> DEFINE plan == calls[c].plan
                 p    == calls[c].pos
      <3>1. plan \in Texts /\ p \in 0..Len(plan) /\ Len(plan) \in Nat
        BY <2>0, <2>3, LenProperties DEF OpenCalls, InPlace, Texts
      <3>2. /\ calls[c].op.kind \in {"edit", "insert", "write"}
            /\ calls[c].op.kind = "write" \/ calls[c].before.there
            /\ Decision(calls[c].op, calls[c].before).ok
            /\ plan = Decision(calls[c].op, calls[c].before).text
            /\ file = Text(SubSeq(plan, 1, p))
        BY <2>0, <2>3 DEF OnItsOwn
      <3>3. Literal(calls[c].op) => Described(calls[c].op, calls[c].before, plan)
        BY <2>0, <3>2, DecisionFacts
      <3> HIDE DEF plan, p
      <3>4. file'.there /\ file'.text = SubSeq(plan, 1, p)
        BY <2>3, <3>2 DEF Text
      <3>5. IsPrefix(SubSeq(plan, 1, p), plan) /\ (p = Len(plan) => SubSeq(plan, 1, p) = plan)
        <4>1. /\ SubSeq(plan, 1, p) \in Texts /\ Len(SubSeq(plan, 1, p)) = p
              /\ \A j \in 1..p : SubSeq(plan, 1, p)[j] = plan[j]
              /\ IsPrefix(SubSeq(plan, 1, p), plan)
          BY <3>1, Beginnings
        <4> QED BY <3>1, <4>1, SeqEqual DEF Texts
      <3> QED BY <2>3, <3>2, <3>3, <3>4, <3>5 DEF plan, p
    <2>4. ASSUME NEW b \in Calls, Acts(b), b # c PROVE FALSE
      <3>1. ASSUME NEW same \in BOOLEAN, Shaken(c, same) PROVE FALSE
        BY <2>0, <3>1, ShakenFacts
      <3>2. calls'[c] = calls[c]
        BY <2>0, <2>4, <3>1, OthersFacts
      <3> QED BY <3>2 DEF Open
    <2>5. ASSUME NEW op \in Ops, Start(c, op) PROVE FALSE
      BY <2>5 DEF Start
    <2>6. CASE Look(c) \/ Search(c)
      BY <2>2, <2>6 DEF Look, Search
    <2>7. ~RunCommand(c)
      BY DEF RunCommand
    <2>8. CASE Decide(c)
      <3>1. Ends(c, "threw") \/ Ends(c, "refused") \/ \E t, seeing : Plans(c, t, seeing)
        BY <2>0, <2>8, DecideFacts
      <3>2. ASSUME NEW t, NEW seeing, Plans(c, t, seeing) PROVE FALSE
        <4>1. calls'[c] = [calls[c] EXCEPT !.step = "making", !.plan = t, !.undisturbed = @ /\ seeing]
          BY <2>0, <3>2, CallFacts DEF Plans, OpenCalls
        <4>2. calls'[c].step = "making"
          BY <2>0, <4>1 DEF OpenCalls
        <4> QED BY <4>2 DEF Open
      <3>3. calls[c].step # "filling" /\ UNCHANGED file
        BY <2>8 DEF Decide
      <3> QED BY <2>2, <3>1, <3>2, <3>3
    <2>9. CASE MakeDirectory(c)
      BY <2>0, <2>9, MakeDirectoryMoves DEF Open
    <2>10. CASE Truncate(c)
      <3>1. calls[c].step # "filling" /\ UNCHANGED file /\ Ends(c, "threw")
        BY <2>0, <2>10, TruncateFacts DEF Open
      <3> QED BY <2>2, <3>1
    <2>11. CASE Put(c)
      <3>1. calls'[c] \in OpenCalls
        BY <2>0, <2>11, PutFacts
      <3> QED BY <3>1 DEF Open, OpenCalls
    <2>12. CASE Close(c) \/ Breaks(c)
      <3>1. CASE Close(c)
        BY <2>1, <2>3, <3>1 DEF Close
      <3>2. CASE Breaks(c)
        BY <2>1, <2>3, <3>2 DEF Breaks
      <3> QED BY <2>12, <3>1, <3>2
    <2>13. CASE StopContainer
      <3>1. /\ UNCHANGED file
            /\ calls'[c] = IF calls[c].step = "filling" THEN Done("threw") ELSE calls[c]
        BY <2>13 DEF StopContainer
      <3>2. calls[c].step = "filling" /\ calls'[c].result = "threw"
        BY <3>1 DEF Open, Done
      <3> QED BY <2>3, <3>1, <3>2
    <2>14. CASE StartContainer \/ UNCHANGED vars
      BY <2>14 DEF StartContainer, vars, Open
    <2> HIDE DEF AsSaid
    <2> QED BY <1>1, <2>4, <2>5, <2>6, <2>7, <2>8, <2>9, <2>10, <2>11, <2>12, <2>13, <2>14, NextActs
            DEF Acts, Progress
  <1>2. IInv /\ [Next]_vars => [\A c \in Calls : AsSaid(c)]_vars
    <2> HIDE DEF AsSaid
    <2> QED BY <1>1
  <1>3. Spec => [][\A c \in Calls : AsSaid(c)]_vars
    <2> HIDE DEF AsSaid
    <2> QED BY <1>2, Invariance, PTL DEF Spec
  <1> QED BY <1>3 DEF UndisturbedDoesAsSaid

=============================================================================
