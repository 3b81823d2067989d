--------------------------- MODULE SequenceLemmas ----------------------------
(* What the sequence operators used by the modules of this project return. *)
EXTENDS Integers, Sequences, SequencesExt, TLAPS

(* The set of a sequence's elements is the set of its values. *)
LEMMA ToSetElements ==
    ASSUME NEW S, NEW s \in Seq(S)
    PROVE  /\ \A x : x \in ToSet(s) <=> \E i \in 1 .. Len(s) : s[i] = x
           /\ ToSet(s) \subseteq S
           /\ s = <<>> => ToSet(s) = {}
  BY DEF ToSet

(* A sequence is injective when no value is at two places. *)
LEMMA InjectiveElements ==
    ASSUME NEW S, NEW s \in Seq(S)
    PROVE  IsInjective(s) <=>
              \A i, j \in 1 .. Len(s) : s[i] = s[j] => i = j
  BY DEF IsInjective

(* A sequence over a set is a sequence over every larger set. *)
LEMMA SeqWidens ==
    ASSUME NEW S, NEW T, S \subseteq T, NEW s \in Seq(S)
    PROVE  s \in Seq(T)
  OBVIOUS

(* Removing one element of a sequence shifts the elements behind it. *)
LEMMA RemoveAtShifts ==
    ASSUME NEW S, NEW s \in Seq(S), NEW i \in 1 .. Len(s)
    PROVE  /\ RemoveAt(s, i) \in Seq(S)
           /\ Len(RemoveAt(s, i)) = Len(s) - 1
           /\ \A j \in 1 .. Len(s) - 1 :
                 RemoveAt(s, i)[j] = IF j < i THEN s[j] ELSE s[j + 1]
  <1> DEFINE before == SubSeq(s, 1, i - 1)
             after  == SubSeq(s, i + 1, Len(s))
  <1>1. /\ before \in Seq(S) /\ Len(before) = i - 1
        /\ \A j \in 1 .. i - 1 : before[j] = s[j]
    OBVIOUS
  <1>2. /\ after \in Seq(S) /\ Len(after) = Len(s) - i
        /\ \A j \in 1 .. Len(s) - i : after[j] = s[j + i]
    OBVIOUS
  <1> HIDE DEF before, after
  <1>3. /\ before \o after \in Seq(S)
        /\ Len(before \o after) = Len(s) - 1
    BY <1>1, <1>2
  <1>4. ASSUME NEW j \in 1 .. Len(s) - 1
        PROVE  (before \o after)[j] = IF j < i THEN s[j] ELSE s[j + 1]
    <2>1. (before \o after)[j] =
             IF j <= Len(before) THEN before[j] ELSE after[j - Len(before)]
      BY <1>1, <1>2, <1>3
    <2>2. CASE j < i
      BY <2>1, <2>2, <1>1
    <2>3. CASE ~(j < i)
      BY <2>1, <2>3, <1>1, <1>2
    <2> QED BY <2>2, <2>3
  <1>5. RemoveAt(s, i) = before \o after
    BY DEF RemoveAt, before, after
  <1> QED BY <1>3, <1>4, <1>5

(* Removing an element of an injective sequence removes it from its set. *)
LEMMA RemoveAtRemoves ==
    ASSUME NEW S, NEW s \in Seq(S), NEW i \in 1 .. Len(s), IsInjective(s)
    PROVE  /\ IsInjective(RemoveAt(s, i))
           /\ ToSet(RemoveAt(s, i)) = ToSet(s) \ {s[i]}
  <1> DEFINE r == RemoveAt(s, i)
  <1>1. /\ r \in Seq(S) /\ Len(r) = Len(s) - 1
        /\ \A j \in 1 .. Len(s) - 1 : r[j] = IF j < i THEN s[j] ELSE s[j + 1]
    BY RemoveAtShifts
  <1>2. \A j, k \in 1 .. Len(s) : s[j] = s[k] => j = k
    BY InjectiveElements
  <1> HIDE DEF r
  <1>3. \A j, k \in 1 .. Len(r) : r[j] = r[k] => j = k
    BY <1>1, <1>2
  <1>4. IsInjective(r)
    BY <1>1, <1>3, InjectiveElements
  <1>5. ASSUME NEW x \in ToSet(r) PROVE x \in ToSet(s) \ {s[i]}
    <2>1. PICK j \in 1 .. Len(r) : r[j] = x
      BY <1>1, <1>5, ToSetElements
    <2>2. \E k \in 1 .. Len(s) : s[k] = x /\ k # i
      BY <1>1, <2>1
    <2> QED BY <2>2, <1>2, ToSetElements
  <1>6. ASSUME NEW x \in ToSet(s), x # s[i] PROVE x \in ToSet(r)
    <2>1. PICK k \in 1 .. Len(s) : s[k] = x
      BY <1>6, ToSetElements
    <2>2. \E j \in 1 .. Len(r) : r[j] = x
      <3>1. CASE k < i
        BY <1>1, <2>1, <3>1
      <3>2. CASE k > i
        <4>1. k - 1 \in 1 .. Len(r) /\ r[k - 1] = x
          BY <1>1, <2>1, <3>2
        <4> QED BY <4>1
      <3> QED BY <1>6, <2>1, <3>1, <3>2
    <2> QED BY <1>1, <2>2, ToSetElements
  <1> QED BY <1>4, <1>5, <1>6 DEF r

(* Appending adds an element behind the others, which stay where they are. *)
LEMMA AppendAdds ==
    ASSUME NEW S, NEW s \in Seq(S), NEW e \in S
    PROVE  /\ Append(s, e) \in Seq(S) /\ Append(s, e) # <<>>
           /\ Len(Append(s, e)) = Len(s) + 1
           /\ \A i \in 1 .. Len(s) : Append(s, e)[i] = s[i]
           /\ Append(s, e)[Len(s) + 1] = e
           /\ ToSet(Append(s, e)) = ToSet(s) \cup {e}
           /\ Last(Append(s, e)) = e
  <1> DEFINE a == Append(s, e)
  <1>1. /\ a \in Seq(S) /\ a # <<>> /\ Len(a) = Len(s) + 1
        /\ \A i \in 1 .. Len(s) : a[i] = s[i]
        /\ a[Len(s) + 1] = e
    OBVIOUS
  <1> HIDE DEF a
  <1>2. Last(a) = e
    BY <1>1 DEF Last
  <1>3. \A x : x \in ToSet(a) <=> x \in ToSet(s) \/ x = e
    <2>1. \A x : x \in ToSet(a) <=> \E i \in 1 .. Len(a) : a[i] = x
      BY <1>1, ToSetElements
    <2>2. \A x : x \in ToSet(s) <=> \E i \in 1 .. Len(s) : s[i] = x
      BY ToSetElements
    <2> QED BY <1>1, <2>1, <2>2
  <1> QED BY <1>1, <1>2, <1>3 DEF a

(* Appending an element that is not there yet keeps a sequence injective. *)
LEMMA AppendKeepsInjective ==
    ASSUME NEW S, NEW s \in Seq(S), NEW e \in S
    PROVE  IsInjective(s) /\ e \notin ToSet(s) => IsInjective(Append(s, e))
  <1> SUFFICES ASSUME IsInjective(s), e \notin ToSet(s)
               PROVE  IsInjective(Append(s, e))
    OBVIOUS
  <1>1. /\ Append(s, e) \in Seq(S) /\ Len(Append(s, e)) = Len(s) + 1
        /\ \A i \in 1 .. Len(s) : Append(s, e)[i] = s[i]
        /\ Append(s, e)[Len(s) + 1] = e
    BY AppendAdds
  <1>2. /\ \A i, j \in 1 .. Len(s) : s[i] = s[j] => i = j
        /\ \A i \in 1 .. Len(s) : s[i] # e
    BY InjectiveElements, ToSetElements
  <1>3. \A i, j \in 1 .. Len(Append(s, e)) :
           Append(s, e)[i] = Append(s, e)[j] => i = j
    BY <1>1, <1>2
  <1> QED BY <1>1, <1>3, InjectiveElements

(* Taking the head shifts the other elements. *)
LEMMA TailShifts ==
    ASSUME NEW S, NEW s \in Seq(S), s # <<>>
    PROVE  /\ Tail(s) \in Seq(S) /\ Len(s) \in Nat \ {0}
           /\ Len(Tail(s)) = Len(s) - 1
           /\ \A i \in 1 .. Len(s) - 1 : Tail(s)[i] = s[i + 1]
           /\ Head(s) = s[1] /\ Head(s) \in S
  OBVIOUS

(* Taking the head leaves the other elements, without the head if it was there once. *)
LEMMA TailDrops ==
    ASSUME NEW S, NEW s \in Seq(S), s # <<>>
    PROVE  /\ Tail(s) \in Seq(S) /\ Head(s) \in S
           /\ ToSet(s) = ToSet(Tail(s)) \cup {Head(s)}
           /\ IsInjective(s) =>
                 IsInjective(Tail(s)) /\ Head(s) \notin ToSet(Tail(s))
  <1> DEFINE t == Tail(s)
  <1>1. /\ t \in Seq(S) /\ Len(t) = Len(s) - 1 /\ Len(s) \in Nat \ {0}
        /\ \A i \in 1 .. Len(t) : t[i] = s[i + 1]
        /\ Head(s) = s[1] /\ Head(s) \in S
    BY TailShifts
  <1> HIDE DEF t
  <1>2. \A x : x \in ToSet(t) <=> \E i \in 1 .. Len(t) : t[i] = x
    BY <1>1, ToSetElements
  <1>3. \A x : x \in ToSet(s) <=> \E i \in 1 .. Len(s) : s[i] = x
    BY ToSetElements
  <1>4. ASSUME NEW x \in ToSet(s), x # Head(s) PROVE x \in ToSet(t)
    <2>1. PICK k \in 1 .. Len(s) : s[k] = x
      BY <1>3, <1>4
    <2>2. k - 1 \in 1 .. Len(t) /\ t[k - 1] = x
      BY <1>1, <1>4, <2>1
    <2> QED BY <1>2, <2>2
  <1>5. ToSet(s) = ToSet(t) \cup {Head(s)}
    BY <1>1, <1>2, <1>3, <1>4
  <1>6. ASSUME IsInjective(s)
        PROVE  IsInjective(t) /\ Head(s) \notin ToSet(t)
    <2>1. \A i, j \in 1 .. Len(s) : s[i] = s[j] => i = j
      BY <1>6, InjectiveElements
    <2>2. \A i, j \in 1 .. Len(t) : t[i] = t[j] => i = j
      BY <1>1, <2>1
    <2>3. IsInjective(t)
      BY <1>1, <2>2, InjectiveElements
    <2>4. Head(s) \notin ToSet(t)
      BY <1>1, <1>2, <2>1
    <2> QED BY <2>3, <2>4
  <1> QED BY <1>1, <1>5, <1>6 DEF t
=============================================================================
