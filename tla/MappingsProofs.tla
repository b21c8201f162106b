--------------------------- MODULE MappingsProofs ---------------------------
(***************************************************************************)
(* The mapping table stays a table of mappings.                            *)
(***************************************************************************)
EXTENDS Mappings, WellFoundedInduction, SequenceTheorems, TLAPS

\* A non-empty set of naturals has a least element: what Min stands for.
LEMMA LeastElement ==
    ASSUME NEW I \in SUBSET Nat, I # {}
    PROVE  Min(I) \in I
<1> DEFINE R == {ss \in Nat \X Nat : ss[1] < ss[2]}
<1>1. R = OpToRel(<, Nat)
  BY DEF OpToRel
<1> HIDE DEF R
<1>2. IsWellFoundedOn(R, Nat)
  BY <1>1, NatLessThanWellFounded
<1>3. PICK x \in I : \A y \in I : ~(<<y, x>> \in R)
  BY <1>2, WFMin
<1>4. \A y \in I : x <= y
  <2>1. SUFFICES ASSUME NEW y \in I, y < x PROVE FALSE
    OBVIOUS
  <2>2. <<y, x>> \in Nat \X Nat /\ <<y, x>>[1] < <<y, x>>[2]
    BY <2>1
  <2>3. <<y, x>> \in R
    BY <2>2 DEF R
  <2> QED
    BY <2>3, <1>3
<1> QED
  BY <1>4 DEF Min

\* The tail walk of addMapping keeps a table a table.
LEMMA AddMappingType ==
    ASSUME NEW s \in Seq(variantMMap), NEW a \in Int, NEW l \in Int,
           NEW p \in Int, NEW f \in Int
    PROVE  addMapping(s, a, l, p, f) \in Seq(variantMMap)
BY DEF addMapping, variantMMap

\* The walk from the head finds an entry that holds the address, if one does.
LEMMA FindMapping ==
    ASSUME NEW s \in Seq(variantMMap), NEW target
    PROVE  \/ /\ findMapping(s, target) \in DOMAIN s
              /\ findMapping(s, target) # 0
              /\ Holds(s[findMapping(s, target)], target)
           \/ /\ findMapping(s, target) = 0
              /\ \A i \in DOMAIN s : ~Holds(s[i], target)
<1> DEFINE I == {i \in 1 .. Len(s) : Holds(s[i], target)}
<1>1. findMapping(s, target) = IF I # {} THEN Min(I) ELSE 0
  BY DEF findMapping, SelectInSeq
<1>2. I # {} => Min(I) \in I
  <2>1. I \in SUBSET Nat
    OBVIOUS
  <2> HIDE DEF I
  <2> QED
    BY <2>1, LeastElement
<1>3. DOMAIN s = 1 .. Len(s)
  OBVIOUS
<1> QED
  BY <1>1, <1>2, <1>3

\* Unlinking the first entry of an address leaves the other entries, in their
\* order.
LEMMA RemoveMappingEntries ==
    ASSUME NEW s \in Seq(variantMMap), NEW a,
           NEW e \in DOMAIN s, s[e].addr = a
    PROVE  \E k \in DOMAIN s :
              /\ s[k].addr = a
              /\ DOMAIN removeMapping(s, a) = 1 .. Len(s) - 1
              /\ \A i \in 1 .. Len(s) - 1 :
                    removeMapping(s, a)[i] = IF i < k THEN s[i] ELSE s[i + 1]
<1> DEFINE I == {i \in 1 .. Len(s) : s[i].addr = a}
           k == Min(I)
           r == RemoveAt(s, k)
<1>1. k \in I
  <2>1. I \in SUBSET Nat /\ I # {}
    OBVIOUS
  <2> HIDE DEF I
  <2> QED
    BY <2>1, LeastElement
<1>2. removeMapping(s, a) = r
  BY DEF removeMapping, RemoveFirstMatch, SelectInSeq
<1>3. k \in 1 .. Len(s) /\ s[k].addr = a
  BY <1>1
<1> HIDE DEF k
<1>4. r = SubSeq(s, 1, k - 1) \o SubSeq(s, k + 1, Len(s))
  BY DEF RemoveAt
<1>5. /\ SubSeq(s, 1, k - 1) \in Seq(variantMMap)
      /\ SubSeq(s, k + 1, Len(s)) \in Seq(variantMMap)
      /\ Len(SubSeq(s, 1, k - 1)) = k - 1
      /\ Len(SubSeq(s, k + 1, Len(s))) = Len(s) - k
      /\ \A i \in 1 .. k - 1 : SubSeq(s, 1, k - 1)[i] = s[i]
      /\ \A i \in 1 .. Len(s) - k : SubSeq(s, k + 1, Len(s))[i] = s[k + i]
  BY <1>3, SubSeqProperties
<1> DEFINE before == SubSeq(s, 1, k - 1)
           after  == SubSeq(s, k + 1, Len(s))
<1>6. /\ Len(before) + Len(after) = Len(s) - 1
      /\ r = before \o after
      /\ before \in Seq(variantMMap) /\ after \in Seq(variantMMap)
      /\ \A i \in 1 .. Len(before) : before[i] = s[i]
      /\ \A i \in 1 .. Len(after) : after[i] = s[k + i]
      /\ Len(before) = k - 1 /\ Len(after) = Len(s) - k
  <2>1. k \in Int /\ Len(s) \in Nat
    BY <1>3
  <2> HIDE DEF r
  <2>2. (k - 1) + (Len(s) - k) = Len(s) - 1
    BY <2>1
  <2>3. /\ Len(before) = k - 1 /\ Len(after) = Len(s) - k
        /\ r = before \o after
    BY <1>4, <1>5
  <2> QED
    BY <1>5, <2>2, <2>3
<1> HIDE DEF before, after, r
<1>7. /\ DOMAIN r = 1 .. Len(s) - 1
      /\ \A i \in 1 .. Len(s) - 1 : r[i] = IF i < k THEN s[i] ELSE s[i + 1]
  <2>1. /\ Len(r) = Len(before) + Len(after)
        /\ r \in Seq(variantMMap)
        /\ \A i \in 1 .. Len(r) :
              r[i] = IF i <= Len(before) THEN before[i]
                                         ELSE after[i - Len(before)]
    <3>1. /\ before \o after \in Seq(variantMMap)
          /\ Len(before \o after) = Len(before) + Len(after)
          /\ \A i \in 1 .. Len(before) + Len(after) :
                (before \o after)[i] = IF i <= Len(before)
                                       THEN before[i]
                                       ELSE after[i - Len(before)]
      BY <1>6, ConcatProperties, Zenon
    <3> QED
      BY <1>6, <3>1, Zenon
  <2>2. DOMAIN r = 1 .. Len(s) - 1
    BY <1>6, <2>1
  <2>3. ASSUME NEW i \in 1 .. Len(s) - 1
        PROVE  r[i] = IF i < k THEN s[i] ELSE s[i + 1]
    <3>1. k \in Int /\ Len(s) \in Nat /\ Len(r) = Len(s) - 1
      BY <1>3, <1>6, <2>1
    <3>2. CASE i < k
      BY <1>6, <2>1, <3>1, <3>2
    <3>3. CASE ~(i < k)
      <4>1. /\ i - (k - 1) \in 1 .. Len(s) - k
            /\ k + (i - (k - 1)) = i + 1
        BY <3>1, <3>3
      <4>2. r[i] = after[i - (k - 1)]
        BY <1>6, <2>1, <3>1, <3>3
      <4> QED
        BY <1>6, <3>3, <4>1, <4>2
    <3> QED
      BY <3>2, <3>3
  <2> QED
    BY <2>2, <2>3
<1> QED
  BY <1>2, <1>3, <1>7

\* So does unlinking the first entry of an address.
LEMMA RemoveMappingType ==
    ASSUME NEW s \in Seq(variantMMap), NEW a
    PROVE  removeMapping(s, a) \in Seq(variantMMap)
<1>1. CASE \E i \in 1 .. Len(s) : s[i].addr = a
  <2> DEFINE I == {i \in 1 .. Len(s) : s[i].addr = a}
  <2>1. Min(I) \in 1 .. Len(s)
    <3>1. I \in SUBSET Nat /\ I # {}
      BY <1>1
    <3> QED
      BY <3>1, LeastElement
  <2>2. removeMapping(s, a) = RemoveAt(s, Min(I))
    BY <1>1 DEF removeMapping, RemoveFirstMatch, SelectInSeq
  <2> HIDE DEF I
  <2>3. RemoveAt(s, Min(I)) \in Seq(variantMMap)
    BY <2>1 DEF RemoveAt
  <2> QED
    BY <2>2, <2>3
<1>2. CASE ~\E i \in 1 .. Len(s) : s[i].addr = a
  BY <1>2 DEF removeMapping, RemoveFirstMatch
<1> QED
  BY <1>1, <1>2
=============================================================================
