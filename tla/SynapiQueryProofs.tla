------------------------- MODULE SynapiQueryProofs --------------------------
(***************************************************************************)
(* The text functions of the library: the query builder, for every buffer, *)
(* every number of options and all their lengths, and the key storage, for *)
(* every array and every key.                                              *)
(***************************************************************************)
EXTENDS MCText, SequenceTheorems, FiniteSetTheorems, WellFoundedInduction, TLAPS

(* synapi_add_parameter() leaves its count within the buffer, whatever it was
   given to append and wherever it started. *)
LEMMA AddedBounds ==
    ASSUME NEW n \in Nat, NEW m \in Nat, NEW size \in 0..(BufferMax + 1), NEW at \in Nat
    PROVE  /\ synapi_add_parameter(n, m, size, at).size \in 0..BufferMax
           /\ synapi_add_parameter(n, m, size, at).len \in Nat
  BY LengthsAssumption DEF synapi_add_parameter, Room, strncat

(* Where both strings fit, it appends both. *)
LEMMA AddedWhole ==
    ASSUME NEW n \in Nat, NEW m \in Nat, NEW size \in Nat, NEW at \in Nat,
           size + n + m <= BufferMax
    PROVE  /\ synapi_add_parameter(n, m, size, at).size = size + n + m
           /\ synapi_add_parameter(n, m, size, at).len = at + n + m
  BY LengthsAssumption DEF synapi_add_parameter, Room, strncat

(***************************************************************************)
(* QueryWhole is not inductive: that a separator is not lost depends on    *)
(* how far the count is once an option has been added, and that it is put  *)
(* there at all on the count being 1 before the first one.                 *)
(***************************************************************************)
Separated ==
    /\ count = 0 => buffer_size \in {0, 1} \/ result # -1
    /\ count = 0 /\ result = -1 => whole = 0 /\ len = 0
    /\ count > 0 /\ whole < BufferMax => buffer_size > PointerSize

QueryInv == QueryTypeOK /\ QueryWhole /\ Separated

LEMMA QueryInit == Init => QueryInv
  BY LengthsAssumption DEF Init, QueryInv, QueryTypeOK, QueryWhole, Counted, Separated

LEMMA OptionStep ==
    ASSUME QueryInv, NEW n \in AttrLens, NEW m \in ValueLens, Option(n, m)
    PROVE  QueryInv'
<1> DEFINE sep  == IF buffer_size > 1 THEN 1 ELSE 0
           size == buffer_size + sep
           at   == len + (IF sep = 0 THEN 0 ELSE strncat(1, PointerSize - size))
           added == synapi_add_parameter(n, m, size, at)
<1>1. n \in Nat /\ m \in Nat /\ n >= PointerSize /\ PointerSize \in Nat
      /\ BufferMax \in Nat \ {0}
  BY LengthsAssumption, AttrAssumption
<1>2. QueryTypeOK /\ QueryWhole /\ Separated
  BY DEF QueryInv
<1>3. /\ result = -1 /\ buffer_size > 0
      /\ buffer_size' = added.size /\ len' = added.len
      /\ whole' = whole + sep + n + m
      /\ count' = count + 1 /\ result' = result
  BY DEF Option
<1>4. size \in 0..(BufferMax + 1) /\ at \in Nat /\ sep \in {0, 1}
  BY <1>1, <1>2 DEF QueryTypeOK, strncat
<1>5. added.size \in 0..BufferMax /\ added.len \in Nat
  <2> HIDE DEF size, at
  <2> QED BY <1>1, <1>4, AddedBounds
<1>6. QueryTypeOK'
  <2> HIDE DEF sep, added
  <2> QED BY <1>1, <1>2, <1>3, <1>4, <1>5 DEF QueryTypeOK
<1>7. ASSUME whole' < BufferMax
      PROVE  buffer_size' = size + n + m /\ len' = at + n + m
  <2>1. whole < BufferMax /\ buffer_size = len + 1 /\ len = whole
    BY <1>1, <1>2, <1>3, <1>4, <1>7 DEF QueryTypeOK, QueryWhole, Counted, Separated
  <2>2. size + n + m <= BufferMax
    BY <1>1, <1>2, <1>3, <1>4, <1>7, <2>1 DEF QueryTypeOK
  <2>3. size \in Nat
    BY <1>4
  <2>4. added.size = size + n + m /\ added.len = at + n + m
    <3> HIDE DEF size, at
    <3> QED BY <1>1, <1>4, <2>2, <2>3, AddedWhole
  <2> QED BY <1>3, <2>4
<1>8. ASSUME whole' < BufferMax
      PROVE  whole < BufferMax /\ at = len + sep /\ buffer_size = len + 1 /\ len = whole
  <2>1. whole < BufferMax /\ buffer_size = len + 1 /\ len = whole
    BY <1>1, <1>2, <1>3, <1>4, <1>8 DEF QueryTypeOK, QueryWhole, Counted, Separated
  <2>2. sep = 1 => buffer_size > PointerSize
    BY <1>1, <1>2, <1>3, <2>1 DEF QueryTypeOK, Separated
  <2> QED BY <1>1, <1>2, <2>1, <2>2 DEF QueryTypeOK, strncat
<1>9. QueryWhole' /\ Separated'
  <2> HIDE DEF sep, at, added
  <2> QED BY <1>1, <1>2, <1>3, <1>4, <1>6, <1>7, <1>8
          DEF QueryTypeOK, QueryWhole, Counted, Separated
<1> QED BY <1>6, <1>9 DEF QueryInv

LEMMA FinishStep ==
    ASSUME QueryInv, NEW m \in MethodLens, Finish(m)
    PROVE  QueryInv'
<1> DEFINE sep   == IF buffer_size > 1 THEN 1 ELSE 0
           size  == buffer_size + sep
           at    == len + sep
           added == synapi_add_parameter(MethodAttr, m, size, at)
<1>1. MethodAttr \in Nat /\ m \in Nat /\ PointerSize \in Nat /\ BufferMax \in Nat \ {0}
  BY LengthsAssumption
<1>2. QueryTypeOK /\ QueryWhole /\ Separated
  BY DEF QueryInv
<1>3. /\ result = -1 /\ count' = count
      /\ buffer_size' = added.size /\ len' = added.len
      /\ whole' = whole + sep + MethodAttr + m
      /\ result' = IF added.len > added.size THEN added.size ELSE added.len
  BY DEF Finish
<1>4. size \in 0..(BufferMax + 1) /\ at \in Nat /\ sep \in {0, 1}
  BY <1>1, <1>2 DEF QueryTypeOK
<1>5. added.size \in 0..BufferMax /\ added.len \in Nat
  <2> HIDE DEF size, at
  <2> QED BY <1>1, <1>4, AddedBounds
<1>6. QueryTypeOK'
  <2> HIDE DEF sep, added
  <2> QED BY <1>1, <1>2, <1>3, <1>4, <1>5 DEF QueryTypeOK
<1>7. ASSUME whole' < BufferMax
      PROVE  /\ whole < BufferMax /\ len = whole /\ buffer_size \in {len, len + 1}
             /\ buffer_size' = buffer_size + sep + MethodAttr + m
             /\ len' = len + sep + MethodAttr + m
  <2>1. whole < BufferMax /\ len = whole /\ buffer_size \in {len, len + 1}
    BY <1>1, <1>2, <1>3, <1>4, <1>7 DEF QueryTypeOK, QueryWhole, Counted
  <2>2. size + MethodAttr + m <= BufferMax
    BY <1>1, <1>2, <1>3, <1>4, <1>7, <2>1 DEF QueryTypeOK
  <2>3. size \in Nat
    BY <1>4
  <2>4. added.size = size + MethodAttr + m /\ added.len = at + MethodAttr + m
    <3> HIDE DEF size, at
    <3> QED BY <1>1, <1>4, <2>2, <2>3, AddedWhole
  <2> QED BY <1>3, <2>1, <2>4
<1>8. QueryWhole' /\ Separated'
  <2>1. (count > 0 => buffer_size = len + 1) \/ whole >= BufferMax
    BY <1>1, <1>2 DEF QueryTypeOK, QueryWhole, Counted
  <2> HIDE DEF sep
  <2> QED BY <1>1, <1>2, <1>3, <1>4, <1>6, <1>7, <2>1
          DEF QueryTypeOK, QueryWhole, Counted, Separated
<1> QED BY <1>6, <1>8 DEF QueryInv

LEMMA QueryNext == QueryInv /\ [Next]_vars => QueryInv'
<1> SUFFICES ASSUME QueryInv, [Next]_vars PROVE QueryInv'
  OBVIOUS
<1>1. CASE \E n \in AttrLens, m \in ValueLens : Option(n, m)
  BY <1>1, OptionStep
<1>2. CASE \E m \in MethodLens : Finish(m)
  BY <1>2, FinishStep
<1>3. CASE UNCHANGED vars
  BY <1>3 DEF vars, QueryInv, QueryTypeOK, QueryWhole, Counted, Separated
<1> QED BY <1>1, <1>2, <1>3 DEF Next, Done

(* A query that fits synapi_build_query_string()'s buffer is neither cut nor
   short of a separator, and the size of the result stays within the buffer. *)
THEOREM QueryCorrect == Spec => [](QueryTypeOK /\ QueryWhole)
<1>1. QueryInv => QueryTypeOK /\ QueryWhole
  BY DEF QueryInv
<1> QED BY <1>1, QueryInit, QueryNext, PTL DEF Spec

(* From a string shorter than its count, synapi_add_parameter() makes one. *)
LEMMA AddedBehind ==
    ASSUME NEW n \in Nat, NEW m \in Nat, NEW size \in 1..BufferMax, NEW at \in Nat, at < size
    PROVE  LET added == synapi_add_parameter(n, m, size, at)
           IN  added.len < added.size
  BY LengthsAssumption DEF synapi_add_parameter, Room, strncat

(* A count that is at the end of the buffer, or one past it, is moved there. *)
LEMMA AddedFull ==
    ASSUME NEW n \in Nat, NEW m \in Nat, NEW size \in {BufferMax, BufferMax + 1}, NEW at \in Nat
    PROVE  synapi_add_parameter(n, m, size, at).size = BufferMax
  BY LengthsAssumption DEF synapi_add_parameter, Room, strncat

(***************************************************************************)
(* What CutFits rests on: the string is behind the count until the count   *)
(* says that the buffer is full.  (Once it does, the separator and the     *)
(* attribute of a further option are written past the end.)                *)
(***************************************************************************)
Behind == result = -1 /\ buffer_size \in 1..(BufferMax - 1) => len < buffer_size

CutStep == /\ buffer_size \in 1..(BufferMax - 1) => len' < BufferMax
           /\ buffer_size = BufferMax => buffer_size' = BufferMax

(* One call of synapi_add_parameter() after a separator that adds at most the
   character it was counted for. *)
LEMMA AddedCut ==
    ASSUME QueryTypeOK, Behind, result = -1, buffer_size > 0,
           NEW n \in Nat, NEW m \in Nat, NEW at \in Nat,
           NEW sep, sep = IF buffer_size > 1 THEN 1 ELSE 0,
           at <= len + sep,
           buffer_size' = synapi_add_parameter(n, m, buffer_size + sep, at).size,
           len' = synapi_add_parameter(n, m, buffer_size + sep, at).len
    PROVE  CutStep /\ (buffer_size' \in 1..(BufferMax - 1) => len' < buffer_size')
<1>1. BufferMax \in Nat \ {0} /\ buffer_size \in 1..BufferMax /\ len \in Nat /\ sep \in {0, 1}
  BY LengthsAssumption DEF QueryTypeOK
<1>2. CASE buffer_size = BufferMax
  <2>1. buffer_size + sep \in {BufferMax, BufferMax + 1}
    BY <1>1, <1>2
  <2>2. buffer_size' = BufferMax
    BY <2>1, AddedFull
  <2> QED BY <1>1, <1>2, <2>2 DEF CutStep
<1>3. CASE buffer_size # BufferMax
  <2>1. buffer_size \in 1..(BufferMax - 1)
    BY <1>1, <1>3
  <2>2. buffer_size + sep \in 1..BufferMax /\ at < buffer_size + sep
    BY <1>1, <2>1 DEF Behind
  <2>3. len' < buffer_size'
    BY <2>2, AddedBehind
  <2>4. buffer_size' \in 0..BufferMax /\ len' \in Nat
    <3>1. buffer_size + sep \in 0..(BufferMax + 1)
      BY <1>1, <2>2
    <3> QED BY <3>1, AddedBounds
  <2> QED BY <1>1, <1>3, <2>3, <2>4 DEF CutStep
<1> QED BY <1>2, <1>3

LEMMA OptionCut ==
    ASSUME QueryInv, Behind, NEW n \in AttrLens, NEW m \in ValueLens, Option(n, m)
    PROVE  CutStep /\ Behind'
<1> DEFINE sep  == IF buffer_size > 1 THEN 1 ELSE 0
           at   == len + (IF sep = 0 THEN 0 ELSE strncat(1, PointerSize - (buffer_size + sep)))
<1>1. n \in Nat /\ m \in Nat /\ PointerSize \in Nat
  BY LengthsAssumption
<1>2. QueryTypeOK /\ len \in Nat /\ buffer_size \in Nat
  BY DEF QueryInv, QueryTypeOK
<1>3. at \in Nat /\ at <= len + sep
  BY <1>1, <1>2 DEF strncat
<1>4. /\ result = -1 /\ buffer_size > 0
      /\ buffer_size' = synapi_add_parameter(n, m, buffer_size + sep, at).size
      /\ len' = synapi_add_parameter(n, m, buffer_size + sep, at).len
  BY DEF Option
<1>5. sep = IF buffer_size > 1 THEN 1 ELSE 0
  OBVIOUS
<1> HIDE DEF sep, at
<1> QED BY <1>1, <1>2, <1>3, <1>4, <1>5, AddedCut DEF Behind

LEMMA FinishCut ==
    ASSUME QueryInv, Behind, NEW m \in MethodLens, Finish(m)
    PROVE  CutStep /\ Behind'
<1> DEFINE sep  == IF buffer_size > 1 THEN 1 ELSE 0
           at   == len + sep
           added == synapi_add_parameter(MethodAttr, m, buffer_size + sep, at)
<1>1. MethodAttr \in Nat /\ m \in Nat /\ BufferMax \in Nat \ {0}
  BY LengthsAssumption
<1>2. QueryTypeOK /\ len \in Nat /\ buffer_size \in 0..BufferMax
  BY DEF QueryInv, QueryTypeOK
<1>3. at \in Nat /\ at <= len + sep /\ buffer_size + sep \in 0..(BufferMax + 1)
  BY <1>1, <1>2
<1>4. /\ result = -1
      /\ buffer_size' = added.size /\ len' = added.len
      /\ result' = IF added.len > added.size THEN added.size ELSE added.len
  BY DEF Finish
<1>5. sep = IF buffer_size > 1 THEN 1 ELSE 0
  OBVIOUS
<1> HIDE DEF sep, at
<1>6. result' # -1
  <2>1. added.size \in 0..BufferMax /\ added.len \in Nat
    BY <1>1, <1>3, AddedBounds
  <2> HIDE DEF added
  <2> QED BY <1>1, <1>4, <2>1
<1>7. CASE buffer_size = 0
  BY <1>1, <1>6, <1>7 DEF CutStep, Behind
<1>8. CASE buffer_size # 0
  <2>1. buffer_size > 0
    BY <1>2, <1>8
  <2>2. CutStep
    BY <1>1, <1>2, <1>3, <1>4, <1>5, <2>1, AddedCut
  <2> QED BY <1>6, <2>2 DEF Behind
<1> QED BY <1>7, <1>8

(* No append starts inside the query buffer and ends past it, whatever the
   number of options, their lengths and the size of the buffer. *)
THEOREM AppendsCutAtEnd == Spec => CutFits
<1>1. Init => Behind
  BY LengthsAssumption DEF Init, Behind
<1>2. QueryInv /\ Behind /\ Next => (CutStep \/ UNCHANGED vars) /\ Behind'
  <2> SUFFICES ASSUME QueryInv, Behind, Next
               PROVE  (CutStep \/ UNCHANGED vars) /\ Behind'
    OBVIOUS
  <2>1. CASE \E n \in AttrLens, m \in ValueLens : Option(n, m)
    BY <2>1, OptionCut
  <2>2. CASE \E m \in MethodLens : Finish(m)
    BY <2>2, FinishCut
  <2>3. CASE Done
    BY <2>3 DEF Done, vars, Behind
  <2> QED BY <2>1, <2>2, <2>3 DEF Next
<1>3. Behind /\ UNCHANGED vars => Behind'
  BY DEF vars, Behind
<1>4. QueryInv /\ Behind /\ [Next]_vars => [CutStep]_vars
  BY <1>2
<1>5. QueryInv /\ Behind /\ [Next]_vars => Behind'
  BY <1>2, <1>3
<1> QED BY <1>1, <1>4, <1>5, QueryInit, QueryNext, PTL DEF Spec, CutFits, CutStep

-----------------------------------------------------------------------------
(***************************************************************************)
(* The key storage.  Where the two searches of synapi_api_key() cut is     *)
(* defined by a number of places; these are the first ones.                *)
(***************************************************************************)
LEMMA LowestOf ==
    ASSUME NEW T, T \subseteq Nat, T # {}
    PROVE  \E x \in T : \A y \in T : x <= y
<1>1. PICK x \in T : \A y \in T : <<y, x>> \notin OpToRel(<, Nat)
  BY NatLessThanWellFounded, WFMin
<1>2. \A y \in T : ~(y < x)
  BY <1>1 DEF OpToRel
<1> QED BY <1>2

LEMMA FirstPlaces ==
    ASSUME NEW n \in Nat, NEW P, P \subseteq 1..n, \A k \in P : \A j \in 1..k : j \in P
    PROVE  Cardinality(P) \in 0..n /\ P = 1..Cardinality(P)
<1> DEFINE T == {k \in Nat : k >= 1 /\ k \notin P}
<1>1. T \subseteq Nat /\ n + 1 \in T
  OBVIOUS
<1>2. PICK t \in T : \A y \in T : t <= y
  BY <1>1, LowestOf
<1>3. t \in Nat /\ t >= 1 /\ t <= n + 1 /\ t \notin P
  BY <1>1, <1>2
<1>4. P = 1..(t - 1)
  <2>1. ASSUME NEW x \in P PROVE x \in 1..(t - 1)
    <3>1. x \in Nat /\ x >= 1
      BY <2>1
    <3>2. ~(t <= x)
      BY <1>3, <2>1, <3>1
    <3> QED BY <1>3, <3>1, <3>2
  <2>2. ASSUME NEW x \in 1..(t - 1) PROVE x \in P
    BY <1>2, <1>3, <2>2
  <2> QED BY <2>1, <2>2
<1>5. Cardinality(1..(t - 1)) = t - 1
  BY <1>3, FS_Interval
<1> QED BY <1>3, <1>4, <1>5

(* A prefix of a string. *)
LEMMA PrefixIs ==
    ASSUME NEW S, NEW s \in Seq(S), NEW n \in 0..Len(s)
    PROVE  /\ SubSeq(s, 1, n) \in Seq(S) /\ Len(SubSeq(s, 1, n)) = n
           /\ \A i \in 1..n : SubSeq(s, 1, n)[i] = s[i]
           /\ n = Len(s) => SubSeq(s, 1, n) = s
<1>1. Len(s) \in Nat /\ n \in Nat
  BY LenProperties
<1>2. \A i \in 1..n : s[i] \in S
  BY <1>1, ElementOfSeq
<1>3. /\ SubSeq(s, 1, n) \in Seq(S) /\ Len(SubSeq(s, 1, n)) = n
      /\ \A i \in 1..n : SubSeq(s, 1, n)[i] = s[i]
  BY <1>1, <1>2, SubSeqProperties
<1>4. ASSUME n = Len(s) PROVE SubSeq(s, 1, n) = s
  BY <1>3, <1>4, SeqEqual
<1> QED BY <1>3, <1>4

(* What the search for CR, or LF, leaves: the first such byte is the last of
   the result; and nothing is cut of a string that has it only there. *)
LEMMA CutAfterIs ==
    ASSUME NEW S, NEW s \in Seq(S), NEW b
    PROVE  /\ \E n \in 0..Len(s) : /\ CutAfter(s, b) = SubSeq(s, 1, n)
                                   /\ \A i \in 1..(n - 1) : s[i] # b
           /\ (\A i \in 1..(Len(s) - 1) : s[i] # b) => CutAfter(s, b) = s
<1> DEFINE P == {k \in DOMAIN s : \A j \in 1..(k - 1) : s[j] # b}
<1>1. Len(s) \in Nat /\ DOMAIN s = 1..Len(s)
  BY LenProperties
<1>2. P \subseteq 1..Len(s) /\ \A k \in P : \A j \in 1..k : j \in P
  BY <1>1
<1>3. CutAfter(s, b) = SubSeq(s, 1, Cardinality(P))
  BY DEF CutAfter
<1>4. \A k \in P : \A j \in 1..(k - 1) : s[j] # b
  OBVIOUS
<1>5. (\A i \in 1..(Len(s) - 1) : s[i] # b) => P = 1..Len(s)
  BY <1>1
<1> HIDE DEF P
<1>6. Cardinality(P) \in 0..Len(s) /\ P = 1..Cardinality(P)
  BY <1>1, <1>2, FirstPlaces
<1>7. \A i \in 1..(Cardinality(P) - 1) : s[i] # b
  <2>1. CASE Cardinality(P) = 0
    BY <2>1
  <2>2. CASE Cardinality(P) # 0
    <3>1. Cardinality(P) \in P
      BY <1>1, <1>6, <2>2
    <3> QED BY <1>4, <3>1
  <2> QED BY <2>1, <2>2
<1>8. ASSUME \A i \in 1..(Len(s) - 1) : s[i] # b PROVE CutAfter(s, b) = s
  <2>1. Cardinality(P) = Len(s)
    <3>1. Cardinality(1..Len(s)) = Len(s)
      BY <1>1, FS_Interval
    <3> QED BY <1>5, <1>8, <3>1
  <2> QED BY <1>1, <1>3, <2>1, PrefixIs
<1> QED BY <1>3, <1>6, <1>7, <1>8

(* What strncpy() leaves: nothing from the first NUL on. *)
LEMMA CutBeforeIs ==
    ASSUME NEW S, NEW s \in Seq(S), NEW b
    PROVE  /\ \E n \in 0..Len(s) : /\ CutBefore(s, b) = SubSeq(s, 1, n)
                                   /\ \A i \in 1..n : s[i] # b
           /\ (\A i \in 1..Len(s) : s[i] # b) => CutBefore(s, b) = s
<1> DEFINE P == {k \in DOMAIN s : \A j \in 1..k : s[j] # b}
<1>1. Len(s) \in Nat /\ DOMAIN s = 1..Len(s)
  BY LenProperties
<1>2. P \subseteq 1..Len(s) /\ \A k \in P : \A j \in 1..k : j \in P
  BY <1>1
<1>3. CutBefore(s, b) = SubSeq(s, 1, Cardinality(P))
  BY DEF CutBefore
<1>4. \A k \in P : s[k] # b
  BY <1>1
<1>5. (\A i \in 1..Len(s) : s[i] # b) => P = 1..Len(s)
  BY <1>1
<1> HIDE DEF P
<1>6. Cardinality(P) \in 0..Len(s) /\ P = 1..Cardinality(P)
  BY <1>1, <1>2, FirstPlaces
<1>7. \A i \in 1..Cardinality(P) : s[i] # b
  BY <1>4, <1>6
<1>8. ASSUME \A i \in 1..Len(s) : s[i] # b PROVE CutBefore(s, b) = s
  <2>1. Cardinality(P) = Len(s)
    <3>1. Cardinality(1..Len(s)) = Len(s)
      BY <1>1, FS_Interval
    <3> QED BY <1>5, <1>8, <3>1
  <2> QED BY <1>1, <1>3, <2>1, PrefixIs
<1> QED BY <1>3, <1>6, <1>7, <1>8

(* A key that synapi_api_key() leaves as it is. *)
Settled(t) == /\ Len(t) <= KeySize
              /\ \A i \in 1..Len(t) : t[i] # NUL
              /\ \A i \in 1..(Len(t) - 1) : t[i] # CR /\ t[i] # LF

(* It does leave such a key as it is. *)
LEMMA SettledStays ==
    ASSUME NEW S, NEW t \in Seq(S), Settled(t)
    PROVE  StoredKey(t) = t
<1>1. Len(t) \in Nat /\ UsableSize(Len(t)) = Len(t)
  BY LenProperties, KeySizeAssumption DEF UsableSize, Settled
<1>2. SubSeq(t, 1, UsableSize(Len(t))) = t
  BY <1>1, SubSeqFull
<1>3. CutBefore(t, NUL) = t /\ CutAfter(t, CR) = t /\ CutAfter(t, LF) = t
  BY CutBeforeIs, CutAfterIs DEF Settled
<1> QED BY <1>2, <1>3 DEF StoredKey

(* Whatever it is given, it leaves such a key. *)
LEMMA StoredIsSettled ==
    ASSUME NEW S, NEW s \in Seq(S)
    PROVE  StoredKey(s) \in Seq(S) /\ Settled(StoredKey(s))
<1> DEFINE u == UsableSize(Len(s))
           a == SubSeq(s, 1, u)
           b == CutBefore(a, NUL)
           c == CutAfter(b, CR)
           d == CutAfter(c, LF)
<1>1. Len(s) \in Nat /\ u \in 0..Len(s) /\ u <= KeySize
  BY LenProperties, KeySizeAssumption DEF UsableSize
<1>2. StoredKey(s) = d
  BY DEF StoredKey
<1> HIDE DEF u
<1>3. a \in Seq(S) /\ Len(a) = u
  BY <1>1, PrefixIs
<1> HIDE DEF a
<1>4. b \in Seq(S) /\ Len(b) <= u /\ Len(b) \in Nat /\ \A i \in 1..Len(b) : b[i] # NUL
  <2>1. PICK n \in 0..Len(a) : b = SubSeq(a, 1, n) /\ \A i \in 1..n : a[i] # NUL
    BY <1>3, CutBeforeIs
  <2> HIDE DEF b
  <2>2. b \in Seq(S) /\ Len(b) = n /\ \A i \in 1..n : b[i] = a[i]
    BY <1>3, <2>1, PrefixIs
  <2> QED BY <1>1, <1>3, <2>1, <2>2
<1> HIDE DEF b
<1>5. /\ c \in Seq(S) /\ Len(c) <= u /\ Len(c) \in Nat
      /\ \A i \in 1..Len(c) : c[i] # NUL
      /\ \A i \in 1..(Len(c) - 1) : c[i] # CR
  <2>1. PICK n \in 0..Len(b) : c = SubSeq(b, 1, n) /\ \A i \in 1..(n - 1) : b[i] # CR
    BY <1>4, CutAfterIs
  <2> HIDE DEF c
  <2>2. c \in Seq(S) /\ Len(c) = n /\ \A i \in 1..n : c[i] = b[i]
    BY <1>4, <2>1, PrefixIs
  <2> QED BY <1>1, <1>4, <2>1, <2>2
<1> HIDE DEF c
<1>6. /\ d \in Seq(S) /\ Len(d) <= u
      /\ \A i \in 1..Len(d) : d[i] # NUL
      /\ \A i \in 1..(Len(d) - 1) : d[i] # CR /\ d[i] # LF
  <2>1. PICK n \in 0..Len(c) : d = SubSeq(c, 1, n) /\ \A i \in 1..(n - 1) : c[i] # LF
    BY <1>5, CutAfterIs
  <2> HIDE DEF d
  <2>2. d \in Seq(S) /\ Len(d) = n /\ \A i \in 1..n : d[i] = c[i]
    BY <1>5, <2>1, PrefixIs
  <2> QED BY <1>1, <1>5, <2>1, <2>2
<1>7. Len(d) \in Nat /\ Len(d) <= KeySize
  BY <1>1, <1>6, LenProperties, KeySizeAssumption
<1> HIDE DEF d
<1> QED BY <1>2, <1>6, <1>7 DEF Settled

(* The handle always holds what synapi_api_key() made of its last input. *)
KeyInv == bytes \in Seq(Bytes) /\ api_key = StoredKey(bytes)

LEMMA KeyInvariant == TextSpec => []KeyInv
<1>0. <<>> \in Seq(Bytes) /\ StoredKey(<<>>) = <<>>
  <2>1. <<>> \in Seq(Bytes) /\ Len(<<>>) = 0
    OBVIOUS
  <2>2. Settled(<<>>)
    BY <2>1, KeySizeAssumption DEF Settled
  <2> QED BY <2>1, <2>2, SettledStays
<1>1. TextInit => KeyInv
  BY <1>0 DEF TextInit, KeyInv
<1>2. KeyInv /\ [TextNext]_textVars => KeyInv'
  <2> SUFFICES ASSUME KeyInv, [TextNext]_textVars PROVE KeyInv'
    OBVIOUS
  <2>1. ASSUME NEW b \in Bytes, Extend(b) PROVE KeyInv'
    <3>1. bytes' \in Seq(Bytes)
      BY <2>1, AppendProperties DEF Extend, KeyInv
    <3> QED BY <2>1, <3>1 DEF Extend, KeyInv
  <2>2. CASE Restart
    BY <1>0, <2>2 DEF Restart, KeyInv
  <2>3. CASE UNCHANGED <<bytes, api_key>>
    BY <2>3 DEF KeyInv
  <2> QED BY <2>1, <2>2, <2>3 DEF TextNext, BuildQuery, StoreKey, textVars
<1> QED BY <1>1, <1>2, PTL DEF TextSpec

(* A key that was saved and is passed to synapi_init_with_api_key() is stored
   as the same key: synapi_api_key() never cuts its own result. *)
THEOREM RestartStoresSameKey == TextSpec => []RestartKeepsKey
<1>1. KeyInv => RestartKeepsKey
  <2> SUFFICES ASSUME KeyInv PROVE RestartKeepsKey
    OBVIOUS
  <2>1. api_key \in Seq(Bytes) /\ Settled(api_key)
    BY StoredIsSettled DEF KeyInv
  <2> QED BY <2>1, SettledStays DEF RestartKeepsKey
<1> QED BY <1>1, KeyInvariant, PTL
=============================================================================
