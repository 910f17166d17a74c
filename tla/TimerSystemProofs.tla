------------------------- MODULE TimerSystemProofs -------------------------
(***************************************************************************)
(* Theorems about the timers: lists, structs and open calls stay in step   *)
(* whatever a timer's functions do, for any number of structs, any depth   *)
(* of calls and any intervals.                                             *)
(***************************************************************************)
EXTENDS TimerSystem, SublistProofs

Frames == [op : {"single", "loop", "fire", "kill", "sweep"}, t : Structs \cup {NULL},
           at : {"timer", "end", "look"}, delay : BOOLEAN]

(* What a frame can look like: RunFrame() and RemoveMapChangeTimers() are the
   outermost call, a call inside another is KillTimer() or FireTimerOnce(), and
   RunFrame() looks for its next timer only when every call inside it is over. *)
FrameShape ==
    \A k \in DOMAIN stack :
        /\ k # 1 => stack[k].op \in {"fire", "kill"}
        /\ stack[k].op = "fire" => stack[k].at \in {"timer", "end"}
        /\ stack[k].op = "kill" => stack[k].at = "end"
        /\ stack[k].op = "sweep" => stack[k].at = "look" /\ stack[k].t = NULL
        /\ stack[k].at # "look" => stack[k].t # NULL
        /\ stack[k].op \in {"single", "loop"} /\ stack[k].at = "look" => k = Len(stack)

(* A timer has a callback open. *)
Called(t) == \E k \in Calling : stack[k].t = t

(* A live timer is marked as running exactly while one of its callbacks is
   open; a free struct stays marked, and so cannot be killed again; only a
   marked timer is marked for the kill. *)
Marks ==
    /\ \A t \in Live : timer[t].inExec <=> Called(t)
    /\ \A t \in ToSet(m_FreeTimers) : timer[t].inExec
    /\ \A t \in Used : timer[t].killMe => timer[t].inExec

(* A struct on the list of timers to kill has the timer that was put there, or
   one that was created with it in the map change itself; every timer that has
   to go is on that list, is being ended, or was created meanwhile. *)
SweepState ==
    /\ ~Sweeping => s_tokill = <<>>
    /\ \A t \in ToSet(s_tokill) : t \in Used /\ (timer[t].nomap \/ t \in born)
    /\ Sweeping => \A t \in Live : timer[t].nomap =>
          t \in ToSet(s_tokill) \cup born \/ timer[t].ended = 1

(* While a map has ticked its clock has not gone back. *)
ClockAhead == ticked => curtime >= last

(* The inductive invariant of lists and calls. *)
CallInv == TimerInv /\ FrameShape /\ Marks /\ SweepState /\ ClockAhead

(* The single timers are sorted by due time. *)
Sorted == \A u, v \in ToSet(m_SingleTimers) :
             Precedes(m_SingleTimers, u, v) => timer[u].exec <= timer[v].exec

(* Where RunFrame() is in the list of single timers, and whether it runs. *)
Place   == IF stack # <<>> /\ stack[1].op = "single" THEN stack[1].t ELSE NULL
Running == stack # <<>> /\ stack[1].op \in {"single", "loop"}

(* A single timer that is due and was not created meanwhile is still ahead of
   RunFrame(), or there is none. *)
Ahead(u) == Place # NULL /\ (u = Place \/ Precedes(m_SingleTimers, Place, u))

LateOnlyAhead ==
    /\ Sorted
    /\ Running => thought = time
    /\ \A u \in ToSet(m_SingleTimers) : timer[u].exec <= thought => u \in fresh \/ Ahead(u)

-----------------------------------------------------------------------------
(* The stack as a function of its depth. *)
LEMMA StackIs ==
    ASSUME TimerTypeOK
    PROVE  /\ stack \in Seq(Frames) /\ Len(stack) \in Nat /\ DOMAIN stack = 1..Len(stack)
           /\ \A k \in 1..Len(stack) : stack[k] \in Frames
           /\ stack = <<>> <=> Len(stack) = 0
<1>1. stack \in Seq(Frames)
  BY DEF TimerTypeOK, Frames
<1> QED BY <1>1, LenProperties, ElementOfSeq, EmptySeq

(* A call inside the innermost one. *)
LEMMA PushIs ==
    ASSUME TimerTypeOK, NEW f \in Frames, Push(f)
    PROVE  /\ stack' \in Seq(Frames) /\ Len(stack') = Len(stack) + 1
           /\ DOMAIN stack' = 1..(Len(stack) + 1) /\ stack'[Len(stack) + 1] = f
           /\ \A k \in 1..Len(stack) : stack'[k] = stack[k]
<1>1. stack \in Seq(Frames) /\ stack' = Append(stack, f)
  BY StackIs DEF Push
<1> QED BY <1>1, AppendProperties, LenProperties

(* The innermost call returns. *)
LEMMA PopIs ==
    ASSUME TimerTypeOK, stack # <<>>, Pop
    PROVE  /\ stack' \in Seq(Frames) /\ Len(stack') = Len(stack) - 1
           /\ DOMAIN stack' = 1..(Len(stack) - 1)
           /\ \A k \in 1..(Len(stack) - 1) : stack'[k] = stack[k]
<1>1. /\ stack \in Seq(Frames) /\ stack' = SubSeq(stack, 1, Len(stack) - 1)
      /\ Len(stack) \in Nat /\ Len(stack) >= 1
  BY StackIs DEF Pop
<1>2. \A k \in 1..(Len(stack) - 1) : stack[k] \in Frames
  BY <1>1, StackIs
<1>3. stack' \in Seq(Frames)
  BY <1>1, <1>2, SubSeqProperties
<1>4. \A q : \A n \in Nat : /\ Len(SubSeq(q, 1, n)) = n
                          /\ \A k \in 1..n : SubSeq(q, 1, n)[k] = q[k]
  BY SMT
<1>5. Len(stack') = Len(stack) - 1 /\ \A k \in 1..(Len(stack) - 1) : stack'[k] = stack[k]
  <2>1. PICK n : n = Len(stack)
    OBVIOUS
  <2>2. n \in Nat /\ n >= 1 /\ stack' = SubSeq(stack, 1, n - 1)
    BY <1>1, <2>1
  <2>3. n - 1 \in Nat
    BY <2>2
  <2>4. Len(stack') = n - 1 /\ \A k \in 1..(n - 1) : stack'[k] = stack[k]
    BY <1>4, <2>2, <2>3
  <2> QED BY <2>1, <2>4
<1> QED BY <1>3, <1>5, LenProperties

(* The innermost call goes on. *)
LEMMA GotoIs ==
    ASSUME TimerTypeOK, stack # <<>>, NEW f \in Frames, Goto(f)
    PROVE  /\ stack' \in Seq(Frames) /\ Len(stack') = Len(stack)
           /\ DOMAIN stack' = 1..Len(stack) /\ stack'[Len(stack)] = f
           /\ \A k \in 1..(Len(stack) - 1) : stack'[k] = stack[k]
<1>1. /\ stack \in Seq(Frames) /\ Len(stack) \in Nat /\ Len(stack) >= 1
      /\ DOMAIN stack = 1..Len(stack)
  BY StackIs
<1>2. \A q \in Seq(Frames) : \A n \in 1..Len(q) :
         /\ [q EXCEPT ![n] = f] \in Seq(Frames) /\ Len([q EXCEPT ![n] = f]) = Len(q)
  BY ExceptSeq
<1>3. /\ stack' \in Seq(Frames) /\ Len(stack') = Len(stack)
  BY <1>1, <1>2 DEF Goto
<1>4. /\ stack'[Len(stack)] = f
      /\ \A k \in 1..(Len(stack) - 1) : stack'[k] = stack[k]
  <2>1. \A q \in Seq(Frames) : \A n \in 1..Len(q) :
           /\ [q EXCEPT ![n] = f][n] = f
           /\ \A k \in 1..Len(q) : k # n => [q EXCEPT ![n] = f][k] = q[k]
    BY ExceptSeq
  <2>2. PICK n : n = Len(stack)
    OBVIOUS
  <2>3. stack' = [stack EXCEPT ![n] = f] /\ n \in Nat /\ n >= 1
    BY <1>1, <2>2 DEF Goto
  <2>4. n \in 1..n /\ \A k \in 1..(n - 1) : k \in 1..n /\ k # n
    BY <2>3
  <2> QED BY <1>1, <2>1, <2>2, <2>3, <2>4
<1> QED BY <1>3, <1>4, LenProperties

-----------------------------------------------------------------------------
(* Where the iterator goes: nothing is skipped. *)
LEMMA AfterIs ==
    ASSUME NEW T, NEW list \in Seq(T), IsInjective(list), NEW t \in ToSet(list)
    PROVE  \/ /\ After(list, t) = NULL
              /\ \A w : ~Precedes(list, t, w)
           \/ /\ After(list, t) \in ToSet(list) /\ After(list, t) # t
              /\ \A w : Precedes(list, t, w) => w = After(list, t) \/ Precedes(list, After(list, t), w)
<1>1. Len(list) \in Nat /\ DOMAIN list = 1..Len(list)
  BY LenProperties
<1>2. PICK k \in DOMAIN list : list[k] = t
  BY DEF ToSet
<1>3. \A j \in DOMAIN list : list[j] = t => j = k
  BY <1>2 DEF IsInjective
<1> DEFINE c == CHOOSE j \in DOMAIN list : list[j] = t
<1>4. After(list, t) = IF c = Len(list) THEN NULL ELSE list[c + 1]
  BY DEF After
<1>5. c = k
  BY <1>2, <1>3
<1> HIDE DEF c
<1>6. \A w : Precedes(list, t, w) => \E b \in DOMAIN list : k < b /\ list[b] = w
  BY <1>3 DEF Precedes
<1>7. CASE k = Len(list)
  BY <1>1, <1>4, <1>5, <1>6, <1>7
<1>8. CASE k # Len(list)
  <2>1. k + 1 \in DOMAIN list /\ After(list, t) = list[k + 1]
    BY <1>1, <1>4, <1>5, <1>8
  <2>2. list[k + 1] # t
    BY <1>1, <1>3, <2>1
  <2>3. \A b \in DOMAIN list : k < b => b = k + 1 \/ k + 1 < b
    BY <1>1
  <2>4. ASSUME NEW w, Precedes(list, t, w)
        PROVE  w = list[k + 1] \/ Precedes(list, list[k + 1], w)
    <3>1. PICK b \in DOMAIN list : k < b /\ list[b] = w
      BY <1>6, <2>4
    <3> QED BY <2>1, <2>3, <3>1 DEF Precedes
  <2> QED BY <2>1, <2>2, <2>4 DEF ToSet
<1> QED BY <1>7, <1>8

LEMMA FirstIs ==
    ASSUME NEW T, NEW list \in Seq(T)
    PROVE  \/ FirstOf(list) = NULL /\ ToSet(list) = {}
           \/ /\ FirstOf(list) \in ToSet(list)
              /\ \A w \in ToSet(list) : w = FirstOf(list) \/ Precedes(list, FirstOf(list), w)
<1>1. CASE list = <<>>
  BY <1>1, EmptyIs DEF FirstOf
<1>2. CASE list # <<>>
  BY <1>2, HeadTailIs DEF FirstOf
<1> QED BY <1>1, <1>2

(* A new single timer goes between those that are due earlier and those that
   are due later, if the list is sorted; the others keep their order. *)
LEMMA InsertIs ==
    ASSUME TimerTypeOK, NEW t \in Structs, NEW exec \in Nat, InsertSorted(t, exec)
    PROVE  /\ m_SingleTimers' \in Seq(Structs)
           /\ ToSet(m_SingleTimers)' = ToSet(m_SingleTimers) \cup {t}
           /\ \E A, B : 
                 /\ A \cup B = ToSet(m_SingleTimers)
                 /\ \A u, v : Precedes(m_SingleTimers, u, v)' <=>
                       \/ Precedes(m_SingleTimers, u, v)
                       \/ u \in A /\ v = t
                       \/ u = t /\ v \in B
                 /\ Sorted => /\ \A u \in A : timer[u].exec <= exec
                              /\ \A v \in B : exec <= timer[v].exec
<1>0. PICK s : s = m_SingleTimers
  OBVIOUS
<1>1. /\ s \in Seq(Structs) /\ Len(s) \in Nat /\ DOMAIN s = 1..Len(s)
      /\ \A i \in 1..Len(s) : s[i] \in Structs
      /\ s # <<>> => Len(s) >= 1
  <2>1. s \in Seq(Structs)
    BY <1>0 DEF TimerTypeOK
  <2> QED BY <2>1, LenProperties, ElementOfSeq, EmptySeq
<1>2. \A u \in Structs : timer[u].exec \in Nat
  BY DEF TimerTypeOK
<1>3. \A i, j \in 1..Len(s) : i < j => Precedes(s, s[i], s[j])
  BY <1>1 DEF Precedes
<1>4. \A i, j \in 1..Len(s) : Sorted /\ i < j => timer[s[i]].exec <= timer[s[j]].exec
  <2>1. \A i \in 1..Len(s) : s[i] \in ToSet(s)
    BY <1>1 DEF ToSet
  <2> QED BY <1>0, <1>3, <2>1 DEF Sorted
<1>5. CASE s = <<>> \/ timer[s[Len(s)]].exec <= exec
  <2>1. m_SingleTimers' = Append(s, t)
    BY <1>0, <1>5 DEF InsertSorted
  <2>2. ASSUME Sorted, NEW u \in ToSet(s) PROVE timer[u].exec <= exec
    <3>1. PICK i \in 1..Len(s) : s[i] = u
      BY <1>1 DEF ToSet
    <3>2. PICK n : n = Len(s)
      OBVIOUS
    <3>3. n \in Nat /\ i \in 1..n
      BY <1>1, <3>1, <3>2
    <3>4. n \in 1..n /\ (i = n \/ i < n)
      BY <3>3
    <3>5. timer[s[i]].exec <= timer[s[n]].exec
      <4>1. timer[s[i]].exec \in Nat
        BY <1>1, <1>2, <3>1
      <4>2. i < n => timer[s[i]].exec <= timer[s[n]].exec
        BY <1>4, <2>2, <3>1, <3>2, <3>4
      <4> QED BY <3>4, <4>1, <4>2
    <3>6. s # <<>>
      <4>1. Len(<<>>) = 0
        BY EmptySeq
      <4> QED BY <3>2, <3>3, <4>1
    <3>7. timer[s[n]].exec <= exec /\ timer[s[n]].exec \in Nat /\ timer[s[i]].exec \in Nat
      BY <1>1, <1>2, <1>5, <3>1, <3>2, <3>4, <3>6
    <3> QED BY <3>1, <3>5, <3>7
  <2> QED
    <3>1. /\ Append(s, t) \in Seq(Structs) /\ ToSet(Append(s, t)) = ToSet(s) \cup {t}
          /\ \A u, v : Precedes(Append(s, t), u, v) <=> \/ Precedes(s, u, v)
                                                        \/ u \in ToSet(s) /\ v = t
      BY <1>1, AppendIs
    <3>2. /\ ToSet(s) \cup {} = ToSet(s)
          /\ \A u, v : Precedes(m_SingleTimers, u, v)' <=>
                       \/ Precedes(s, u, v)
                       \/ u \in ToSet(s) /\ v = t
                       \/ u = t /\ v \in {}
          /\ Sorted => /\ \A u \in ToSet(s) : timer[u].exec <= exec
                       /\ \A v \in {} : exec <= timer[v].exec
      BY <2>1, <2>2, <3>1
    <3>3. m_SingleTimers' \in Seq(Structs) /\ ToSet(m_SingleTimers)' = ToSet(s) \cup {t}
      BY <2>1, <3>1
    <3> DEFINE A == ToSet(s)
               B == {}
    <3>4. /\ A \cup B = ToSet(s)
          /\ \A u, v : Precedes(m_SingleTimers, u, v)' <=>
                       \/ Precedes(s, u, v)
                       \/ u \in A /\ v = t
                       \/ u = t /\ v \in B
          /\ Sorted => /\ \A u \in A : timer[u].exec <= exec
                       /\ \A v \in B : exec <= timer[v].exec
      BY <3>2
    <3> HIDE DEF A, B
    <3> QED BY <1>0, <3>3, <3>4
<1>6. CASE ~(s = <<>> \/ timer[s[Len(s)]].exec <= exec)
  <2> DEFINE Later == {k \in DOMAIN s : timer[s[k]].exec >= exec}
             First(k) == timer[s[k]].exec >= exec /\ \A j \in 1..(k - 1) : timer[s[j]].exec < exec
  <2>1. Len(s) \in Later /\ Later \subseteq Nat
    BY <1>1, <1>2, <1>6
  <2>2. PICK k \in Later : \A j \in Later : k <= j
    BY <2>1, LeastOf
  <2>3. First(k)
    <3>1. ASSUME NEW j \in 1..(k - 1) PROVE timer[s[j]].exec < exec
      <4>1. j \in DOMAIN s /\ j < k /\ s[j] \in Structs
        BY <1>1, <2>2
      <4>2. j \notin Later
        BY <1>1, <2>2, <4>1
      <4> QED BY <1>2, <4>1, <4>2
    <3> QED BY <2>2, <3>1
  <2>4. PICK c \in DOMAIN s : First(c) /\ m_SingleTimers' = InsertAt(s, c, t)
    <3>1. m_SingleTimers' = InsertAt(s, CHOOSE c \in DOMAIN s : First(c), t)
      BY <1>0, <1>6 DEF InsertSorted
    <3> HIDE DEF First
    <3> QED BY <2>2, <2>3, <3>1
  <2> DEFINE A == {s[j] : j \in 1..(c - 1)}
             B == {s[j] : j \in c..Len(s)}
  <2>5. A \cup B = ToSet(s)
    BY <1>1 DEF ToSet
  <2>6. Sorted => /\ \A u \in A : timer[u].exec <= exec
                  /\ \A v \in B : exec <= timer[v].exec
    <3>1. ASSUME NEW j \in 1..(c - 1) PROVE timer[s[j]].exec <= exec
      BY <1>1, <1>2, <2>4
    <3>2. ASSUME Sorted, NEW j \in c..Len(s) PROVE exec <= timer[s[j]].exec
      <4>1. j \in 1..Len(s) /\ (j = c \/ c < j) /\ s[j] \in Structs /\ s[c] \in Structs
        BY <1>1, <2>4
      <4>2. timer[s[c]].exec <= timer[s[j]].exec
        BY <1>1, <1>2, <1>4, <2>4, <3>2, <4>1
      <4> QED BY <1>2, <2>4, <4>1, <4>2
    <3> QED BY <3>1, <3>2
  <2>7. /\ InsertAt(s, c, t) \in Seq(Structs)
        /\ ToSet(InsertAt(s, c, t)) = ToSet(s) \cup {t}
        /\ \A u, v : Precedes(InsertAt(s, c, t), u, v) <=>
                 \/ Precedes(s, u, v)
                 \/ u \in A /\ v = t
                 \/ u = t /\ v \in B
    BY <1>1, InsertAtIs
  <2> HIDE DEF A, B
  <2>8. \A u, v : Precedes(m_SingleTimers, u, v)' <=>
                 \/ Precedes(s, u, v)
                 \/ u \in A /\ v = t
                 \/ u = t /\ v \in B
    BY <2>4, <2>7
  <2>9. m_SingleTimers' \in Seq(Structs) /\ ToSet(m_SingleTimers)' = ToSet(s) \cup {t}
    BY <2>4, <2>7
  <2> QED BY <1>0, <2>5, <2>6, <2>8, <2>9
<1> QED BY <1>5, <1>6

(* A struct that was never used can be taken as long as there is one. *)
LEMMA NewStructIs ==
    ASSUME Structs \ Used # {}
    PROVE  NewStruct \in Structs /\ NewStruct \notin Used
<1>1. Structs \ Used \subseteq Nat
  BY TimerConstants
<1>2. \E t \in Structs \ Used : \A u \in Structs \ Used : t <= u
  BY <1>1, LeastOf
<1>3. \E t \in Structs : t \notin Used /\ \A u \in Structs \ Used : t <= u
  BY <1>2
<1> QED BY <1>3 DEF NewStruct

-----------------------------------------------------------------------------
(* What the invariant says of the open calls: their timers are live, and no two
   calls have the same one. *)
LEMMA OpenIs ==
    ASSUME CallInv
    PROVE  /\ \A k \in 1..Len(stack) : stack[k].t # NULL => stack[k].t \in Live
           /\ \A k \in 1..Len(stack) : stack[k].at # "look" =>
                 /\ stack[k].t # NULL /\ stack[k].t \in Live /\ stack[k].t \in Structs
                 /\ timer[stack[k].t].inExec
           /\ \A k \in 1..Len(stack) : stack[k].op \in {"single", "loop", "sweep"} => k = 1
           /\ \A k \in 1..Len(stack) : stack[k].at = "look" =>
                 /\ k = 1 /\ stack[k].op \in {"single", "loop", "sweep"}
                 /\ stack[k].t # NULL => Len(stack) = 1
           /\ \A i, k \in 1..Len(stack) : stack[i].t = stack[k].t /\ stack[i].t # NULL => i = k
<1>1. /\ Len(stack) \in Nat /\ DOMAIN stack = 1..Len(stack)
      /\ \A k \in 1..Len(stack) : stack[k] \in Frames
  BY StackIs DEF CallInv, TimerInv
<1>2. \A k \in 1..Len(stack) : stack[k].t # NULL => stack[k].t \in Live
  BY <1>1 DEF CallInv, TimerInv, IteratorsValid, Live, Frames
<1>3. \A k \in 1..Len(stack) : stack[k].op \in {"single", "loop", "sweep"} => k = 1
  BY <1>1 DEF CallInv, FrameShape
<1>4. \A k \in 1..Len(stack) : stack[k].at = "look" => 
         k = 1 /\ stack[k].op \in {"single", "loop", "sweep"}
  BY <1>1, <1>3 DEF CallInv, FrameShape, Frames
<1>5. \A k \in 1..Len(stack) : stack[k].at = "look" /\ stack[k].t # NULL => Len(stack) = 1
  BY <1>1, <1>4 DEF CallInv, FrameShape, Frames
<1>6. \A k \in 1..Len(stack) : stack[k].at # "look" => 
         stack[k].t # NULL /\ stack[k].t \in Live /\ stack[k].t \in Structs
  <2>1. \A k \in 1..Len(stack) : stack[k].at # "look" => stack[k].t # NULL
    BY <1>1 DEF CallInv, FrameShape
  <2>2. \A k \in 1..Len(stack) : stack[k].t # NULL => stack[k].t \in Structs
    BY <1>1 DEF Frames
  <2> QED BY <1>2, <2>1, <2>2
<1>7. \A k \in 1..Len(stack) : stack[k].at # "look" => timer[stack[k].t].inExec
  <2>1. \A k \in 1..Len(stack) : stack[k].at # "look" => Called(stack[k].t)
    BY <1>1 DEF Called, Calling
  <2> QED BY <1>6, <2>1 DEF CallInv, Marks
<1>8. ASSUME NEW i \in 1..Len(stack), NEW k \in 1..Len(stack),
             stack[i].t = stack[k].t, stack[i].t # NULL
      PROVE  i = k
  <2>1. CASE stack[i].at = "look" \/ stack[k].at = "look"
    BY <1>1, <1>5, <1>8, <2>1
  <2>2. CASE stack[i].at # "look" /\ stack[k].at # "look"
    BY <1>1, <1>8, <2>2 DEF CallInv, TimerInv, IteratorsValid, Calling
  <2> QED BY <2>1, <2>2
<1> QED BY <1>2, <1>3, <1>4, <1>5, <1>6, <1>7, <1>8

(* The type invariant of what the callers and the callbacks change. *)
Fields == [exec : Nat, interval : Nat, repeat : BOOLEAN, nomap : BOOLEAN,
           inExec : BOOLEAN, killMe : BOOLEAN, ended : 0..1]

LEMMA TypesAre ==
    ASSUME TimerTypeOK
    PROVE  /\ timer \in [Structs -> Fields]
           /\ m_SingleTimers \in Seq(Structs) /\ m_LoopTimers \in Seq(Structs)
           /\ m_FreeTimers \in Seq(Structs) /\ s_tokill \in Seq(Structs)
           /\ \A t \in Structs : timer[t] \in Fields
           /\ Used \subseteq Structs /\ Live \subseteq Structs
           /\ ToSet(m_SingleTimers) \subseteq Structs /\ ToSet(m_LoopTimers) \subseteq Structs
           /\ ToSet(m_FreeTimers) \subseteq Structs /\ ToSet(s_tokill) \subseteq Structs
<1>1. /\ m_SingleTimers \in Seq(Structs) /\ m_LoopTimers \in Seq(Structs)
      /\ m_FreeTimers \in Seq(Structs) /\ s_tokill \in Seq(Structs)
  BY DEF TimerTypeOK
<1>2. timer \in [Structs -> Fields]
  BY DEF TimerTypeOK, Fields
<1>3. /\ ToSet(m_SingleTimers) \subseteq Structs /\ ToSet(m_LoopTimers) \subseteq Structs
      /\ ToSet(m_FreeTimers) \subseteq Structs /\ ToSet(s_tokill) \subseteq Structs
  BY <1>1, EmptyIs
<1> QED BY <1>1, <1>2, <1>3 DEF Used, Live

(* The innermost call, when there is one. *)
LEMMA TopIs ==
    ASSUME CallInv, stack # <<>>
    PROVE  /\ Len(stack) \in Nat /\ Len(stack) >= 1 /\ Len(stack) \in 1..Len(stack)
           /\ DOMAIN stack = 1..Len(stack)
           /\ Top = stack[Len(stack)] /\ Top \in Frames
           /\ Top.op \in {"single", "loop", "sweep"} => Len(stack) = 1
           /\ Top.at = "look" => Len(stack) = 1 /\ Top.op \in {"single", "loop", "sweep"}
           /\ Top.t # NULL => Top.t \in Live /\ Top.t \in Structs
           /\ Top.at # "look" => /\ Top.t # NULL /\ timer[Top.t].inExec /\ Top.op # "sweep"
                                 /\ (Top.at # "end" => Top.op # "kill")
           /\ Top.op = "single" /\ Top.t # NULL => Top.t \in ToSet(m_SingleTimers)
           /\ Top.op = "loop" /\ Top.t # NULL => Top.t \in ToSet(m_LoopTimers)
           /\ \A k \in 1..(Len(stack) - 1) : k \in 1..Len(stack) /\ k # Len(stack)
           /\ \A k \in 1..(Len(stack) - 1) : Top.t # NULL => stack[k].t # Top.t
           /\ \A k \in 1..Len(stack) : k \in 1..(Len(stack) - 1) \/ k = Len(stack)
<1>1. /\ Len(stack) \in Nat /\ Len(stack) # 0 /\ DOMAIN stack = 1..Len(stack)
      /\ Top = stack[Len(stack)] /\ \A k \in 1..Len(stack) : stack[k] \in Frames
  BY StackIs DEF CallInv, TimerInv, Top
<1>2. PICK n : n = Len(stack)
  OBVIOUS
<1>3. /\ n \in Nat /\ n >= 1 /\ n \in 1..n
      /\ \A k \in 1..(n - 1) : k \in 1..n /\ k # n
      /\ \A k \in 1..n : k \in 1..(n - 1) \/ k = n
  <2>1. n \in Nat /\ n # 0
    BY <1>1, <1>2
  <2> QED BY <2>1
<1>4. /\ Top.op \in {"single", "loop", "sweep"} => n = 1
      /\ Top.at = "look" => n = 1 /\ Top.op \in {"single", "loop", "sweep"}
  BY <1>1, <1>2, <1>3, OpenIs
<1>5. /\ Top.t # NULL => Top.t \in Live /\ Top.t \in Structs
      /\ Top.at # "look" => Top.t # NULL /\ timer[Top.t].inExec
  <2>1. Live \subseteq Structs
    BY TypesAre DEF CallInv, TimerInv
  <2> QED BY <1>1, <1>2, <1>3, <2>1, OpenIs
<1>6. /\ Top.at # "look" => Top.op # "sweep"
      /\ Top.at # "end" => Top.op # "kill"
  BY <1>1, <1>2, <1>3 DEF CallInv, FrameShape
<1>7. /\ Top.op = "single" /\ Top.t # NULL => Top.t \in ToSet(m_SingleTimers)
      /\ Top.op = "loop" /\ Top.t # NULL => Top.t \in ToSet(m_LoopTimers)
  BY <1>1, <1>2, <1>3 DEF CallInv, TimerInv, IteratorsValid
<1>8. \A k \in 1..(n - 1) : Top.t # NULL => stack[k].t # Top.t
  BY <1>1, <1>2, <1>3, OpenIs
<1> QED BY <1>1, <1>2, <1>3, <1>4, <1>5, <1>6, <1>7, <1>8

(* The type invariant after a step, from its parts. *)
LEMMA TypesNext ==
    ASSUME timer' \in [Structs -> Fields], stack' \in Seq(Frames),
           m_SingleTimers' \in Seq(Structs), m_LoopTimers' \in Seq(Structs),
           m_FreeTimers' \in Seq(Structs), s_tokill' \in Seq(Structs),
           fresh' \subseteq Structs, born' \subseteq Structs,
           \/ /\ time' \in 0..MaxTime /\ think' \in Nat /\ curtime' \in Nat /\ last' \in Nat
              /\ ticked' \in BOOLEAN /\ thought' \in -1..MaxTime
           \/ TimerTypeOK /\ UNCHANGED clocks
    PROVE  TimerTypeOK'
<1>1. \A list \in {m_SingleTimers', m_LoopTimers', m_FreeTimers', s_tokill'} : list \in Seq(Structs)
  OBVIOUS
<1>2. /\ time' \in 0..MaxTime /\ {think', curtime', last'} \subseteq Nat
      /\ ticked' \in BOOLEAN /\ thought' \in -1..MaxTime
  BY DEF TimerTypeOK, clocks
<1> QED BY <1>1, <1>2 DEF TimerTypeOK, Fields, Frames

(* What stays when no list changes. *)
LEMMA ListsStay ==
    ASSUME CallInv, UNCHANGED lists, \A t \in Structs : timer'[t].repeat = timer[t].repeat
    PROVE  /\ EachInOneList' /\ Used' = Used /\ Live' = Live
           /\ ToSet(m_SingleTimers)' = ToSet(m_SingleTimers)
           /\ ToSet(m_LoopTimers)' = ToSet(m_LoopTimers)
           /\ ToSet(m_FreeTimers)' = ToSet(m_FreeTimers)
           /\ m_SingleTimers' \in Seq(Structs) /\ m_LoopTimers' \in Seq(Structs)
           /\ m_FreeTimers' \in Seq(Structs)
<1>1. m_SingleTimers' = m_SingleTimers /\ m_LoopTimers' = m_LoopTimers /\ m_FreeTimers' = m_FreeTimers
  BY DEF lists
<1>2. /\ ToSet(m_SingleTimers) \subseteq Structs /\ ToSet(m_LoopTimers) \subseteq Structs
      /\ m_SingleTimers \in Seq(Structs) /\ m_LoopTimers \in Seq(Structs)
      /\ m_FreeTimers \in Seq(Structs)
  BY TypesAre DEF CallInv, TimerInv
<1>3. Used' = Used /\ Live' = Live
  BY <1>1 DEF Used, Live
<1>4. EachInOneList'
  BY <1>1, <1>2, <1>3 DEF CallInv, TimerInv, EachInOneList
<1> QED BY <1>1, <1>2, <1>3, <1>4

-----------------------------------------------------------------------------
(* A step that only changes t's struct, and of it only inExec, killMe, ended and
   exec, to the values given. *)
Sets(t, i, k, e) ==
    /\ timer' \in [Structs -> Fields]
    /\ \A u \in Structs : u # t => timer'[u] = timer[u]
    /\ timer'[t].repeat = timer[t].repeat /\ timer'[t].nomap = timer[t].nomap
    /\ timer'[t].inExec = i /\ timer'[t].killMe = k /\ timer'[t].ended = e

LEMMA SetsStay ==
    ASSUME NEW t \in Structs, NEW i, NEW k, NEW e, Sets(t, i, k, e)
    PROVE  \A u \in Structs : timer'[u].repeat = timer[u].repeat /\ timer'[u].nomap = timer[u].nomap
  BY DEF Sets

LEMMA EndingIs ==
    ASSUME TimerTypeOK, NEW t \in Structs, timer[t].ended = 0, timer' = Ending(t)
    PROVE  Sets(t, TRUE, timer[t].killMe, 1)
<1>1. timer \in [Structs -> Fields] /\ timer[t] \in Fields
  BY TypesAre
<1>2. timer' = [timer EXCEPT ![t] = [timer[t] EXCEPT !.inExec = TRUE, !.ended = 1]]
  BY <1>1 DEF Ending, Fields
<1>3. [timer[t] EXCEPT !.inExec = TRUE, !.ended = 1] \in Fields
  <2>1. \A E : \A r \in [exec : Nat, interval : Nat, repeat : BOOLEAN, nomap : BOOLEAN,
                         inExec : BOOLEAN, killMe : BOOLEAN, ended : E] : \A e \in E :
           [r EXCEPT !.inExec = TRUE, !.ended = e] \in
              [exec : Nat, interval : Nat, repeat : BOOLEAN, nomap : BOOLEAN,
               inExec : BOOLEAN, killMe : BOOLEAN, ended : E]
    OBVIOUS
  <2>2. 1 \in 0..1
    OBVIOUS
  <2> QED BY <1>1, <2>1, <2>2 DEF Fields
<1>4. timer' \in [Structs -> Fields]
  BY <1>1, <1>2, <1>3
<1>5. \A u \in Structs : u # t => timer'[u] = timer[u]
  BY <1>1, <1>2
<1>6. timer'[t] = [timer[t] EXCEPT !.inExec = TRUE, !.ended = 1]
  BY <1>1, <1>2
<1>7. /\ timer'[t].repeat = timer[t].repeat /\ timer'[t].nomap = timer[t].nomap
      /\ timer'[t].inExec = TRUE /\ timer'[t].killMe = timer[t].killMe /\ timer'[t].ended = 1
  BY <1>1, <1>6 DEF Fields
<1> QED BY <1>4, <1>5, <1>7 DEF Sets

LEMMA RunningIs ==
    ASSUME TimerTypeOK, NEW t \in Structs, timer' = [timer EXCEPT ![t].inExec = TRUE]
    PROVE  Sets(t, TRUE, timer[t].killMe, timer[t].ended) /\ timer'[t].exec = timer[t].exec
<1>1. timer \in [Structs -> Fields] /\ timer[t] \in Fields
  BY TypesAre
<1> QED BY <1>1 DEF Sets, Fields

LEMMA MarkIs ==
    ASSUME TimerTypeOK, NEW t \in Structs, timer' = [timer EXCEPT ![t].killMe = TRUE]
    PROVE  Sets(t, timer[t].inExec, TRUE, timer[t].ended) /\ timer'[t].exec = timer[t].exec
<1>1. timer \in [Structs -> Fields] /\ timer[t] \in Fields
  BY TypesAre
<1> QED BY <1>1 DEF Sets, Fields

(* A live timer that is in no OnTimerEnd() has not been ended. *)
LEMMA NotEnded ==
    ASSUME CallInv, NEW t \in Live,
           \A k \in 1..Len(stack) : ~(stack[k].t = t /\ stack[k].at = "end")
    PROVE  timer[t].ended = 0
<1>1. timer[t].ended \in 0..1 /\ DOMAIN stack = 1..Len(stack)
  BY TypesAre, StackIs DEF CallInv, TimerInv, Fields
<1> QED BY <1>1 DEF CallInv, TimerInv, EndedOnce

(* KillTimer() or FireTimerOnce() of a timer that does not run. *)
LEMMA PushKeeps ==
    ASSUME CallInv, NEW t \in Live, ~timer[t].inExec, UNCHANGED lists,
           Idle \/ Top.at # "look" \/ Top.op = "sweep",
           NEW f \in {Frame("kill", t, "end", FALSE)} \cup {Frame("fire", t, "timer", d) : d \in BOOLEAN},
           Push(f),
           Sets(t, TRUE, timer[t].killMe, IF f.at = "end" THEN 1 ELSE 0)
    PROVE  /\ timer' \in [Structs -> Fields] /\ stack' \in Seq(Frames)
           /\ EachInOneList' /\ IteratorsValid' /\ EndedOnce' /\ FrameShape' /\ Marks'
           /\ \A u : Called(u)' <=> Called(u) \/ u = t
<1> PICK n : n = Len(stack)
  OBVIOUS
<1>1. /\ n \in Nat /\ DOMAIN stack = 1..n /\ stack \in Seq(Frames) /\ n = Len(stack)
      /\ \A k \in 1..n : stack[k] \in Frames
      /\ (stack = <<>> <=> n = 0)
  BY StackIs DEF CallInv, TimerInv
<1>2. t \in Structs /\ Live \subseteq Structs /\ Used \subseteq Structs
  BY TypesAre DEF CallInv, TimerInv
<1>3. /\ f \in Frames /\ f.t = t /\ f.op \in {"fire", "kill"} /\ f.at \in {"timer", "end"}
      /\ (f.op = "kill" => f.at = "end") /\ f.at # "look"
  <2>1. CASE f = Frame("kill", t, "end", FALSE)
    BY <1>2, <2>1 DEF Frame, Frames
  <2>2. ASSUME NEW d \in BOOLEAN, f = Frame("fire", t, "timer", d)
        PROVE  f \in Frames /\ f.t = t /\ f.op = "fire" /\ f.at = "timer"
    BY <1>2, <2>2 DEF Frame, Frames
  <2> QED BY <2>1, <2>2
<1>4. /\ stack' \in Seq(Frames) /\ Len(stack') = n + 1
      /\ DOMAIN stack' = 1..(n + 1) /\ stack'[n + 1] = f
      /\ \A k \in 1..n : stack'[k] = stack[k]
  BY <1>1, <1>3, PushIs DEF CallInv, TimerInv
<1>5. /\ EachInOneList' /\ Used' = Used /\ Live' = Live
      /\ ToSet(m_SingleTimers)' = ToSet(m_SingleTimers)
      /\ ToSet(m_LoopTimers)' = ToSet(m_LoopTimers)
      /\ ToSet(m_FreeTimers)' = ToSet(m_FreeTimers)
  BY <1>2, SetsStay, ListsStay
<1>6. t # NULL /\ \A k \in 1..n : stack[k].t # t
  <2>1. ~Called(t)
    BY DEF CallInv, Marks
  <2>2. \A k \in 1..n : stack[k].t = t => stack[k].at = "look"
    BY <1>1, <2>1 DEF Called, Calling
  <2>3. \A k \in 1..n : stack[k].at = "look" => 
           k = 1 /\ stack[k].op \in {"single", "loop", "sweep"} /\ (stack[k].t # NULL => n = 1)
    BY <1>1, OpenIs
  <2>4. t # NULL
    BY <1>2, TimerConstants
  <2>5. ASSUME NEW k \in 1..n, stack[k].t = t PROVE FALSE
    <3>1. k = 1 /\ n = 1 /\ stack[k].at = "look"
      BY <2>2, <2>3, <2>4, <2>5
    <3>2. Top = stack[k] /\ stack # <<>>
      BY <1>1, <3>1 DEF Top
    <3>3. stack[k].op = "sweep"
      BY <3>1, <3>2 DEF Idle
    <3> QED BY <1>1, <2>4, <2>5, <3>3 DEF CallInv, FrameShape
  <2> QED BY <2>4, <2>5
<1>7. n + 1 \notin 1..n /\ \A k \in 1..(n + 1) : k \in 1..n \/ k = n + 1
  BY <1>1
<1>8. \A u : Called(u)' <=> Called(u) \/ u = t
  BY <1>1, <1>3, <1>4, <1>7 DEF Called, Calling
<1>9. IteratorsValid'
  <2>1. ASSUME NEW k \in 1..(n + 1), stack'[k].t # NULL
        PROVE  stack'[k].t \in CASE stack'[k].op = "single" -> ToSet(m_SingleTimers)
                                 [] stack'[k].op = "loop"   -> ToSet(m_LoopTimers)
                                 [] OTHER -> Live
    <3>1. CASE k = n + 1
      BY <1>3, <1>4, <3>1
    <3>2. CASE k \in 1..n
      BY <1>1, <1>4, <2>1, <3>2 DEF CallInv, TimerInv, IteratorsValid
    <3> QED BY <1>7, <3>1, <3>2
  <2>2. ASSUME NEW i \in 1..(n + 1), NEW k \in 1..(n + 1), stack'[i].t = stack'[k].t,
               stack'[i].at # "look", stack'[k].at # "look"
        PROVE  i = k
    <3>1. CASE i \in 1..n /\ k \in 1..n
      BY <1>1, <1>4, <2>2, <3>1 DEF CallInv, TimerInv, IteratorsValid, Calling
    <3>2. CASE i = n + 1 \/ k = n + 1
      BY <1>3, <1>4, <1>6, <1>7, <2>2, <3>2
    <3> QED BY <1>7, <3>1, <3>2
  <2> QED BY <1>4, <1>5, <2>1, <2>2 DEF IteratorsValid, Calling
<1>10. EndedOnce'
  <2>1. ASSUME NEW u \in ToSet(m_FreeTimers) PROVE timer'[u].ended = 1
    <3>1. u # t /\ u \in Structs
      BY <1>2 DEF Used, CallInv, TimerInv, EachInOneList
    <3> QED BY <3>1 DEF Sets, CallInv, TimerInv, EndedOnce
  <2>2. ASSUME NEW u \in Live
        PROVE  timer'[u].ended = 1 <=> \E k \in 1..(n + 1) : stack'[k].t = u /\ stack'[k].at = "end"
    <3>1. CASE u = t
      <4>1. timer'[u].ended = 1 <=> f.at = "end"
        BY <3>1 DEF Sets
      <4>2. (\E k \in 1..(n + 1) : stack'[k].t = u /\ stack'[k].at = "end") <=> f.at = "end"
        BY <1>1, <1>3, <1>4, <1>6, <1>7, <3>1
      <4> QED BY <4>1, <4>2
    <3>2. CASE u # t
      <4>1. timer'[u] = timer[u]
        BY <1>2, <3>2 DEF Sets
      <4>2. timer[u].ended = 1 <=> \E k \in 1..n : stack[k].t = u /\ stack[k].at = "end"
        BY <1>1 DEF CallInv, TimerInv, EndedOnce
      <4>3. (\E k \in 1..(n + 1) : stack'[k].t = u /\ stack'[k].at = "end") 
               <=> \E k \in 1..n : stack[k].t = u /\ stack[k].at = "end"
        BY <1>1, <1>3, <1>4, <1>7, <3>2
      <4> QED BY <4>1, <4>2, <4>3
    <3> QED BY <3>1, <3>2
  <2> QED BY <1>4, <1>5, <2>1, <2>2 DEF EndedOnce
<1>11. FrameShape'
  <2>1. n # 0 => stack[n] = Top
    BY <1>1 DEF Top
  <2>2. \A k \in 1..n : ~(stack[k].op \in {"single", "loop"} /\ stack[k].at = "look")
    <3>1. ASSUME NEW k \in 1..n, stack[k].op \in {"single", "loop"}, stack[k].at = "look" PROVE FALSE
      <4>1. k = n /\ n # 0
        BY <1>1, <3>1 DEF CallInv, FrameShape
      <4> QED BY <1>1, <2>1, <3>1, <4>1 DEF Idle
    <3> QED BY <3>1
  <2>3. ASSUME NEW k \in 1..(n + 1)
        PROVE  /\ k # 1 => stack'[k].op \in {"fire", "kill"}
               /\ stack'[k].op = "fire" => stack'[k].at \in {"timer", "end"}
               /\ stack'[k].op = "kill" => stack'[k].at = "end"
               /\ stack'[k].op = "sweep" => stack'[k].at = "look" /\ stack'[k].t = NULL
               /\ stack'[k].at # "look" => stack'[k].t # NULL
               /\ ~(stack'[k].op \in {"single", "loop"} /\ stack'[k].at = "look")
    <3>1. CASE k = n + 1
      BY <1>3, <1>4, <1>6, <3>1
    <3>2. CASE k \in 1..n
      BY <1>1, <1>4, <2>2, <3>2 DEF CallInv, FrameShape
    <3> QED BY <1>7, <3>1, <3>2
  <2> QED BY <1>4, <2>3 DEF FrameShape
<1>12. Marks'
  <2>1. ASSUME NEW u \in Live PROVE timer'[u].inExec <=> Called(u)'
    <3>1. CASE u = t
      BY <1>8, <3>1 DEF Sets
    <3>2. CASE u # t
      BY <1>2, <1>8, <3>2 DEF Sets, CallInv, Marks
    <3> QED BY <3>1, <3>2
  <2>2. \A u \in ToSet(m_FreeTimers) : timer'[u].inExec
    BY <1>2 DEF Used, CallInv, Marks, Sets
  <2>3. \A u \in Used : timer'[u].killMe => timer'[u].inExec
    BY <1>2 DEF CallInv, Marks, Sets
  <2> QED BY <1>5, <2>1, <2>2, <2>3 DEF Marks
<1> QED BY <1>4, <1>5, <1>8, <1>9, <1>10, <1>11, <1>12 DEF Sets

(* Steps that neither begin, go on with nor end a map change. *)
LEMMA SweepStays ==
    ASSUME CallInv, Sweeping' <=> Sweeping, UNCHANGED <<s_tokill, born>>,
           Used' = Used, Live' \subseteq Live,
           \A u \in Structs : timer'[u].nomap = timer[u].nomap,
           \A u \in Live' : timer[u].ended = 1 => timer'[u].ended = 1
    PROVE  SweepState'
<1>1. Live \subseteq Structs /\ ToSet(s_tokill) \subseteq Structs
  BY TypesAre DEF CallInv, TimerInv
<1>2. s_tokill' = s_tokill /\ born' = born
  OBVIOUS
<1>3. \A u \in ToSet(s_tokill)' : u \in Used' /\ (timer'[u].nomap \/ u \in born')
  BY <1>1, <1>2 DEF CallInv, SweepState
<1>4. Sweeping' => \A u \in Live' : timer'[u].nomap =>
         u \in ToSet(s_tokill)' \cup born' \/ timer'[u].ended = 1
  BY <1>1, <1>2 DEF CallInv, SweepState
<1> QED BY <1>2, <1>3, <1>4 DEF CallInv, SweepState

LEMMA KillNowKeeps ==
    ASSUME CallInv, NEW t \in Used, KillNow(t), UNCHANGED lists,
           Idle \/ Top.at # "look" \/ Top.op = "sweep"
    PROVE  /\ timer' \in [Structs -> Fields] /\ stack' \in Seq(Frames)
           /\ EachInOneList' /\ IteratorsValid' /\ EndedOnce' /\ FrameShape' /\ Marks'
           /\ Live' = Live /\ Used' = Used
           /\ \A u \in Structs : timer'[u].nomap = timer[u].nomap
           /\ \A u \in Live : timer[u].ended = 1 => timer'[u].ended = 1
           /\ t \in Live /\ ~timer[t].inExec => timer'[t].ended = 1
           /\ Sweeping' <=> Sweeping
<1> PICK n : n = Len(stack)
  OBVIOUS
<1>1. /\ n \in Nat /\ DOMAIN stack = 1..n /\ stack \in Seq(Frames) /\ n = Len(stack)
      /\ (stack = <<>> <=> n = 0)
      /\ timer \in [Structs -> Fields] /\ Used \subseteq Structs /\ t \in Structs
      /\ Live \subseteq Used /\ Used = Live \cup ToSet(m_FreeTimers)
  BY StackIs, TypesAre DEF CallInv, TimerInv, Live, Used
<1>2. CASE timer[t].killMe \/ timer[t].inExec
  <2>1. timer[t].inExec /\ UNCHANGED stack
    BY <1>2 DEF KillNow, CallInv, Marks
  <2>2. \/ timer' = timer
        \/ Sets(t, timer[t].inExec, TRUE, timer[t].ended)
    BY <1>1, <1>2, MarkIs DEF KillNow, CallInv, TimerInv
  <2>3. /\ timer' \in [Structs -> Fields]
        /\ \A u \in Structs : /\ timer'[u].repeat = timer[u].repeat /\ timer'[u].nomap = timer[u].nomap
                              /\ timer'[u].inExec = timer[u].inExec /\ timer'[u].ended = timer[u].ended
                              /\ u # t => timer'[u].killMe = timer[u].killMe
    BY <1>1, <2>2 DEF Sets
  <2>4. /\ EachInOneList' /\ Used' = Used /\ Live' = Live
        /\ ToSet(m_SingleTimers)' = ToSet(m_SingleTimers)
        /\ ToSet(m_LoopTimers)' = ToSet(m_LoopTimers)
        /\ ToSet(m_FreeTimers)' = ToSet(m_FreeTimers)
    BY <2>3, ListsStay
  <2>5. \A u : Called(u)' <=> Called(u)
    BY <2>1 DEF Called, Calling
  <2>6. IteratorsValid' /\ FrameShape' /\ (Sweeping' <=> Sweeping)
    BY <2>1, <2>4 DEF CallInv, TimerInv, IteratorsValid, FrameShape, Calling, Sweeping, Idle
  <2>7. EndedOnce'
    BY <1>1, <2>1, <2>3, <2>4 DEF CallInv, TimerInv, EndedOnce
  <2>8. Marks'
    BY <1>1, <2>1, <2>3, <2>4, <2>5 DEF CallInv, Marks
  <2> QED BY <1>1, <2>1, <2>3, <2>4, <2>6, <2>7, <2>8
<1>3. CASE ~timer[t].killMe /\ ~timer[t].inExec
  <2> DEFINE f == Frame("kill", t, "end", FALSE)
  <2>1. Push(f) /\ timer' = Ending(t)
    BY <1>3 DEF KillNow
  <2>2. t \in Live
    BY <1>1, <1>3 DEF CallInv, Marks
  <2>3. timer[t].ended = 0
    <3>1. \A k \in 1..Len(stack) : ~(stack[k].t = t /\ stack[k].at = "end")
      BY <1>3, OpenIs
    <3> QED BY <2>2, <3>1, NotEnded
  <2>4. f.at = "end" /\ f \in Frames
    BY <1>1 DEF Frame, Frames
  <2>5. Sets(t, TRUE, timer[t].killMe, IF f.at = "end" THEN 1 ELSE 0)
    BY <1>1, <2>1, <2>3, <2>4, EndingIs DEF CallInv, TimerInv
  <2>6. /\ stack' \in Seq(Frames) /\ Len(stack') = n + 1
        /\ DOMAIN stack' = 1..(n + 1) /\ stack'[n + 1] = f
        /\ \A k \in 1..n : stack'[k] = stack[k]
    BY <1>1, <2>1, <2>4, PushIs DEF CallInv, TimerInv
  <2>7. \A u \in Structs : timer'[u].repeat = timer[u].repeat /\ timer'[u].nomap = timer[u].nomap
    BY <1>1, <2>5, SetsStay
  <2>8. Live' = Live /\ Used' = Used
    BY <2>7, ListsStay
  <2>9. Sweeping' <=> Sweeping
    <3>1. CASE n = 0
      <4>1. n + 1 = 1 /\ f.op = "kill"
        BY <3>1 DEF Frame
      <4>2. stack'[1].op = "kill"
        BY <2>6, <4>1
      <4>3. stack = <<>>
        BY <1>1, <3>1
      <4> QED BY <4>2, <4>3 DEF Sweeping, Idle
    <3>2. CASE n # 0
      <4>1. 1 \in 1..n /\ Len(stack') # 0
        BY <1>1, <2>6, <3>2
      <4>2. stack' # <<>> /\ stack # <<>> /\ stack'[1] = stack[1]
        BY <1>1, <2>6, <3>2, <4>1, EmptySeq
      <4> QED BY <4>2 DEF Sweeping, Idle
    <3> QED BY <3>1, <3>2
  <2>10. \A u \in Live : timer[u].ended = 1 => timer'[u].ended = 1
    BY <1>1, <2>4, <2>5 DEF Sets
  <2>11. timer'[t].ended = 1
    BY <2>4, <2>5 DEF Sets
  <2>12. f \in {Frame("kill", t, "end", FALSE)} \cup {Frame("fire", t, "timer", d) : d \in BOOLEAN}
    OBVIOUS
  <2> HIDE DEF f
  <2>13. /\ timer' \in [Structs -> Fields] /\ stack' \in Seq(Frames)
         /\ EachInOneList' /\ IteratorsValid' /\ EndedOnce' /\ FrameShape' /\ Marks'
         /\ \A u : Called(u)' <=> Called(u) \/ u = t
    BY <1>3, <2>1, <2>2, <2>5, <2>12, PushKeeps
  <2> QED BY <2>7, <2>8, <2>9, <2>10, <2>13, <2>11
<1> QED BY <1>2, <1>3

LEMMA KillTimerKeeps ==
    ASSUME CallInv, NEW t \in Structs, KillTimer(t)
    PROVE  CallInv'
<1>1. /\ (Idle \/ InTimer \/ InEnd) /\ t \in Live /\ KillNow(t)
      /\ UNCHANGED <<lists, s_tokill, clocks, fresh, born>>
  BY DEF KillTimer, history
<1>2. t \in Used /\ (Idle \/ Top.at # "look" \/ Top.op = "sweep")
  BY <1>1 DEF InTimer, InEnd, Live, Used
<1>3. /\ timer' \in [Structs -> Fields] /\ stack' \in Seq(Frames)
      /\ EachInOneList' /\ IteratorsValid' /\ EndedOnce' /\ FrameShape' /\ Marks'
      /\ Live' = Live /\ Used' = Used
      /\ \A u \in Structs : timer'[u].nomap = timer[u].nomap
      /\ \A u \in Live : timer[u].ended = 1 => timer'[u].ended = 1
      /\ t \in Live /\ ~timer[t].inExec => timer'[t].ended = 1
      /\ Sweeping' <=> Sweeping
  BY <1>1, <1>2, KillNowKeeps
<1>5. SweepState'
  <2>1. UNCHANGED <<s_tokill, born>> /\ Live' \subseteq Live
    BY <1>1, <1>3
  <2> QED BY <1>3, <2>1, SweepStays
<1>6. TimerTypeOK'
  <2>1. /\ m_SingleTimers' \in Seq(Structs) /\ m_LoopTimers' \in Seq(Structs)
        /\ m_FreeTimers' \in Seq(Structs) /\ s_tokill' \in Seq(Structs)
        /\ fresh' \subseteq Structs /\ born' \subseteq Structs
    BY <1>1, TypesAre DEF CallInv, TimerInv, lists, TimerTypeOK
  <2>2. TimerTypeOK /\ UNCHANGED clocks
    BY <1>1 DEF CallInv, TimerInv
  <2> QED BY <1>3, <2>1, <2>2, TypesNext
<1>7. ClockAhead'
  BY <1>1 DEF CallInv, ClockAhead, clocks
<1> QED BY <1>3, <1>5, <1>6, <1>7 DEF CallInv, TimerInv

LEMMA RemoveKeeps ==
    ASSUME CallInv, RemoveMapChangeTimers
    PROVE  CallInv'
<1>1. /\ Looks("sweep") /\ s_tokill # <<>> /\ s_tokill' = Tail(s_tokill)
      /\ KillNow(Head(s_tokill)) /\ UNCHANGED <<lists, clocks, fresh, born>>
  BY DEF RemoveMapChangeTimers, history
<1>2. PICK t : t = Head(s_tokill)
  OBVIOUS
<1>3. /\ ToSet(s_tokill) = {t} \cup ToSet(Tail(s_tokill)) /\ Tail(s_tokill) \in Seq(Structs)
      /\ ToSet(s_tokill) \subseteq Structs /\ Live \subseteq Structs
  <2>1. s_tokill \in Seq(Structs) /\ ToSet(s_tokill) \subseteq Structs /\ Live \subseteq Structs
    BY TypesAre DEF CallInv, TimerInv
  <2> QED BY <1>1, <1>2, <2>1, HeadTailIs
<1>4. t \in Used /\ Top.op = "sweep" /\ t \in Structs
  BY <1>1, <1>3 DEF Looks, CallInv, SweepState
<1>5. /\ timer' \in [Structs -> Fields] /\ stack' \in Seq(Frames)
      /\ EachInOneList' /\ IteratorsValid' /\ EndedOnce' /\ FrameShape' /\ Marks'
      /\ Live' = Live /\ Used' = Used
      /\ \A u \in Structs : timer'[u].nomap = timer[u].nomap
      /\ \A u \in Live : timer[u].ended = 1 => timer'[u].ended = 1
      /\ t \in Live /\ ~timer[t].inExec => timer'[t].ended = 1
      /\ Sweeping' <=> Sweeping
  BY <1>1, <1>2, <1>4, KillNowKeeps
<1>6. Sweeping
  BY <1>1 DEF CallInv, SweepState
<1>7. t \in Live => ~timer[t].inExec
  <2>1. stack # <<>> /\ Top.at = "look"
    BY <1>1 DEF Looks, Idle
  <2>2. Len(stack) = 1 /\ Top = stack[1] /\ DOMAIN stack = 1..1
    BY <2>1, TopIs
  <2>3. \A k \in 1..1 : k = 1
    OBVIOUS
  <2>4. ~Called(t)
    BY <2>1, <2>2, <2>3 DEF Called, Calling
  <2> QED BY <2>4 DEF CallInv, Marks
<1>8. SweepState'
  <2>1. \A u \in ToSet(s_tokill)' : u \in Used' /\ (timer'[u].nomap \/ u \in born')
    BY <1>1, <1>3, <1>5 DEF CallInv, SweepState
  <2>2. \A u \in Live' : timer'[u].nomap =>
           u \in ToSet(s_tokill)' \cup born' \/ timer'[u].ended = 1
    <3>1. ASSUME NEW u \in Live, timer[u].nomap
          PROVE  u \in ToSet(Tail(s_tokill)) \cup born \/ timer'[u].ended = 1
      <4>1. u \in ToSet(s_tokill) \cup born \/ timer[u].ended = 1
        BY <1>6, <3>1 DEF CallInv, SweepState
      <4> QED BY <1>3, <1>5, <1>7, <4>1
    <3> QED BY <1>1, <1>3, <1>5, <3>1
  <2> QED BY <1>5, <1>6, <2>1, <2>2 DEF SweepState
<1>9. TimerTypeOK'
  <2>1. /\ m_SingleTimers' \in Seq(Structs) /\ m_LoopTimers' \in Seq(Structs)
        /\ m_FreeTimers' \in Seq(Structs) /\ s_tokill' \in Seq(Structs)
        /\ fresh' \subseteq Structs /\ born' \subseteq Structs
    BY <1>1, <1>3, TypesAre DEF CallInv, TimerInv, lists, TimerTypeOK
  <2>2. TimerTypeOK /\ UNCHANGED clocks
    BY <1>1 DEF CallInv, TimerInv
  <2> QED BY <1>5, <2>1, <2>2, TypesNext
<1>10. ClockAhead'
  BY <1>1 DEF CallInv, ClockAhead, clocks
<1> QED BY <1>5, <1>8, <1>9, <1>10 DEF CallInv, TimerInv

-----------------------------------------------------------------------------
LEMMA FireKeeps ==
    ASSUME CallInv, NEW t \in Structs, NEW d \in BOOLEAN, FireTimerOnce(t, d)
    PROVE  CallInv'
<1> DEFINE f == Frame("fire", t, "timer", d)
<1>1. /\ (Idle \/ InTimer \/ InEnd) /\ t \in Live /\ ~timer[t].inExec
      /\ timer' = [timer EXCEPT ![t].inExec = TRUE] /\ Push(f)
      /\ UNCHANGED <<lists, s_tokill, clocks, fresh, born>>
  BY DEF FireTimerOnce, history
<1>2. Idle \/ Top.at # "look" \/ Top.op = "sweep"
  BY <1>1 DEF InTimer, InEnd
<1>3. f.at = "timer" /\ f.op = "fire" /\ f \in Frames
      /\ f \in {Frame("kill", t, "end", FALSE)} \cup {Frame("fire", t, "timer", e) : e \in BOOLEAN}
  BY DEF Frame, Frames
<1>4. timer[t].ended = 0
  <2>1. \A k \in 1..Len(stack) : ~(stack[k].t = t /\ stack[k].at = "end")
    BY <1>1, OpenIs
  <2> QED BY <1>1, <2>1, NotEnded
<1>5. Sets(t, TRUE, timer[t].killMe, IF f.at = "end" THEN 1 ELSE 0)
  BY <1>1, <1>3, <1>4, RunningIs DEF CallInv, TimerInv
<1> HIDE DEF f
<1>7. /\ timer' \in [Structs -> Fields] /\ stack' \in Seq(Frames)
      /\ EachInOneList' /\ IteratorsValid' /\ EndedOnce' /\ FrameShape' /\ Marks'
  BY <1>1, <1>2, <1>3, <1>5, PushKeeps
<1>8. Sweeping' <=> Sweeping
  <2>1. /\ Len(stack) \in Nat /\ stack'[Len(stack) + 1] = f
        /\ \A k \in 1..Len(stack) : stack'[k] = stack[k]
        /\ stack = <<>> <=> Len(stack) = 0
        /\ stack' # <<>>
    BY <1>1, <1>3, PushIs, StackIs, EmptySeq DEF CallInv, TimerInv
  <2>2. CASE Len(stack) = 0
    BY <1>3, <2>1, <2>2 DEF Sweeping, Idle
  <2>3. CASE Len(stack) # 0
    <3>1. 1 \in 1..Len(stack) /\ stack # <<>>
      BY <2>1, <2>3
    <3>2. stack'[1] = stack[1]
      BY <2>1, <3>1
    <3> QED BY <2>1, <3>1, <3>2 DEF Sweeping, Idle
  <2> QED BY <2>2, <2>3
<1>9. SweepState'
  <2>1. \A u \in Structs : timer'[u].repeat = timer[u].repeat /\ timer'[u].nomap = timer[u].nomap
    BY <1>5, SetsStay
  <2>2. Live' = Live /\ Used' = Used
    BY <1>1, <2>1, ListsStay
  <2>3. \A u \in Live' : timer[u].ended = 1 => timer'[u].ended = 1
    <3>1. Live \subseteq Structs
      BY TypesAre DEF CallInv, TimerInv
    <3> QED BY <1>4, <1>5, <2>2, <3>1 DEF Sets
  <2>4. UNCHANGED <<s_tokill, born>> /\ Live' \subseteq Live
    BY <1>1, <2>2
  <2> QED BY <1>8, <2>1, <2>2, <2>3, <2>4, SweepStays
<1>10. TimerTypeOK'
  <2>1. /\ m_SingleTimers' \in Seq(Structs) /\ m_LoopTimers' \in Seq(Structs)
        /\ m_FreeTimers' \in Seq(Structs) /\ s_tokill' \in Seq(Structs)
        /\ fresh' \subseteq Structs /\ born' \subseteq Structs
    BY <1>1, TypesAre DEF CallInv, TimerInv, lists, TimerTypeOK
  <2>2. TimerTypeOK /\ UNCHANGED clocks
    BY <1>1 DEF CallInv, TimerInv
  <2> QED BY <1>7, <2>1, <2>2, TypesNext
<1>11. ClockAhead'
  BY <1>1 DEF CallInv, ClockAhead, clocks
<1> QED BY <1>7, <1>9, <1>10, <1>11 DEF CallInv, TimerInv

(* What CreateTimer() changes: a struct that is in no list of timers gets new
   values, leaves the free structs and joins one of the lists. *)
LEMMA CreateIs ==
    ASSUME CallInv, NEW kind \in Kinds, CreateTimer(kind)
    PROVE  \E t \in Structs :
             /\ t \notin Live
             /\ timer' \in [Structs -> Fields]
             /\ \A u \in Structs : u # t => timer'[u] = timer[u]
             /\ ~timer'[t].inExec /\ ~timer'[t].killMe /\ timer'[t].ended = 0
             /\ timer'[t].repeat = kind.repeat /\ timer'[t].exec = time + kind.interval
             /\ m_SingleTimers' \in Seq(Structs) /\ m_LoopTimers' \in Seq(Structs)
             /\ m_FreeTimers' \in Seq(Structs)
             /\ IsInjective(m_FreeTimers)' /\ ToSet(m_FreeTimers)' = ToSet(m_FreeTimers) \ {t}
             /\ IF kind.repeat
                THEN m_LoopTimers' = Append(m_LoopTimers, t) /\ UNCHANGED m_SingleTimers
                ELSE InsertSorted(t, time + kind.interval) /\ UNCHANGED m_LoopTimers
             /\ fresh' = fresh \cup {t} /\ born' = IF Sweeping THEN born \cup {t} ELSE born
<1> DEFINE exec == time + kind.interval
<1>0. PICK t : t = IF m_FreeTimers = <<>> THEN NewStruct ELSE Head(m_FreeTimers)
  OBVIOUS
<1>1. /\ m_FreeTimers # <<>> \/ Structs \ Used # {}
      /\ timer' = [timer EXCEPT ![t] = Initialize(kind, exec)]
      /\ m_FreeTimers' = IF m_FreeTimers = <<>> THEN <<>> ELSE Tail(m_FreeTimers)
      /\ IF kind.repeat
         THEN m_LoopTimers' = Append(m_LoopTimers, t) /\ UNCHANGED m_SingleTimers
         ELSE InsertSorted(t, exec) /\ UNCHANGED m_LoopTimers
      /\ fresh' = fresh \cup {t} /\ born' = IF Sweeping THEN born \cup {t} ELSE born
  BY <1>0 DEF CreateTimer
<1>2. /\ timer \in [Structs -> Fields] /\ time \in Nat
      /\ m_SingleTimers \in Seq(Structs) /\ m_LoopTimers \in Seq(Structs)
      /\ m_FreeTimers \in Seq(Structs) /\ IsInjective(m_FreeTimers)
  BY TypesAre DEF CallInv, TimerInv, TimerTypeOK, EachInOneList
<1>3. /\ t \in Structs /\ t \notin Live /\ m_FreeTimers' \in Seq(Structs)
      /\ IsInjective(m_FreeTimers') /\ ToSet(m_FreeTimers') = ToSet(m_FreeTimers) \ {t}
  <2>1. CASE m_FreeTimers = <<>>
    <3>1. m_FreeTimers' = <<>> /\ t = NewStruct /\ Structs \ Used # {}
      BY <1>0, <1>1, <2>1
    <3>2. t \in Structs /\ t \notin Used
      BY <3>1, NewStructIs
    <3> QED BY <1>2, <2>1, <3>1, <3>2, EmptyIs DEF Live, Used
  <2>2. CASE m_FreeTimers # <<>>
    <3>1. m_FreeTimers' = Tail(m_FreeTimers) /\ t = Head(m_FreeTimers)
      BY <1>0, <1>1, <2>2
    <3>2. /\ t \in Structs /\ Tail(m_FreeTimers) \in Seq(Structs) /\ t \in ToSet(m_FreeTimers)
          /\ ToSet(Tail(m_FreeTimers)) = ToSet(m_FreeTimers) \ {t} /\ IsInjective(Tail(m_FreeTimers))
      BY <1>2, <2>2, <3>1, PopOnce
    <3> QED BY <3>1, <3>2 DEF CallInv, TimerInv, EachInOneList
  <2> QED BY <2>1, <2>2
<1>4. kind.interval \in Nat /\ kind.repeat \in BOOLEAN /\ kind.nomap \in BOOLEAN
  BY TimerConstants
<1>5. exec \in Nat
  BY <1>2, <1>4
<1> HIDE DEF exec
<1>6. /\ Initialize(kind, exec) \in Fields /\ ~Initialize(kind, exec).inExec
      /\ ~Initialize(kind, exec).killMe /\ Initialize(kind, exec).ended = 0
      /\ Initialize(kind, exec).repeat = kind.repeat /\ Initialize(kind, exec).exec = exec
  BY <1>4, <1>5 DEF Initialize, Fields
<1>7. /\ timer' \in [Structs -> Fields] /\ \A u \in Structs : u # t => timer'[u] = timer[u]
      /\ timer'[t] = Initialize(kind, exec)
  BY <1>1, <1>2, <1>3, <1>6
<1>8. m_SingleTimers' \in Seq(Structs) /\ m_LoopTimers' \in Seq(Structs)
  <2>1. CASE kind.repeat
    <3>1. m_LoopTimers' = Append(m_LoopTimers, t) /\ m_SingleTimers' = m_SingleTimers
      BY <1>1, <2>1
    <3> QED BY <1>2, <1>3, <3>1, AppendIs
  <2>2. CASE ~kind.repeat
    <3>1. TimerTypeOK /\ InsertSorted(t, exec) /\ m_LoopTimers' = m_LoopTimers
      BY <1>1, <2>2 DEF CallInv, TimerInv
    <3>2. m_SingleTimers' \in Seq(Structs)
      BY <1>3, <1>5, <3>1, InsertIs
    <3> QED BY <1>2, <3>1, <3>2
  <2> QED BY <2>1, <2>2
<1> QED BY <1>1, <1>3, <1>6, <1>7, <1>8 DEF exec

LEMMA CreateKeeps ==
    ASSUME CallInv, NEW kind \in Kinds, CreateTimer(kind)
    PROVE  CallInv'
<1>1. PICK t \in Structs :
         /\ t \notin Live
         /\ timer' \in [Structs -> Fields]
         /\ \A u \in Structs : u # t => timer'[u] = timer[u]
         /\ ~timer'[t].inExec /\ ~timer'[t].killMe /\ timer'[t].ended = 0
         /\ timer'[t].repeat = kind.repeat /\ timer'[t].exec = time + kind.interval
         /\ m_SingleTimers' \in Seq(Structs) /\ m_LoopTimers' \in Seq(Structs)
         /\ m_FreeTimers' \in Seq(Structs)
         /\ IsInjective(m_FreeTimers)' /\ ToSet(m_FreeTimers)' = ToSet(m_FreeTimers) \ {t}
         /\ IF kind.repeat
            THEN m_LoopTimers' = Append(m_LoopTimers, t) /\ UNCHANGED m_SingleTimers
            ELSE InsertSorted(t, time + kind.interval) /\ UNCHANGED m_LoopTimers
         /\ fresh' = fresh \cup {t} /\ born' = IF Sweeping THEN born \cup {t} ELSE born
  BY CreateIs
<1>2. UNCHANGED <<stack, s_tokill, clocks>>
  BY DEF CreateTimer
<1>3. /\ ToSet(m_SingleTimers) \subseteq Structs /\ ToSet(m_LoopTimers) \subseteq Structs
      /\ ToSet(m_FreeTimers) \subseteq Structs /\ Live \subseteq Structs
      /\ m_SingleTimers \in Seq(Structs) /\ m_LoopTimers \in Seq(Structs)
      /\ time \in Nat /\ kind.interval \in Nat /\ kind.repeat \in BOOLEAN
  <2>1. TimerTypeOK /\ time \in Nat
    BY DEF CallInv, TimerInv, TimerTypeOK
  <2>2. kind.interval \in Nat /\ kind.repeat \in BOOLEAN
    BY TimerConstants
  <2> QED BY <2>1, <2>2, TypesAre
<1>4. /\ IsInjective(m_SingleTimers)' /\ IsInjective(m_LoopTimers)'
      /\ ToSet(m_SingleTimers)' = ToSet(m_SingleTimers) \cup (IF kind.repeat THEN {} ELSE {t})
      /\ ToSet(m_LoopTimers)' = ToSet(m_LoopTimers) \cup (IF kind.repeat THEN {t} ELSE {})
  <2>1. /\ IsInjective(m_SingleTimers) /\ IsInjective(m_LoopTimers)
        /\ t \notin ToSet(m_SingleTimers) /\ t \notin ToSet(m_LoopTimers)
    BY <1>1 DEF CallInv, TimerInv, EachInOneList, Live
  <2>2. CASE kind.repeat
    <3>1. m_LoopTimers' = Append(m_LoopTimers, t) /\ m_SingleTimers' = m_SingleTimers
      BY <1>1, <2>2
    <3>2. /\ IsInjective(Append(m_LoopTimers, t))
          /\ ToSet(Append(m_LoopTimers, t)) = ToSet(m_LoopTimers) \cup {t}
      BY <1>3, <2>1, PushOnce
    <3> QED BY <2>1, <2>2, <3>1, <3>2
  <2>3. CASE ~kind.repeat
    <3>1. InsertSorted(t, time + kind.interval) /\ m_LoopTimers' = m_LoopTimers
      BY <1>1, <2>3
    <3>2. TimerTypeOK /\ time + kind.interval \in Nat
      BY <1>3 DEF CallInv, TimerInv
    <3> DEFINE e == time + kind.interval
    <3> HIDE DEF e
    <3>3a. InsertSorted(t, e) /\ e \in Nat
      BY <3>1, <3>2 DEF e
    <3>3b. /\ m_SingleTimers' \in Seq(Structs)
           /\ ToSet(m_SingleTimers)' = ToSet(m_SingleTimers) \cup {t}
           /\ \E A, B : 
                 /\ A \cup B = ToSet(m_SingleTimers)
                 /\ \A u, v : Precedes(m_SingleTimers, u, v)' <=>
                       \/ Precedes(m_SingleTimers, u, v)
                       \/ u \in A /\ v = t
                       \/ u = t /\ v \in B
                 /\ Sorted => /\ \A u \in A : timer[u].exec <= e
                              /\ \A v \in B : e <= timer[v].exec
      BY <3>2, <3>3a, InsertIs
    <3>3. PICK A, B :
             /\ A \cup B = ToSet(m_SingleTimers)
             /\ \A u, v : Precedes(m_SingleTimers, u, v)' <=>
                   \/ Precedes(m_SingleTimers, u, v)
                   \/ u \in A /\ v = t
                   \/ u = t /\ v \in B
      BY <3>3b
    <3>4. \A u \in ToSet(m_SingleTimers) : ~Precedes(m_SingleTimers, u, u)
      BY <1>3, <2>1, InjectiveIs
    <3>5. \A u : ~Precedes(m_SingleTimers, u, u)
      BY <3>4, PrecedesIn
    <3>6. \A u : ~Precedes(m_SingleTimers, u, u)'
      BY <2>1, <3>3, <3>5
    <3>7. PICK r : r = m_SingleTimers'
      OBVIOUS
    <3>8. IsInjective(r)
      <4>1. r \in Seq(Structs) /\ \A u \in ToSet(r) : ~Precedes(r, u, u)
        BY <3>3b, <3>6, <3>7
      <4> QED BY <4>1, InjectiveIs
    <3> QED BY <2>1, <2>3, <3>1, <3>3b, <3>7, <3>8
  <2> QED BY <1>3, <2>2, <2>3
<1>5. Live' = Live \cup {t} /\ Used' = Used \cup {t}
  BY <1>1, <1>3, <1>4 DEF Live, Used
<1>6. EachInOneList'
  <2>1. ToSet(m_SingleTimers)' \cap ToSet(m_LoopTimers)' = {} /\ Live' \cap ToSet(m_FreeTimers)' = {}
    BY <1>1, <1>3, <1>4, <1>5 DEF CallInv, TimerInv, EachInOneList, Live
  <2>2. ASSUME NEW u \in ToSet(m_LoopTimers)' PROVE timer'[u].repeat
    <3>1. (u = t /\ kind.repeat) \/ (u \in ToSet(m_LoopTimers) /\ u # t)
      BY <1>1, <1>3, <1>4 DEF Live
    <3> QED BY <1>1, <1>3, <3>1 DEF CallInv, TimerInv, EachInOneList
  <2>3. ASSUME NEW u \in ToSet(m_SingleTimers)' PROVE ~timer'[u].repeat
    <3>1. (u = t /\ ~kind.repeat) \/ (u \in ToSet(m_SingleTimers) /\ u # t)
      BY <1>1, <1>3, <1>4 DEF Live
    <3> QED BY <1>1, <1>3, <3>1 DEF CallInv, TimerInv, EachInOneList
  <2> QED BY <1>1, <1>4, <2>1, <2>2, <2>3 DEF EachInOneList
<1>7. DOMAIN stack = 1..Len(stack) /\ \A k \in 1..Len(stack) : stack[k].t # t
  <2>1. t # NULL /\ DOMAIN stack = 1..Len(stack)
    BY TimerConstants, StackIs DEF CallInv, TimerInv
  <2> QED BY <1>1, <2>1, OpenIs
<1>8. \A u : (Called(u)' <=> Called(u)) /\ ~Called(t)
  BY <1>2, <1>7 DEF Called, Calling
<1>9. IteratorsValid' /\ FrameShape'
  <2>1. /\ ToSet(m_SingleTimers) \subseteq ToSet(m_SingleTimers)'
        /\ ToSet(m_LoopTimers) \subseteq ToSet(m_LoopTimers)' /\ Live \subseteq Live'
    BY <1>4, <1>5
  <2> QED BY <1>2, <2>1 DEF CallInv, TimerInv, IteratorsValid, FrameShape, Calling
<1>10. EndedOnce'
  <2>1. \A u \in ToSet(m_FreeTimers)' : timer'[u].ended = 1
    BY <1>1, <1>3 DEF CallInv, TimerInv, EndedOnce
  <2>2. ASSUME NEW u \in Live'
        PROVE  timer'[u].ended = 1 <=> \E k \in DOMAIN stack : stack[k].t = u /\ stack[k].at = "end"
    <3>1. CASE u = t
      BY <1>1, <1>7, <3>1
    <3>2. CASE u # t
      BY <1>1, <1>3, <1>5, <3>2 DEF CallInv, TimerInv, EndedOnce
    <3> QED BY <3>1, <3>2
  <2> QED BY <1>2, <2>1, <2>2 DEF EndedOnce
<1>11. Marks'
  <2>1. ASSUME NEW u \in Live' PROVE timer'[u].inExec <=> Called(u)'
    <3>1. CASE u = t
      BY <1>1, <1>8, <3>1
    <3>2. CASE u # t
      BY <1>1, <1>3, <1>5, <1>8, <3>2 DEF CallInv, Marks
    <3> QED BY <3>1, <3>2
  <2>2. \A u \in ToSet(m_FreeTimers)' : timer'[u].inExec
    BY <1>1, <1>3 DEF CallInv, Marks
  <2>3. \A u \in Used' : timer'[u].killMe => timer'[u].inExec
    <3>1. Used \subseteq Structs
      BY TypesAre DEF CallInv, TimerInv
    <3> QED BY <1>1, <1>5, <3>1 DEF CallInv, Marks
  <2> QED BY <2>1, <2>2, <2>3 DEF Marks
<1>12. SweepState'
  <2>1. (Sweeping' <=> Sweeping) /\ s_tokill' = s_tokill /\ ToSet(s_tokill) \subseteq Structs
    BY <1>2, TypesAre DEF Sweeping, Idle, CallInv, TimerInv
  <2>2. CASE ~Sweeping
    <3>1. s_tokill' = <<>>
      BY <2>1, <2>2 DEF CallInv, SweepState
    <3> QED BY <2>1, <2>2, <3>1, EmptyIs DEF SweepState
  <2>3. CASE Sweeping
    <3>1. born' = born \cup {t}
      BY <1>1, <2>3
    <3>2. \A u \in ToSet(s_tokill)' : u \in Used' /\ (timer'[u].nomap \/ u \in born')
      BY <1>1, <1>5, <2>1, <3>1 DEF CallInv, SweepState
    <3>3. \A u \in Live' : timer'[u].nomap =>
             u \in ToSet(s_tokill)' \cup born' \/ timer'[u].ended = 1
      BY <1>1, <1>3, <1>5, <2>1, <2>3, <3>1 DEF CallInv, SweepState
    <3> QED BY <2>1, <2>3, <3>2, <3>3 DEF SweepState
  <2> QED BY <2>2, <2>3
<1>13. TimerTypeOK'
  <2>1. TimerTypeOK /\ UNCHANGED clocks /\ fresh' \subseteq Structs /\ born' \subseteq Structs
    BY <1>1, <1>2 DEF CallInv, TimerInv, TimerTypeOK
  <2>2. s_tokill' \in Seq(Structs) /\ stack' \in Seq(Frames)
    BY <1>2, TypesAre, StackIs DEF CallInv, TimerInv
  <2> QED BY <1>1, <2>1, <2>2, TypesNext
<1>14. ClockAhead'
  BY <1>2 DEF CallInv, ClockAhead, clocks
<1> QED BY <1>6, <1>9, <1>10, <1>11, <1>12, <1>13, <1>14 DEF CallInv, TimerInv

-----------------------------------------------------------------------------
(* The innermost call goes on from one callback to the next of the same timer
   (OnTimer() to OnTimerEnd(), or RunFrame() enters OnTimer()), and no list
   changes. *)
LEMMA EnterKeeps ==
    ASSUME CallInv, stack # <<>>, Top.t # NULL, UNCHANGED <<lists, s_tokill, clocks, fresh, born>>,
           NEW a \in {"timer", "end"}, Goto([Top EXCEPT !.at = a]),
           Top.op \in {"single", "loop", "fire"},
           (Top.at = "look" /\ a = "timer") \/ (Top.at = "timer" /\ a = "end"),
           Sets(Top.t, TRUE, timer[Top.t].killMe, IF a = "end" THEN 1 ELSE 0)
    PROVE  CallInv'
<1> PICK n, t : n = Len(stack) /\ t = Top.t
  OBVIOUS
<1>1. /\ n \in Nat /\ n >= 1 /\ n \in 1..n /\ DOMAIN stack = 1..n
      /\ Top = stack[n] /\ stack[n] \in Frames /\ stack[n].t = t
      /\ t \in Live /\ t \in Structs /\ t # NULL
      /\ \A k \in 1..(n - 1) : k \in 1..n /\ k # n /\ stack[k].t # t
      /\ \A k \in 1..n : k \in 1..(n - 1) \/ k = n
      /\ stack[n].op \in {"single", "loop", "sweep"} => n = 1
  BY TopIs
<1>2. PICK f : f = [stack[n] EXCEPT !.at = a]
  OBVIOUS
<1>3. f \in Frames /\ f.t = t /\ f.op = stack[n].op /\ f.at = a
  BY <1>1, <1>2 DEF Frames
<1>4. /\ stack' \in Seq(Frames) /\ Len(stack') = n /\ DOMAIN stack' = 1..n /\ stack'[n] = f
      /\ \A k \in 1..(n - 1) : stack'[k] = stack[k]
  BY <1>1, <1>2, <1>3, GotoIs DEF CallInv, TimerInv
<1>5. \A u \in Structs : timer'[u].repeat = timer[u].repeat /\ timer'[u].nomap = timer[u].nomap
  BY <1>1, SetsStay
<1>6. /\ EachInOneList' /\ Used' = Used /\ Live' = Live
      /\ ToSet(m_SingleTimers)' = ToSet(m_SingleTimers)
      /\ ToSet(m_LoopTimers)' = ToSet(m_LoopTimers)
      /\ ToSet(m_FreeTimers)' = ToSet(m_FreeTimers)
  BY <1>5, ListsStay
<1>7. /\ timer' \in [Structs -> Fields] /\ timer'[t].inExec
      /\ timer'[t].ended = 1 <=> a = "end"
      /\ \A u \in Structs : u # t => timer'[u] = timer[u]
  BY DEF Sets
<1>8. \A u : Called(u)' <=> Called(u) \/ u = t
  BY <1>1, <1>3, <1>4 DEF Called, Calling
<1>9. IteratorsValid'
  <2>1. ASSUME NEW k \in 1..n, stack'[k].t # NULL
        PROVE  stack'[k].t \in CASE stack'[k].op = "single" -> ToSet(m_SingleTimers)
                                 [] stack'[k].op = "loop"   -> ToSet(m_LoopTimers)
                                 [] OTHER -> Live
    <3>1. stack'[k].t = stack[k].t /\ stack'[k].op = stack[k].op
      BY <1>1, <1>3, <1>4
    <3> QED BY <1>1, <2>1, <3>1 DEF CallInv, TimerInv, IteratorsValid
  <2>2. ASSUME NEW i \in 1..n, NEW k \in 1..n, stack'[i].t = stack'[k].t,
               stack'[i].at # "look", stack'[k].at # "look"
        PROVE  i = k
    <3>1. CASE i # n /\ k # n
      BY <1>1, <1>4, <2>2, <3>1 DEF CallInv, TimerInv, IteratorsValid, Calling
    <3>2. CASE i = n \/ k = n
      BY <1>1, <1>3, <1>4, <2>2, <3>2
    <3> QED BY <3>1, <3>2
  <2> QED BY <1>4, <1>6, <2>1, <2>2 DEF IteratorsValid, Calling
<1>10. EndedOnce'
  <2>1. ASSUME NEW u \in ToSet(m_FreeTimers) PROVE timer'[u].ended = 1
    <3>1. u # t /\ u \in Structs
      BY <1>1, TypesAre DEF CallInv, TimerInv, EachInOneList
    <3> QED BY <1>7, <3>1 DEF CallInv, TimerInv, EndedOnce
  <2>2. ASSUME NEW u \in Live
        PROVE  timer'[u].ended = 1 <=> \E k \in 1..n : stack'[k].t = u /\ stack'[k].at = "end"
    <3>1. CASE u = t
      <4>1. (\E k \in 1..n : stack'[k].t = u /\ stack'[k].at = "end") <=> a = "end"
        BY <1>1, <1>3, <1>4, <3>1
      <4> QED BY <1>7, <3>1, <4>1
    <3>2. CASE u # t
      <4>1. timer'[u] = timer[u]
        BY <1>7, <3>2, TypesAre DEF CallInv, TimerInv
      <4>2. timer[u].ended = 1 <=> \E k \in 1..n : stack[k].t = u /\ stack[k].at = "end"
        BY <1>1 DEF CallInv, TimerInv, EndedOnce
      <4>3. (\E k \in 1..n : stack'[k].t = u /\ stack'[k].at = "end") 
               <=> \E k \in 1..n : stack[k].t = u /\ stack[k].at = "end"
        BY <1>1, <1>3, <1>4, <3>2
      <4> QED BY <4>1, <4>2, <4>3
    <3> QED BY <3>1, <3>2
  <2> QED BY <1>4, <1>6, <2>1, <2>2 DEF EndedOnce
<1>11. FrameShape'
  <2>1. ASSUME NEW k \in 1..n
        PROVE  /\ k # 1 => stack'[k].op \in {"fire", "kill"}
               /\ stack'[k].op = "fire" => stack'[k].at \in {"timer", "end"}
               /\ stack'[k].op = "kill" => stack'[k].at = "end"
               /\ stack'[k].op = "sweep" => stack'[k].at = "look" /\ stack'[k].t = NULL
               /\ stack'[k].at # "look" => stack'[k].t # NULL
               /\ stack'[k].op \in {"single", "loop"} /\ stack'[k].at = "look" => k = n
    <3>1. CASE k = n
      BY <1>1, <1>3, <1>4, <3>1
    <3>2. CASE k \in 1..(n - 1)
      BY <1>1, <1>4, <3>2 DEF CallInv, FrameShape
    <3> QED BY <1>1, <3>1, <3>2
  <2> QED BY <1>4, <2>1 DEF FrameShape
<1>12. Marks'
  <2>1. ASSUME NEW u \in Live PROVE timer'[u].inExec <=> Called(u)'
    <3>1. CASE u = t
      BY <1>7, <1>8, <3>1
    <3>2. CASE u # t
      BY <1>7, <1>8, <3>2, TypesAre DEF CallInv, TimerInv, Marks
    <3> QED BY <3>1, <3>2
  <2>2. Used \subseteq Structs /\ ToSet(m_FreeTimers) \subseteq Structs
    BY TypesAre DEF CallInv, TimerInv
  <2>3. \A u \in ToSet(m_FreeTimers) : timer'[u].inExec
    BY <1>7, <2>2 DEF CallInv, Marks
  <2>4. \A u \in Used : timer'[u].killMe => timer'[u].inExec
    BY <1>7, <2>2 DEF CallInv, Marks
  <2> QED BY <1>6, <2>1, <2>3, <2>4 DEF Marks
<1>13. SweepState'
  <2>1. Sweeping' <=> Sweeping
    <3>1. stack # <<>> /\ stack' # <<>>
      BY <1>1, <1>4, EmptySeq
    <3>2. stack'[1].op = stack[1].op
      <4>1. 1 \in 1..n
        BY <1>1
      <4> QED BY <1>1, <1>3, <1>4, <4>1
    <3> QED BY <3>1, <3>2 DEF Sweeping, Idle
  <2>2. \A u \in Live' : timer[u].ended = 1 => timer'[u].ended = 1
    <3>1. timer[t].ended = 0 \/ a = "end"
      <4>1. a = "timer" => \A k \in 1..Len(stack) : ~(stack[k].t = t /\ stack[k].at = "end")
        BY <1>1
      <4> QED BY <1>1, <4>1, NotEnded
    <3> QED BY <1>6, <1>7, <3>1, TypesAre DEF CallInv, TimerInv
  <2>3. UNCHANGED <<s_tokill, born>> /\ Live' \subseteq Live
    BY <1>6
  <2> QED BY <1>5, <1>6, <2>1, <2>2, <2>3, SweepStays
<1>14. TimerTypeOK'
  <2>1. /\ m_SingleTimers' \in Seq(Structs) /\ m_LoopTimers' \in Seq(Structs)
        /\ m_FreeTimers' \in Seq(Structs) /\ s_tokill' \in Seq(Structs)
        /\ fresh' \subseteq Structs /\ born' \subseteq Structs
    BY TypesAre DEF CallInv, TimerInv, lists, TimerTypeOK
  <2>2. TimerTypeOK /\ UNCHANGED clocks
    BY DEF CallInv, TimerInv
  <2> QED BY <1>4, <1>7, <2>1, <2>2, TypesNext
<1>15. ClockAhead'
  BY DEF CallInv, ClockAhead, clocks
<1> QED BY <1>6, <1>9, <1>10, <1>11, <1>12, <1>13, <1>14, <1>15 DEF CallInv, TimerInv

(* The innermost call is done with its timer: KillTimer() or FireTimerOnce()
   returns, or RunFrame() goes on to v. *)
LeavesTo(v) ==
    \/ Top.op \in {"fire", "kill"} /\ Pop
    \/ /\ Top.op \in {"single", "loop"} /\ Goto(Frame(Top.op, v, "look", FALSE))
       /\ v # NULL => v \in (IF Top.op = "single" THEN ToSet(m_SingleTimers)'
                                                  ELSE ToSet(m_LoopTimers)')

LEMMA LeaveKeeps ==
    ASSUME CallInv, stack # <<>>, Top.at # "look", NEW v \in Structs \cup {NULL}, LeavesTo(v),
           ToSet(m_SingleTimers) \ {Top.t} \subseteq ToSet(m_SingleTimers)',
           ToSet(m_LoopTimers) \ {Top.t} \subseteq ToSet(m_LoopTimers)'
    PROVE  /\ stack' \in Seq(Frames) /\ FrameShape' /\ IteratorsValid'
           /\ \A u : Called(u)' <=> Called(u) /\ u # Top.t
           /\ \A u : (\E k \in DOMAIN stack' : stack'[k].t = u /\ stack'[k].at = "end") <=>
                     (u # Top.t /\ \E k \in DOMAIN stack : stack[k].t = u /\ stack[k].at = "end")
           /\ Sweeping' <=> Sweeping
<1> PICK n, t : n = Len(stack) /\ t = Top.t
  OBVIOUS
<1>1. /\ n \in Nat /\ n >= 1 /\ n \in 1..n /\ DOMAIN stack = 1..n
      /\ Top = stack[n] /\ stack[n] \in Frames /\ stack[n].t = t /\ stack[n].at # "look"
      /\ t \in Live /\ t \in Structs /\ t # NULL
      /\ \A k \in 1..(n - 1) : k \in 1..n /\ k # n /\ stack[k].t # t
      /\ \A k \in 1..n : k \in 1..(n - 1) \/ k = n
      /\ stack[n].op \in {"single", "loop", "sweep"} => n = 1
      /\ stack[n].op # "sweep"
  BY TopIs
<1>2. Live \ {t} \subseteq Live'
  BY DEF Live
<1>3. \A k \in 1..(n - 1) :
         /\ k # 1 => stack[k].op \in {"fire", "kill"}
         /\ stack[k].op = "fire" => stack[k].at \in {"timer", "end"}
         /\ stack[k].op = "kill" => stack[k].at = "end"
         /\ stack[k].op = "sweep" => stack[k].at = "look" /\ stack[k].t = NULL
         /\ stack[k].at # "look" => stack[k].t # NULL
         /\ ~(stack[k].op \in {"single", "loop"} /\ stack[k].at = "look")
         /\ stack[k].t # NULL => stack[k].t \in CASE stack[k].op = "single" -> ToSet(m_SingleTimers)'
                                                  [] stack[k].op = "loop"   -> ToSet(m_LoopTimers)'
                                                  [] OTHER -> Live'
  <2> SUFFICES ASSUME NEW k \in 1..(n - 1)
               PROVE /\ k # 1 => stack[k].op \in {"fire", "kill"}
                     /\ stack[k].op = "fire" => stack[k].at \in {"timer", "end"}
                     /\ stack[k].op = "kill" => stack[k].at = "end"
                     /\ stack[k].op = "sweep" => stack[k].at = "look" /\ stack[k].t = NULL
                     /\ stack[k].at # "look" => stack[k].t # NULL
                     /\ ~(stack[k].op \in {"single", "loop"} /\ stack[k].at = "look")
                     /\ stack[k].t # NULL =>
                           stack[k].t \in CASE stack[k].op = "single" -> ToSet(m_SingleTimers)'
                                            [] stack[k].op = "loop"   -> ToSet(m_LoopTimers)'
                                            [] OTHER -> Live'
    OBVIOUS
  <2>1. k \in DOMAIN stack /\ k # n /\ stack[k].t # t
    BY <1>1
  <2>2. stack[k].t # NULL => stack[k].t \in CASE stack[k].op = "single" -> ToSet(m_SingleTimers)
                                              [] stack[k].op = "loop"   -> ToSet(m_LoopTimers)
                                              [] OTHER -> Live
    BY <2>1 DEF CallInv, TimerInv, IteratorsValid
  <2>3. stack[k].t # NULL => stack[k].t \in CASE stack[k].op = "single" -> ToSet(m_SingleTimers)'
                                              [] stack[k].op = "loop"   -> ToSet(m_LoopTimers)'
                                              [] OTHER -> Live'
    BY <1>2, <2>1, <2>2
  <2> QED BY <2>1, <2>3 DEF CallInv, FrameShape
<1>4. \A i, k \in 1..(n - 1) : stack[i].t = stack[k].t /\ stack[i].at # "look" /\ stack[k].at # "look"
                               => i = k
  BY <1>1 DEF CallInv, TimerInv, IteratorsValid, Calling
<1>5. Sweeping => n # 1
  BY <1>1 DEF Sweeping, Idle
<1>6. CASE stack[n].op \in {"fire", "kill"} /\ Pop
  <2>1. /\ stack' \in Seq(Frames) /\ Len(stack') = n - 1 /\ DOMAIN stack' = 1..(n - 1)
        /\ \A k \in 1..(n - 1) : stack'[k] = stack[k]
    BY <1>6, PopIs DEF CallInv, TimerInv
  <2>2. \A u : Called(u)' <=> Called(u) /\ u # t
    BY <1>1, <2>1 DEF Called, Calling
  <2>3. \A u : (\E k \in DOMAIN stack' : stack'[k].t = u /\ stack'[k].at = "end") <=>
               (u # t /\ \E k \in DOMAIN stack : stack[k].t = u /\ stack[k].at = "end")
    BY <1>1, <2>1
  <2>4. FrameShape'
    BY <1>3, <2>1 DEF FrameShape
  <2>5. IteratorsValid'
    BY <1>3, <1>4, <2>1 DEF IteratorsValid, Calling
  <2>6. Sweeping' <=> Sweeping
    <3>1. CASE n = 1
      <4>1. stack' = <<>>
        BY <2>1, <3>1, EmptySeq
      <4> QED BY <1>5, <3>1, <4>1 DEF Sweeping, Idle
    <3>2. CASE n # 1
      <4>1. 1 \in 1..(n - 1) /\ n - 1 # 0
        BY <1>1, <3>2
      <4>2. stack'[1] = stack[1] /\ stack' # <<>>
        BY <2>1, <4>1, EmptySeq
      <4> QED BY <4>2 DEF Sweeping, Idle
    <3> QED BY <3>1, <3>2
  <2> QED BY <2>1, <2>2, <2>3, <2>4, <2>5, <2>6
<1>7. CASE stack[n].op \in {"single", "loop"}
  <2>1. n = 1 /\ 1..n = {1} /\ 1..(n - 1) = {}
    BY <1>1, <1>7
  <2>2. PICK f : f = Frame(stack[n].op, v, "look", FALSE)
    OBVIOUS
  <2>3. /\ f \in Frames /\ f.op = stack[n].op /\ f.t = v /\ f.at = "look"
    BY <1>1, <2>2 DEF Frame, Frames
  <2>4. Goto(f)
    BY <1>1, <1>7, <2>2 DEF LeavesTo
  <2>5. /\ stack' \in Seq(Frames) /\ Len(stack') = n /\ DOMAIN stack' = 1..n /\ stack'[n] = f
    BY <2>3, <2>4, GotoIs DEF CallInv, TimerInv
  <2>6. \A u : ~Called(u)' /\ (Called(u) => u = t)
    BY <1>1, <2>1, <2>3, <2>5 DEF Called, Calling
  <2>7. /\ \A u : ~\E k \in DOMAIN stack' : stack'[k].t = u /\ stack'[k].at = "end"
        /\ \A u : (\E k \in DOMAIN stack : stack[k].t = u /\ stack[k].at = "end") => u = t
    BY <1>1, <2>1, <2>3, <2>5
  <2>8. FrameShape'
    BY <1>7, <2>1, <2>3, <2>5 DEF FrameShape
  <2>9. IteratorsValid'
    <3>1. \A k \in DOMAIN stack' : stack'[k] = f /\ stack'[k].at = "look"
      BY <2>1, <2>3, <2>5
    <3>2. v # NULL => v \in (IF stack[n].op = "single" THEN ToSet(m_SingleTimers)'
                                                       ELSE ToSet(m_LoopTimers)')
      BY <1>1, <1>7 DEF LeavesTo
    <3>3. f.t # NULL => f.t \in CASE f.op = "single" -> ToSet(m_SingleTimers)'
                                  [] f.op = "loop"   -> ToSet(m_LoopTimers)'
                                  [] OTHER -> Live'
      BY <1>7, <2>3, <3>2
    <3> QED BY <3>1, <3>3 DEF IteratorsValid, Calling
  <2>10. ~Sweeping /\ ~Sweeping'
    BY <1>5, <1>7, <2>1, <2>3, <2>5 DEF Sweeping, Idle
  <2> QED BY <2>5, <2>6, <2>7, <2>8, <2>9, <2>10
<1> QED BY <1>1, <1>6, <1>7 DEF LeavesTo

(* A repeating timer that is armed again: only its mark and its due time
   change. *)
LEMMA RearmIs ==
    ASSUME CallInv, NEW t \in Structs, ~timer[t].killMe, timer[t].ended = 0, Rearm(t)
    PROVE  Sets(t, FALSE, FALSE, 0)
<1>1. timer \in [Structs -> Fields] /\ timer[t] \in Fields
  BY TypesAre DEF CallInv, TimerInv
<1>2. time \in Nat /\ timer[t].exec \in Nat /\ timer[t].interval \in Nat
  BY <1>1 DEF CallInv, TimerInv, TimerTypeOK, Fields
<1>3. CalcNextThink(timer[t].exec, timer[t].interval) \in Nat
  BY <1>2 DEF CalcNextThink
<1>4. PICK e : e = CASE Top.op = "loop" -> CalcNextThink(timer[t].exec, timer[t].interval)
                     [] Top.op = "fire" /\ Top.delay -> time + timer[t].interval
                     [] OTHER -> timer[t].exec
  OBVIOUS
<1>5. e \in Nat
  <2>1. CASE Top.op = "loop"
    BY <1>3, <1>4, <2>1
  <2>2. CASE Top.op = "fire" /\ Top.delay
    BY <1>2, <1>4, <2>2
  <2>3. CASE ~(Top.op = "loop") /\ ~(Top.op = "fire" /\ Top.delay)
    BY <1>2, <1>4, <2>3
  <2> QED BY <2>1, <2>2, <2>3
<1>6. timer' = [timer EXCEPT ![t].inExec = FALSE, ![t].exec = e]
  BY <1>1, <1>4 DEF Rearm
<1>7. timer' = [timer EXCEPT ![t] = [timer[t] EXCEPT !.inExec = FALSE, !.exec = e]]
  BY <1>1, <1>6 DEF Fields
<1>8. [timer[t] EXCEPT !.inExec = FALSE, !.exec = e] \in Fields
  BY <1>1, <1>5 DEF Fields
<1>9. timer' \in [Structs -> Fields]
  BY <1>1, <1>7, <1>8
<1>10. \A u \in Structs : u # t => timer'[u] = timer[u]
  BY <1>1, <1>7
<1>11. timer'[t] = [timer[t] EXCEPT !.inExec = FALSE, !.exec = e]
  BY <1>1, <1>7
<1>12. /\ timer'[t].repeat = timer[t].repeat /\ timer'[t].nomap = timer[t].nomap
       /\ timer'[t].inExec = FALSE /\ timer'[t].killMe = timer[t].killMe
       /\ timer'[t].ended = timer[t].ended
  BY <1>1, <1>11 DEF Fields
<1>13. timer[t].killMe = FALSE
  BY <1>1 DEF Fields
<1> QED BY <1>9, <1>10, <1>12, <1>13 DEF Sets

LEMMA TimerReturnsKeeps ==
    ASSUME CallInv, NEW stop \in BOOLEAN, OnTimerReturns(stop)
    PROVE  CallInv'
<1>0. PICK t : t = Top.t
  OBVIOUS
<1>1. /\ stack # <<>> /\ Top.at = "timer" /\ UNCHANGED <<lists, s_tokill, clocks, fresh, born>>
  BY DEF OnTimerReturns, InTimer, Idle, history
<1>2. /\ t \in Live /\ t \in Structs /\ t # NULL /\ timer[t].inExec
      /\ Top \in Frames /\ Top.op \in {"single", "loop", "fire"}
      /\ Top.op = "single" => t \in ToSet(m_SingleTimers)
      /\ Top.op = "loop" => t \in ToSet(m_LoopTimers)
  BY <1>0, <1>1, TopIs DEF Frames
<1>3. timer[t].ended = 0
  <2>1. \A k \in 1..Len(stack) : ~(stack[k].t = t /\ stack[k].at = "end")
    BY <1>0, <1>1, <1>2, TopIs
  <2> QED BY <1>2, <2>1, NotEnded
<1>4. CASE Stops(t, stop)
  <2>1. Goto([Top EXCEPT !.at = "end"]) /\ timer' = Ending(t)
    BY <1>0, <1>4 DEF OnTimerReturns, ToEnd
  <2>2. Sets(t, TRUE, timer[t].killMe, 1)
    BY <1>2, <1>3, <2>1, EndingIs DEF CallInv, TimerInv
  <2>3. "end" \in {"timer", "end"} /\ Sets(Top.t, TRUE, timer[Top.t].killMe, IF "end" = "end" THEN 1 ELSE 0)
    BY <1>0, <2>2
  <2> QED BY <1>0, <1>1, <1>2, <2>1, <2>3, EnterKeeps
<1>5. CASE ~Stops(t, stop)
  <2>1. /\ Rearm(t) /\ ~timer[t].killMe /\ timer[t].repeat
        /\ IF Top.op = "loop" THEN Advance(m_LoopTimers) ELSE Pop
    BY <1>0, <1>5 DEF OnTimerReturns, Stops
  <2>2. Top.op \in {"loop", "fire"}
    BY <1>2, <2>1 DEF CallInv, TimerInv, EachInOneList
  <2>3. Sets(t, FALSE, FALSE, 0)
    BY <1>2, <1>3, <2>1, RearmIs
  <2>4. \A u \in Structs : timer'[u].repeat = timer[u].repeat /\ timer'[u].nomap = timer[u].nomap
    BY <1>2, <2>3, SetsStay
  <2>5. /\ EachInOneList' /\ Used' = Used /\ Live' = Live
        /\ ToSet(m_SingleTimers)' = ToSet(m_SingleTimers)
        /\ ToSet(m_LoopTimers)' = ToSet(m_LoopTimers)
        /\ ToSet(m_FreeTimers)' = ToSet(m_FreeTimers)
        /\ m_SingleTimers' \in Seq(Structs) /\ m_LoopTimers' \in Seq(Structs)
        /\ m_FreeTimers' \in Seq(Structs)
    BY <1>1, <2>4, ListsStay
  <2>6. PICK v \in Structs \cup {NULL} : LeavesTo(v)
    <3>1. CASE Top.op = "loop"
      <4>1. m_LoopTimers \in Seq(Structs) /\ IsInjective(m_LoopTimers)
            /\ ToSet(m_LoopTimers) \subseteq Structs
        BY TypesAre DEF CallInv, TimerInv, EachInOneList
      <4>2. After(m_LoopTimers, t) = NULL \/ After(m_LoopTimers, t) \in ToSet(m_LoopTimers)
        BY <1>2, <3>1, <4>1, AfterIs
      <4>3. Goto(Frame(Top.op, After(m_LoopTimers, t), "look", FALSE))
        BY <1>0, <2>1, <3>1 DEF Advance
      <4>4. After(m_LoopTimers, t) # NULL => 
               After(m_LoopTimers, t) \in (IF Top.op = "single" THEN ToSet(m_SingleTimers)'
                                                                ELSE ToSet(m_LoopTimers)')
        BY <2>5, <3>1, <4>2
      <4>5. LeavesTo(After(m_LoopTimers, t))
        BY <3>1, <4>3, <4>4 DEF LeavesTo
      <4> QED BY <4>1, <4>2, <4>5
    <3>2. CASE Top.op = "fire"
      <4>1. LeavesTo(NULL)
        BY <2>1, <3>2 DEF LeavesTo
      <4> QED BY <4>1
    <3> QED BY <2>2, <3>1, <3>2
  <2>7. /\ stack' \in Seq(Frames) /\ FrameShape' /\ IteratorsValid'
        /\ \A u : Called(u)' <=> Called(u) /\ u # t
        /\ \A u : (\E k \in DOMAIN stack' : stack'[k].t = u /\ stack'[k].at = "end") <=>
                  (u # t /\ \E k \in DOMAIN stack : stack[k].t = u /\ stack[k].at = "end")
        /\ Sweeping' <=> Sweeping
    BY <1>0, <1>1, <2>5, <2>6, LeaveKeeps
  <2>8. /\ timer' \in [Structs -> Fields] /\ ~timer'[t].inExec /\ ~timer'[t].killMe
        /\ timer'[t].ended = 0 /\ \A u \in Structs : u # t => timer'[u] = timer[u]
    BY <2>3 DEF Sets
  <2>9. /\ Live \subseteq Structs /\ Used \subseteq Structs /\ ToSet(m_FreeTimers) \subseteq Structs
        /\ t \notin ToSet(m_FreeTimers)
    BY <1>2, TypesAre DEF CallInv, TimerInv, EachInOneList
  <2>10. EndedOnce'
    <3>1. \A u \in ToSet(m_FreeTimers)' : timer'[u].ended = 1
      BY <2>5, <2>8, <2>9 DEF CallInv, TimerInv, EndedOnce
    <3>2. ASSUME NEW u \in Live
          PROVE  timer'[u].ended = 1 <=> \E k \in DOMAIN stack' : stack'[k].t = u /\ stack'[k].at = "end"
      <4>1. CASE u = t
        BY <2>7, <2>8, <4>1
      <4>2. CASE u # t
        <5>1. timer'[u] = timer[u]
          BY <2>8, <2>9, <4>2
        <5>2. timer[u].ended = 1 <=> \E k \in DOMAIN stack : stack[k].t = u /\ stack[k].at = "end"
          BY DEF CallInv, TimerInv, EndedOnce
        <5> QED BY <2>7, <4>2, <5>1, <5>2
      <4> QED BY <4>1, <4>2
    <3> QED BY <2>5, <3>1, <3>2 DEF EndedOnce
  <2>11. Marks'
    <3>1. ASSUME NEW u \in Live PROVE timer'[u].inExec <=> Called(u)'
      <4>1. CASE u = t
        BY <2>7, <2>8, <4>1
      <4>2. CASE u # t
        BY <2>7, <2>8, <2>9, <4>2 DEF CallInv, Marks
      <4> QED BY <4>1, <4>2
    <3>2. \A u \in ToSet(m_FreeTimers) : timer'[u].inExec
      BY <2>8, <2>9 DEF CallInv, Marks
    <3>3. \A u \in Used : timer'[u].killMe => timer'[u].inExec
      BY <2>8, <2>9 DEF CallInv, Marks
    <3> QED BY <2>5, <3>1, <3>2, <3>3 DEF Marks
  <2>12. SweepState'
    <3>1. UNCHANGED <<s_tokill, born>> /\ Live' \subseteq Live
      BY <1>1, <2>5
    <3>2. \A u \in Live' : timer[u].ended = 1 => timer'[u].ended = 1
      BY <1>3, <2>5, <2>8, <2>9
    <3> QED BY <2>4, <2>5, <2>7, <3>1, <3>2, SweepStays
  <2>13. TimerTypeOK'
    <3>1. TimerTypeOK /\ UNCHANGED clocks /\ fresh' \subseteq Structs /\ born' \subseteq Structs
      BY <1>1 DEF CallInv, TimerInv, TimerTypeOK
    <3>2. s_tokill' \in Seq(Structs)
      BY <1>1, TypesAre DEF CallInv, TimerInv
    <3> QED BY <2>5, <2>7, <2>8, <3>1, <3>2, TypesNext
  <2>14. ClockAhead'
    BY <1>1 DEF CallInv, ClockAhead, clocks
  <2> QED BY <2>5, <2>7, <2>10, <2>11, <2>12, <2>13, <2>14 DEF CallInv, TimerInv
<1> QED BY <1>4, <1>5

-----------------------------------------------------------------------------
LEMMA FreeIs ==
    ASSUME CallInv, NEW t \in Live, FreeTimer(t)
    PROVE  /\ m_SingleTimers' \in Seq(Structs) /\ m_LoopTimers' \in Seq(Structs)
           /\ m_FreeTimers' \in Seq(Structs)
           /\ IsInjective(m_SingleTimers') /\ IsInjective(m_LoopTimers') /\ IsInjective(m_FreeTimers')
           /\ ToSet(m_SingleTimers)' = ToSet(m_SingleTimers) \ {t}
           /\ ToSet(m_LoopTimers)' = ToSet(m_LoopTimers) \ {t}
           /\ ToSet(m_FreeTimers)' = ToSet(m_FreeTimers) \cup {t}
           /\ Live' = Live \ {t} /\ Used' = Used
<1>1. /\ m_FreeTimers' = <<t>> \o m_FreeTimers
      /\ m_SingleTimers' = Keep(m_SingleTimers, Structs \ {t})
      /\ m_LoopTimers' = Keep(m_LoopTimers, Structs \ {t})
  BY DEF FreeTimer
<1>2. /\ m_SingleTimers \in Seq(Structs) /\ m_LoopTimers \in Seq(Structs)
      /\ m_FreeTimers \in Seq(Structs) /\ t \in Structs
      /\ ToSet(m_SingleTimers) \subseteq Structs /\ ToSet(m_LoopTimers) \subseteq Structs
      /\ IsInjective(m_SingleTimers) /\ IsInjective(m_LoopTimers) /\ IsInjective(m_FreeTimers)
      /\ t \notin ToSet(m_FreeTimers)
  BY TypesAre DEF CallInv, TimerInv, EachInOneList
<1>3. /\ m_SingleTimers' \in Seq(Structs) /\ IsInjective(m_SingleTimers')
      /\ ToSet(m_SingleTimers') = ToSet(m_SingleTimers) \cap (Structs \ {t})
  BY <1>1, <1>2, KeepOnce
<1>4. /\ m_LoopTimers' \in Seq(Structs) /\ IsInjective(m_LoopTimers')
      /\ ToSet(m_LoopTimers') = ToSet(m_LoopTimers) \cap (Structs \ {t})
  BY <1>1, <1>2, KeepOnce
<1>5. PICK q : q = <<t>> \o m_FreeTimers
  OBVIOUS
<1>6. /\ q \in Seq(Structs) /\ ToSet(q) = {t} \cup ToSet(m_FreeTimers)
      /\ \A u, v : Precedes(q, u, v) <=> \/ Precedes(m_FreeTimers, u, v)
                                         \/ u = t /\ v \in ToSet(m_FreeTimers)
  BY <1>2, <1>5, ConsIs
<1>7. \A u \in ToSet(m_FreeTimers) : ~Precedes(m_FreeTimers, u, u)
  BY <1>2, InjectiveIs
<1>8. \A u \in ToSet(q) : ~Precedes(q, u, u)
  BY <1>2, <1>6, <1>7, PrecedesIn
<1>9. IsInjective(q)
  BY <1>6, <1>8, InjectiveIs
<1>10. /\ ToSet(m_SingleTimers)' = ToSet(m_SingleTimers) \ {t}
       /\ ToSet(m_LoopTimers)' = ToSet(m_LoopTimers) \ {t}
       /\ ToSet(m_FreeTimers)' = ToSet(m_FreeTimers) \cup {t}
  BY <1>1, <1>2, <1>3, <1>4, <1>5, <1>6
<1>11. Live' = Live \ {t} /\ Used' = Used
  BY <1>10 DEF Live, Used
<1> QED BY <1>1, <1>3, <1>4, <1>5, <1>6, <1>9, <1>10, <1>11

LEMMA EndReturnsKeeps ==
    ASSUME CallInv, OnTimerEndReturns
    PROVE  CallInv'
<1>0. PICK t : t = Top.t
  OBVIOUS
<1>1. /\ stack # <<>> /\ Top.at = "end" /\ FreeTimer(t) /\ UNCHANGED <<timer, s_tokill, clocks, fresh, born>>
      /\ CASE Top.op = "single" -> Advance(m_SingleTimers)
           [] Top.op = "loop"   -> Advance(m_LoopTimers)
           [] OTHER -> Pop
  BY <1>0 DEF OnTimerEndReturns, InEnd, Idle, history
<1>2. /\ t \in Live /\ t \in Structs /\ t # NULL /\ timer[t].inExec
      /\ Top \in Frames /\ Top.op \in {"single", "loop", "fire", "kill"}
      /\ Top.op = "single" => t \in ToSet(m_SingleTimers)
      /\ Top.op = "loop" => t \in ToSet(m_LoopTimers)
  BY <1>0, <1>1, TopIs DEF Frames
<1>3. timer[t].ended = 1
  <2>1. Len(stack) \in DOMAIN stack /\ stack[Len(stack)] = Top
    BY <1>1, TopIs
  <2> QED BY <1>0, <1>1, <1>2, <2>1 DEF CallInv, TimerInv, EndedOnce
<1>4. /\ m_SingleTimers' \in Seq(Structs) /\ m_LoopTimers' \in Seq(Structs)
      /\ m_FreeTimers' \in Seq(Structs)
      /\ IsInjective(m_SingleTimers') /\ IsInjective(m_LoopTimers') /\ IsInjective(m_FreeTimers')
      /\ ToSet(m_SingleTimers)' = ToSet(m_SingleTimers) \ {t}
      /\ ToSet(m_LoopTimers)' = ToSet(m_LoopTimers) \ {t}
      /\ ToSet(m_FreeTimers)' = ToSet(m_FreeTimers) \cup {t}
      /\ Live' = Live \ {t} /\ Used' = Used
  BY <1>1, <1>2, FreeIs
<1>5. PICK v \in Structs \cup {NULL} : LeavesTo(v)
  <2>1. /\ m_LoopTimers \in Seq(Structs) /\ IsInjective(m_LoopTimers)
        /\ m_SingleTimers \in Seq(Structs) /\ IsInjective(m_SingleTimers)
        /\ ToSet(m_LoopTimers) \subseteq Structs /\ ToSet(m_SingleTimers) \subseteq Structs
    BY TypesAre DEF CallInv, TimerInv, EachInOneList
  <2>2. CASE Top.op = "loop"
    <3>1. \/ After(m_LoopTimers, t) = NULL
          \/ After(m_LoopTimers, t) \in ToSet(m_LoopTimers) /\ After(m_LoopTimers, t) # t
      BY <1>2, <2>1, <2>2, AfterIs
    <3>2. Goto(Frame(Top.op, After(m_LoopTimers, t), "look", FALSE))
      BY <1>0, <1>1, <2>2 DEF Advance
    <3>3. LeavesTo(After(m_LoopTimers, t))
      BY <1>4, <2>2, <3>1, <3>2 DEF LeavesTo
    <3> QED BY <2>1, <3>1, <3>3
  <2>3. CASE Top.op = "single"
    <3>1. \/ After(m_SingleTimers, t) = NULL
          \/ After(m_SingleTimers, t) \in ToSet(m_SingleTimers) /\ After(m_SingleTimers, t) # t
      BY <1>2, <2>1, <2>3, AfterIs
    <3>2. Goto(Frame(Top.op, After(m_SingleTimers, t), "look", FALSE))
      BY <1>0, <1>1, <2>3 DEF Advance
    <3>3. LeavesTo(After(m_SingleTimers, t))
      BY <1>4, <2>3, <3>1, <3>2 DEF LeavesTo
    <3> QED BY <2>1, <3>1, <3>3
  <2>4. CASE Top.op \in {"fire", "kill"}
    <3>1. LeavesTo(NULL)
      BY <1>1, <2>4 DEF LeavesTo
    <3> QED BY <3>1
  <2> QED BY <1>2, <2>2, <2>3, <2>4
<1>6. /\ stack' \in Seq(Frames) /\ FrameShape' /\ IteratorsValid'
      /\ \A u : Called(u)' <=> Called(u) /\ u # t
      /\ \A u : (\E k \in DOMAIN stack' : stack'[k].t = u /\ stack'[k].at = "end") <=>
                (u # t /\ \E k \in DOMAIN stack : stack[k].t = u /\ stack[k].at = "end")
      /\ Sweeping' <=> Sweeping
  BY <1>0, <1>1, <1>4, <1>5, LeaveKeeps
<1>7. timer' = timer /\ s_tokill' = s_tokill
  BY <1>1
<1>8. EachInOneList'
  BY <1>4, <1>7 DEF CallInv, TimerInv, EachInOneList
<1>9. EndedOnce'
  <2>1. \A u \in ToSet(m_FreeTimers)' : timer'[u].ended = 1
    BY <1>3, <1>4, <1>7 DEF CallInv, TimerInv, EndedOnce
  <2>2. ASSUME NEW u \in Live'
        PROVE  timer'[u].ended = 1 <=> \E k \in DOMAIN stack' : stack'[k].t = u /\ stack'[k].at = "end"
    <3>1. u \in Live /\ u # t
      BY <1>4
    <3>2. timer[u].ended = 1 <=> \E k \in DOMAIN stack : stack[k].t = u /\ stack[k].at = "end"
      BY <3>1 DEF CallInv, TimerInv, EndedOnce
    <3> QED BY <1>6, <1>7, <3>1, <3>2
  <2> QED BY <2>1, <2>2 DEF EndedOnce
<1>10. Marks'
  BY <1>2, <1>4, <1>6, <1>7 DEF CallInv, Marks
<1>11. SweepState'
  <2>1. UNCHANGED <<s_tokill, born>> /\ Live' \subseteq Live
    BY <1>1, <1>4
  <2>2. /\ \A u \in Structs : timer'[u].nomap = timer[u].nomap
        /\ \A u \in Live' : timer[u].ended = 1 => timer'[u].ended = 1
    BY <1>7
  <2> QED BY <1>4, <1>6, <2>1, <2>2, SweepStays
<1>12. TimerTypeOK'
  <2>1. TimerTypeOK /\ UNCHANGED clocks /\ fresh' \subseteq Structs /\ born' \subseteq Structs
    BY <1>1 DEF CallInv, TimerInv, TimerTypeOK
  <2>2. s_tokill' \in Seq(Structs) /\ timer' \in [Structs -> Fields]
    BY <1>7, TypesAre DEF CallInv, TimerInv
  <2> QED BY <1>4, <1>6, <2>1, <2>2, TypesNext
<1>13. ClockAhead'
  BY <1>1 DEF CallInv, ClockAhead, clocks
<1> QED BY <1>6, <1>8, <1>9, <1>10, <1>11, <1>12, <1>13 DEF CallInv, TimerInv

LEMMA RunDueKeeps ==
    ASSUME CallInv, NEW op \in {"single", "loop"}, RunDue(op)
    PROVE  CallInv'
<1>0. PICK t : t = Top.t
  OBVIOUS
<1>1. /\ stack # <<>> /\ Top.op = op /\ Top.at = "look" /\ t # NULL
      /\ timer' = [timer EXCEPT ![t].inExec = TRUE]
      /\ Goto([Top EXCEPT !.at = "timer"])
      /\ UNCHANGED <<lists, s_tokill, clocks, fresh, born>>
  BY <1>0 DEF RunDue, Looks, Idle, history
<1>2. t \in Live /\ t \in Structs /\ Len(stack) = 1 /\ Top = stack[1]
  BY <1>0, <1>1, TopIs
<1>3. timer[t].ended = 0
  <2>1. \A k \in 1..Len(stack) : ~(stack[k].t = t /\ stack[k].at = "end")
    BY <1>1, <1>2
  <2> QED BY <1>2, <2>1, NotEnded
<1>4. Sets(t, TRUE, timer[t].killMe, timer[t].ended)
  BY <1>1, <1>2, RunningIs DEF CallInv, TimerInv
<1>5. PICK a \in {"timer", "end"} : a = "timer"
  OBVIOUS
<1>6. Sets(Top.t, TRUE, timer[Top.t].killMe, IF a = "end" THEN 1 ELSE 0)
  BY <1>0, <1>3, <1>4, <1>5
<1> QED BY <1>0, <1>1, <1>5, <1>6, EnterKeeps

-----------------------------------------------------------------------------
(* A frame of RunFrame() or RemoveMapChangeTimers() between callbacks. *)
LookFrame(f) ==
    /\ f \in Frames /\ f.at = "look" /\ f.op \in {"single", "loop", "sweep"}
    /\ f.op = "single" /\ f.t # NULL => f.t \in ToSet(m_SingleTimers)
    /\ f.op = "loop" /\ f.t # NULL => f.t \in ToSet(m_LoopTimers)
    /\ f.op = "sweep" => f.t = NULL

(* Steps between callbacks, from one place without an open callback to
   another. *)
LEMMA QuietKeeps ==
    ASSUME CallInv, UNCHANGED <<timer, lists>>, Len(stack) \in 0..1,
           stack # <<>> => Top.at = "look",
           stack' \in Seq(Frames), Len(stack') \in 0..1,
           stack' # <<>> => LookFrame(stack'[1])
    PROVE  /\ EachInOneList' /\ IteratorsValid' /\ EndedOnce' /\ FrameShape' /\ Marks'
           /\ Live' = Live /\ Used' = Used
           /\ \A u : ~Called(u) /\ ~Called(u)'
<1>1. timer' = timer /\ UNCHANGED lists
  OBVIOUS
<1>2. /\ EachInOneList' /\ Used' = Used /\ Live' = Live
      /\ ToSet(m_SingleTimers)' = ToSet(m_SingleTimers)
      /\ ToSet(m_LoopTimers)' = ToSet(m_LoopTimers)
      /\ ToSet(m_FreeTimers)' = ToSet(m_FreeTimers)
  BY <1>1, ListsStay
<1>3. \A k \in DOMAIN stack : stack[k].at = "look"
  <2>1. DOMAIN stack = 1..Len(stack) /\ (stack = <<>> <=> Len(stack) = 0)
    BY StackIs DEF CallInv, TimerInv
  <2>2. ASSUME NEW k \in DOMAIN stack PROVE stack[k].at = "look"
    <3>1. k = Len(stack) /\ stack # <<>>
      BY <2>1
    <3> QED BY <3>1 DEF Top
  <2> QED BY <2>2
<1>4. \A k \in DOMAIN stack' : k = 1 /\ Len(stack') = 1 /\ LookFrame(stack'[k])
  <2>1. DOMAIN stack' = 1..Len(stack') /\ (Len(stack') # 0 => stack' # <<>>)
    BY LenProperties, EmptySeq
  <2> QED BY <2>1
<1>5. \A k \in DOMAIN stack' : stack'[k].at = "look"
  BY <1>4 DEF LookFrame
<1>6. \A u : ~Called(u) /\ ~Called(u)'
  BY <1>3, <1>5 DEF Called, Calling
<1>7. IteratorsValid'
  <2>1. ASSUME NEW k \in DOMAIN stack', stack'[k].t # NULL
        PROVE  stack'[k].t \in CASE stack'[k].op = "single" -> ToSet(m_SingleTimers)
                                 [] stack'[k].op = "loop"   -> ToSet(m_LoopTimers)
                                 [] OTHER -> Live
    BY <1>4, <2>1 DEF LookFrame
  <2> QED BY <1>2, <1>5, <2>1 DEF IteratorsValid, Calling
<1>8. EndedOnce'
  BY <1>1, <1>2, <1>3, <1>5 DEF CallInv, TimerInv, EndedOnce
<1>9. FrameShape'
  BY <1>4 DEF FrameShape, LookFrame
<1>10. Marks'
  BY <1>1, <1>2, <1>6 DEF CallInv, Marks
<1> QED BY <1>2, <1>6, <1>7, <1>8, <1>9, <1>10

(* RunFrame() goes to the next place in a list. *)
LEMMA LookKeeps ==
    ASSUME CallInv, stack # <<>>, Top.at = "look", Top.op \in {"single", "loop"},
           NEW f, LookFrame(f), f.op = "loop", Goto(f),
           UNCHANGED <<timer, lists, s_tokill, clocks, fresh, born>>
    PROVE  CallInv'
<1>1. /\ Len(stack) = 1 /\ Top = stack[1] /\ f \in Frames
  BY TopIs DEF LookFrame
<1>2. stack' \in Seq(Frames) /\ Len(stack') = 1 /\ stack'[1] = f
  BY <1>1, GotoIs DEF CallInv, TimerInv
<1>3. /\ EachInOneList' /\ IteratorsValid' /\ EndedOnce' /\ FrameShape' /\ Marks'
      /\ Live' = Live /\ Used' = Used
      /\ \A u : ~Called(u) /\ ~Called(u)'
  BY <1>1, <1>2, QuietKeeps
<1>4. SweepState'
  <2>1. ~Sweeping /\ ~Sweeping'
    BY <1>1, <1>2 DEF Sweeping, Idle
  <2>2. s_tokill' = <<>>
    BY <2>1 DEF CallInv, SweepState
  <2> QED BY <2>1, <2>2, EmptyIs DEF SweepState
<1>5. TimerTypeOK'
  <2>1. /\ m_SingleTimers' \in Seq(Structs) /\ m_LoopTimers' \in Seq(Structs)
        /\ m_FreeTimers' \in Seq(Structs) /\ s_tokill' \in Seq(Structs)
        /\ fresh' \subseteq Structs /\ born' \subseteq Structs
        /\ timer' \in [Structs -> Fields]
    BY TypesAre DEF CallInv, TimerInv, lists, TimerTypeOK
  <2>2. TimerTypeOK /\ UNCHANGED clocks
    BY DEF CallInv, TimerInv
  <2> QED BY <1>2, <2>1, <2>2, TypesNext
<1>6. ClockAhead'
  BY DEF CallInv, ClockAhead, clocks
<1> QED BY <1>3, <1>4, <1>5, <1>6 DEF CallInv, TimerInv

LEMMA SinglesOverKeeps ==
    ASSUME CallInv, SinglesOver
    PROVE  CallInv'
<1>1. /\ stack # <<>> /\ Top.op = "single" /\ Top.at = "look"
      /\ Goto(Frame("loop", FirstOf(m_LoopTimers), "look", FALSE))
      /\ UNCHANGED <<timer, lists, s_tokill, clocks, fresh, born>>
  BY DEF SinglesOver, Looks, Idle, history
<1>2. FirstOf(m_LoopTimers) = NULL \/ FirstOf(m_LoopTimers) \in ToSet(m_LoopTimers)
  BY TypesAre, FirstIs DEF CallInv, TimerInv
<1>3. PICK f : f = Frame("loop", FirstOf(m_LoopTimers), "look", FALSE)
  OBVIOUS
<1>4. LookFrame(f) /\ f.op = "loop"
  <2>1. FirstOf(m_LoopTimers) \in Structs \cup {NULL}
    BY <1>2, TypesAre DEF CallInv, TimerInv
  <2> QED BY <1>2, <1>3, <2>1 DEF LookFrame, Frame, Frames
<1> QED BY <1>1, <1>3, <1>4, LookKeeps

LEMMA LoopNextKeeps ==
    ASSUME CallInv, LoopNext
    PROVE  CallInv'
<1>0. PICK v : v = After(m_LoopTimers, Top.t)
  OBVIOUS
<1>1. /\ stack # <<>> /\ Top.op = "loop" /\ Top.at = "look" /\ Top.t # NULL
      /\ Goto(Frame("loop", v, "look", FALSE))
      /\ UNCHANGED <<timer, lists, s_tokill, clocks, fresh, born>>
  BY <1>0 DEF LoopNext, Looks, Idle, Advance, history
<1>2. v = NULL \/ v \in ToSet(m_LoopTimers)
  <2>1. Top.t \in ToSet(m_LoopTimers)
    BY <1>1, TopIs
  <2>2. m_LoopTimers \in Seq(Structs) /\ IsInjective(m_LoopTimers)
    BY TypesAre DEF CallInv, TimerInv, EachInOneList
  <2> QED BY <1>0, <2>1, <2>2, AfterIs
<1>3. PICK f : f = Frame("loop", v, "look", FALSE)
  OBVIOUS
<1>4. LookFrame(f) /\ f.op = "loop"
  <2>1. v \in Structs \cup {NULL}
    BY <1>2, TypesAre DEF CallInv, TimerInv
  <2> QED BY <1>2, <1>3, <2>1 DEF LookFrame, Frame, Frames
<1> QED BY <1>1, <1>3, <1>4, LookKeeps

(* RunFrame() or RemoveMapChangeTimers() returns. *)
LEMMA ReturnKeeps ==
    ASSUME CallInv, RunFrameReturns \/ SweepReturns
    PROVE  CallInv'
<1>1. /\ stack # <<>> /\ Top.at = "look" /\ Pop
      /\ UNCHANGED <<timer, lists, s_tokill, time, curtime, last, ticked, thought, fresh>>
      /\ born' \in {born, {}}
      /\ think' = think \/ think' = CalcNextThink(think, Accuracy)
      /\ Top.op = "loop" \/ (Top.op = "sweep" /\ s_tokill = <<>>)
  BY DEF RunFrameReturns, SweepReturns, Looks, Idle, clocks, history
<1>2. /\ Len(stack) = 1 /\ Top = stack[1]
  BY <1>1, TopIs
<1>3. stack' \in Seq(Frames) /\ Len(stack') = 0 /\ stack' = <<>>
  <2>1. stack' \in Seq(Frames) /\ Len(stack') = 0
    BY <1>1, <1>2, PopIs DEF CallInv, TimerInv
  <2> QED BY <2>1, EmptySeq
<1>4. /\ EachInOneList' /\ IteratorsValid' /\ EndedOnce' /\ FrameShape' /\ Marks'
      /\ Live' = Live /\ Used' = Used
  BY <1>1, <1>2, <1>3, QuietKeeps
<1>5. SweepState'
  <2>1. ~Sweeping'
    BY <1>3 DEF Sweeping, Idle
  <2>2. s_tokill = <<>>
    BY <1>1, <1>2 DEF CallInv, SweepState, Sweeping, Idle
  <2> QED BY <1>1, <2>1, <2>2, EmptyIs DEF SweepState
<1>6. TimerTypeOK'
  <2>1. /\ m_SingleTimers' \in Seq(Structs) /\ m_LoopTimers' \in Seq(Structs)
        /\ m_FreeTimers' \in Seq(Structs) /\ s_tokill' \in Seq(Structs)
        /\ fresh' \subseteq Structs /\ born' \subseteq Structs
        /\ timer' \in [Structs -> Fields]
    BY <1>1, TypesAre DEF CallInv, TimerInv, lists, TimerTypeOK
  <2>2. /\ time \in 0..MaxTime /\ think \in Nat /\ curtime \in Nat /\ last \in Nat
        /\ ticked \in BOOLEAN /\ thought \in -1..MaxTime /\ MaxTime \in Nat
    BY TimerConstants DEF CallInv, TimerInv, TimerTypeOK
  <2>3. think' \in Nat
    <3>1. CalcNextThink(think, Accuracy) \in Nat
      BY <2>2, TimerConstants DEF CalcNextThink
    <3> QED BY <1>1, <2>2, <3>1
  <2>4. /\ time' \in 0..MaxTime /\ think' \in Nat /\ curtime' \in Nat /\ last' \in Nat
        /\ ticked' \in BOOLEAN /\ thought' \in -1..MaxTime
    BY <1>1, <2>2, <2>3
  <2> QED BY <1>3, <2>1, <2>4, TypesNext
<1>7. ClockAhead'
  BY <1>1 DEF CallInv, ClockAhead
<1> QED BY <1>4, <1>5, <1>6, <1>7 DEF CallInv, TimerInv

(* A stack of one call. *)
LEMMA OneCall ==
    ASSUME NEW f \in Frames
    PROVE  /\ <<f>> \in Seq(Frames) /\ Len(<<f>>) = 1 /\ <<f>> # <<>> /\ <<f>>[1] = f
           /\ DOMAIN <<f>> = {1}
<1>1. \A T : \A x \in T : <<x>> \in Seq(T) /\ Len(<<x>>) = 1 /\ <<x>>[1] = x
  OBVIOUS
<1>2. <<f>> \in Seq(Frames) /\ Len(<<f>>) = 1 /\ <<f>>[1] = f
  BY <1>1
<1>3. DOMAIN <<f>> = 1..1
  BY <1>2, LenProperties
<1>4. <<f>> # <<>>
  BY <1>2, EmptySeq
<1> QED BY <1>2, <1>3, <1>4

(* The time that has passed is never negative: the first frame of a map does
   not count from the last one of the map before. *)
LEMMA FrameClocks ==
    ASSUME CallInv, NEW s \in BOOLEAN, NEW d \in Deltas, GameFrame(s, d)
    PROVE  /\ time \in Nat /\ time' \in Nat /\ time' >= time /\ time' <= MaxTime
           /\ curtime' \in Nat /\ last' = curtime' /\ ticked' = TRUE
<1>1. /\ time \in Nat /\ curtime \in Nat /\ last \in Nat /\ d \in Nat /\ (ticked => curtime >= last)
  BY TimerConstants DEF CallInv, TimerInv, TimerTypeOK, ClockAhead
<1>2. /\ curtime' = curtime + d /\ time' = time + Elapsed(s) /\ time' <= MaxTime
      /\ last' = curtime' /\ ticked' = TRUE
  BY DEF GameFrame
<1>3. Elapsed(s) \in Nat
  BY <1>1, <1>2 DEF Elapsed
<1> QED BY <1>1, <1>2, <1>3

LEMMA GameFrameKeeps ==
    ASSUME CallInv, NEW s \in BOOLEAN, NEW d \in Deltas, GameFrame(s, d)
    PROVE  CallInv'
<1>1. /\ stack = <<>> /\ UNCHANGED <<timer, lists, s_tokill, think, born>>
      /\ \/ /\ stack' = <<Frame("single", FirstOf(m_SingleTimers), "look", FALSE)>>
            /\ thought' = time' /\ fresh' = {}
         \/ UNCHANGED <<stack, thought, fresh>>
  BY DEF GameFrame, Idle
<1>2. PICK f : f = Frame("single", FirstOf(m_SingleTimers), "look", FALSE)
  OBVIOUS
<1>3. LookFrame(f) /\ f \in Frames /\ f.op = "single"
  <2>1. FirstOf(m_SingleTimers) = NULL \/ FirstOf(m_SingleTimers) \in ToSet(m_SingleTimers)
    BY TypesAre, FirstIs DEF CallInv, TimerInv
  <2>2. FirstOf(m_SingleTimers) \in Structs \cup {NULL}
    BY <2>1, TypesAre DEF CallInv, TimerInv
  <2> QED BY <1>2, <2>1, <2>2 DEF LookFrame, Frame, Frames
<1>4. stack' = <<f>> \/ stack' = <<>>
  BY <1>1, <1>2
<1>5. /\ stack' \in Seq(Frames) /\ Len(stack') \in 0..1
      /\ stack' # <<>> => stack'[1] = f
  <2>1. 0 \in 0..1 /\ 1 \in 0..1
    OBVIOUS
  <2>2. CASE stack' = <<f>>
    BY <1>3, <2>1, <2>2, OneCall
  <2>3. CASE stack' = <<>>
    BY <2>1, <2>3, EmptySeq
  <2> QED BY <1>4, <2>2, <2>3
<1>6. /\ EachInOneList' /\ IteratorsValid' /\ EndedOnce' /\ FrameShape' /\ Marks'
  <2>1. Len(stack) \in 0..1
    BY <1>1, EmptySeq
  <2> QED BY <1>1, <1>3, <1>5, <2>1, QuietKeeps
<1>7. SweepState'
  <2>1. ~Sweeping' /\ ~Sweeping
    BY <1>1, <1>3, <1>5 DEF Sweeping, Idle
  <2>2. s_tokill' = <<>>
    BY <1>1, <2>1 DEF CallInv, SweepState
  <2> QED BY <2>1, <2>2, EmptyIs DEF SweepState
<1>8. /\ time \in Nat /\ time' \in Nat /\ time' >= time /\ time' <= MaxTime
      /\ curtime' \in Nat /\ last' = curtime' /\ ticked' = TRUE
  BY FrameClocks
<1>9. TimerTypeOK'
  <2>1. /\ m_SingleTimers' \in Seq(Structs) /\ m_LoopTimers' \in Seq(Structs)
        /\ m_FreeTimers' \in Seq(Structs) /\ s_tokill' \in Seq(Structs)
        /\ timer' \in [Structs -> Fields]
    BY <1>1, TypesAre DEF CallInv, TimerInv, lists
  <2>2. think \in Nat /\ thought \in -1..MaxTime /\ MaxTime \in Nat
        /\ fresh \subseteq Structs /\ born \subseteq Structs
    BY TimerConstants DEF CallInv, TimerInv, TimerTypeOK
  <2>3. time' \in 0..MaxTime /\ time' \in -1..MaxTime
    BY <1>8, <2>2
  <2>4. thought' \in -1..MaxTime /\ think' \in Nat
        /\ fresh' \subseteq Structs /\ born' \subseteq Structs
    BY <1>1, <2>2, <2>3
  <2>5. /\ time' \in 0..MaxTime /\ think' \in Nat /\ curtime' \in Nat /\ last' \in Nat
        /\ ticked' \in BOOLEAN /\ thought' \in -1..MaxTime
    BY <1>8, <2>3, <2>4
  <2> QED BY <1>5, <2>1, <2>4, <2>5, TypesNext
<1>10. ClockAhead'
  BY <1>8 DEF ClockAhead
<1> QED BY <1>6, <1>7, <1>9, <1>10 DEF CallInv, TimerInv

LEMMA LevelShutdownKeeps ==
    ASSUME CallInv, LevelShutdown
    PROVE  CallInv'
<1>1. /\ stack = <<>> /\ ticked' = FALSE /\ s_tokill' = MapChangeTimers
      /\ stack' = <<Frame("sweep", NULL, "look", FALSE)>> /\ curtime' = 0
      /\ UNCHANGED <<timer, lists, time, think, last, thought, fresh, born>>
  BY DEF LevelShutdown, OnSourceModLevelEnd, Idle, history
<1>2. PICK f : f = Frame("sweep", NULL, "look", FALSE)
  OBVIOUS
<1>3. LookFrame(f) /\ f \in Frames /\ f.op = "sweep"
  BY <1>2 DEF LookFrame, Frame, Frames
<1>4. /\ stack' \in Seq(Frames) /\ Len(stack') \in 0..1 /\ stack' # <<>> /\ stack'[1] = f
      /\ DOMAIN stack' = {1}
  <2>1. 1 \in 0..1 /\ stack' = <<f>>
    BY <1>1, <1>2
  <2> QED BY <1>3, <2>1, OneCall
<1>5. /\ EachInOneList' /\ IteratorsValid' /\ EndedOnce' /\ FrameShape' /\ Marks'
      /\ Live' = Live /\ Used' = Used
  <2>1. Len(stack) \in 0..1
    BY <1>1, EmptySeq
  <2> QED BY <1>1, <1>3, <1>4, <2>1, QuietKeeps
<1>6. /\ s_tokill' \in Seq(Structs)
      /\ ToSet(s_tokill') = {t \in Live : timer[t].nomap}
  <2>1. /\ m_SingleTimers \in Seq(Structs) /\ m_LoopTimers \in Seq(Structs) /\ Live \subseteq Structs
    BY TypesAre DEF CallInv, TimerInv
  <2>2. PICK q, S : q = m_SingleTimers \o m_LoopTimers /\ S = {t \in Structs : timer[t].nomap}
    OBVIOUS
  <2>3. q \in Seq(Structs) /\ ToSet(q) = Live
    BY <2>1, <2>2, ConcatIs DEF Live
  <2>4. Keep(q, S) \in Seq(Structs) /\ ToSet(Keep(q, S)) = Live \cap S
    BY <2>3, KeepIs
  <2>5. s_tokill' = Reverse(Keep(q, S))
    BY <1>1, <2>2 DEF MapChangeTimers
  <2>6. s_tokill' \in Seq(Structs) /\ ToSet(s_tokill') = Live \cap S
    BY <2>4, <2>5, ReverseIs
  <2> QED BY <2>1, <2>2, <2>6
<1>7. SweepState'
  <2>1. Sweeping' /\ timer' = timer
    BY <1>1, <1>3, <1>4 DEF Sweeping, Idle
  <2>2. \A t \in Live : t \in Used
    BY DEF Live, Used
  <2> QED BY <1>5, <1>6, <2>1, <2>2 DEF SweepState
<1>8. TimerTypeOK'
  <2>1. /\ m_SingleTimers' \in Seq(Structs) /\ m_LoopTimers' \in Seq(Structs)
        /\ m_FreeTimers' \in Seq(Structs) /\ fresh' \subseteq Structs /\ born' \subseteq Structs
        /\ timer' \in [Structs -> Fields]
    BY <1>1, TypesAre DEF CallInv, TimerInv, lists, TimerTypeOK
  <2>2. /\ time' \in 0..MaxTime /\ think' \in Nat /\ curtime' \in Nat /\ last' \in Nat
        /\ ticked' \in BOOLEAN /\ thought' \in -1..MaxTime
    BY <1>1 DEF CallInv, TimerInv, TimerTypeOK
  <2> QED BY <1>4, <1>6, <2>1, <2>2, TypesNext
<1>9. ClockAhead'
  BY <1>1 DEF ClockAhead
<1> QED BY <1>5, <1>7, <1>8, <1>9 DEF CallInv, TimerInv

-----------------------------------------------------------------------------
LEMMA InitCall ==
    ASSUME Init PROVE CallInv
<1>1. /\ timer = [t \in Structs |-> Unused]
      /\ m_SingleTimers = <<>> /\ m_LoopTimers = <<>> /\ m_FreeTimers = <<>>
      /\ stack = <<>> /\ s_tokill = <<>>
      /\ time = 0 /\ think = 0 /\ curtime = 0 /\ last = 0 /\ ticked = FALSE
      /\ thought = -1 /\ fresh = {} /\ born = {}
  BY DEF Init
<1>2. Unused \in Fields
  BY DEF Unused, Initialize, Fields
<1>3. TimerTypeOK
  <2>1. timer \in [Structs -> Fields]
    BY <1>1, <1>2
  <2>2. \A list \in {m_SingleTimers, m_LoopTimers, m_FreeTimers, s_tokill} : list \in Seq(Structs)
    BY <1>1, EmptySeq
  <2>3. stack \in Seq(Frames)
    BY <1>1
  <2>4. /\ time \in 0..MaxTime /\ {think, curtime, last} \subseteq Nat /\ ticked \in BOOLEAN
        /\ thought \in -1..MaxTime /\ fresh \subseteq Structs /\ born \subseteq Structs
    <3>1. MaxTime \in Nat
      BY TimerConstants
    <3>2. 0 \in 0..MaxTime /\ -1 \in -1..MaxTime
      BY <3>1
    <3>3. {think, curtime, last} \subseteq Nat
      BY <1>1
    <3> QED BY <1>1, <3>2, <3>3
  <2> QED BY <2>1, <2>2, <2>3, <2>4 DEF TimerTypeOK, Fields, Frames
<1>4. ToSet(<<>>) = {} /\ IsInjective(<<>>) /\ DOMAIN stack = {}
  BY <1>1, EmptyIs
<1>5. Live = {} /\ Used = {}
  BY <1>1, <1>4 DEF Live, Used
<1>6. EachInOneList
  BY <1>1, <1>4, <1>5 DEF EachInOneList
<1>7. IteratorsValid /\ EndedOnce /\ FrameShape
  BY <1>1, <1>4, <1>5 DEF IteratorsValid, EndedOnce, FrameShape, Calling
<1>8. Marks /\ SweepState /\ ClockAhead
  BY <1>1, <1>4, <1>5 DEF Marks, SweepState, Sweeping, Idle, ClockAhead
<1> QED BY <1>3, <1>6, <1>7, <1>8 DEF CallInv, TimerInv

LEMMA StutterCall ==
    ASSUME CallInv, UNCHANGED vars PROVE CallInv'
<1>1. UNCHANGED <<timer, m_SingleTimers, m_LoopTimers, m_FreeTimers, stack, s_tokill,
                  time, think, curtime, last, ticked, thought, fresh, born>>
  BY DEF vars, lists, clocks, history
<1>2. Live' = Live /\ Used' = Used
  BY <1>1 DEF Live, Used
<1>3. TimerTypeOK' /\ EachInOneList'
  BY <1>1, <1>2 DEF CallInv, TimerInv, TimerTypeOK, EachInOneList
<1>4. IteratorsValid' /\ EndedOnce' /\ FrameShape'
  BY <1>1, <1>2 DEF CallInv, TimerInv, IteratorsValid, EndedOnce, FrameShape, Calling
<1>5. (\A u : Called(u)' <=> Called(u)) /\ (Sweeping' <=> Sweeping)
  BY <1>1 DEF Called, Calling, Sweeping, Idle
<1>6. Marks' /\ SweepState' /\ ClockAhead'
  BY <1>1, <1>2, <1>5 DEF CallInv, Marks, SweepState, ClockAhead
<1> QED BY <1>3, <1>4, <1>6 DEF CallInv, TimerInv

LEMMA NextCall ==
    ASSUME CallInv, [Next]_vars PROVE CallInv'
<1>1. ASSUME NEW kind \in Kinds, CreateTimer(kind) PROVE CallInv'
  BY <1>1, CreateKeeps
<1>2. ASSUME NEW t \in Structs, KillTimer(t) PROVE CallInv'
  BY <1>2, KillTimerKeeps
<1>3. ASSUME NEW t \in Structs, NEW d \in BOOLEAN, FireTimerOnce(t, d) PROVE CallInv'
  BY <1>3, FireKeeps
<1>4. CASE LevelShutdown
  BY <1>4, LevelShutdownKeeps
<1>5. ASSUME NEW s \in BOOLEAN, NEW d \in Deltas, GameFrame(s, d) PROVE CallInv'
  BY <1>5, GameFrameKeeps
<1>6. ASSUME NEW stop \in BOOLEAN, OnTimerReturns(stop) PROVE CallInv'
  BY <1>6, TimerReturnsKeeps
<1>7. CASE OnTimerEndReturns
  BY <1>7, EndReturnsKeeps
<1>8. CASE RunFrame
  BY <1>8, RunDueKeeps DEF RunFrame
<1>9. CASE SinglesOver \/ LoopNext
  BY <1>9, SinglesOverKeeps, LoopNextKeeps
<1>10. CASE RunFrameReturns \/ SweepReturns
  BY <1>10, ReturnKeeps
<1>11. CASE RemoveMapChangeTimers
  BY <1>11, RemoveKeeps
<1>12. CASE UNCHANGED vars
  BY <1>12, StutterCall
<1> QED BY <1>1, <1>2, <1>3, <1>4, <1>5, <1>6, <1>7, <1>8, <1>9, <1>10, <1>11, <1>12
        DEF Next, Callers, Game, Timers

LEMMA AlwaysCall == Spec => []CallInv
  BY InitCall, NextCall, PTL DEF Spec

(* Whatever a timer's functions create, kill and fire while RunFrame() is in
   the middle of a list, every struct stays in one list only, an iterator never
   points to a timer that is gone, no timer's callbacks are entered again from
   inside themselves, and OnTimerEnd() is called exactly once. *)
THEOREM TimersCorrect == Spec => []TimerInv
<1>1. CallInv => TimerInv
  BY DEF CallInv
<1> QED BY <1>1, AlwaysCall, PTL

-----------------------------------------------------------------------------
(* g_fUniversalTime never runs backwards, although a map change sets the game's
   clock back. *)
THEOREM TimeNeverBack == Spec => TimeForward
<1>1. ASSUME CallInv, [Next]_vars PROVE [time' >= time]_vars
  <2>1. time \in Nat
    BY <1>1 DEF CallInv, TimerInv, TimerTypeOK
  <2>2. ASSUME NEW s \in BOOLEAN, NEW d \in Deltas, GameFrame(s, d) PROVE time' >= time
    BY <1>1, <2>2, FrameClocks
  <2>3. ASSUME Next, time' # time
        PROVE  \E s \in BOOLEAN, d \in Deltas : GameFrame(s, d)
    BY <2>3 DEF Next, Callers, Game, Timers, CreateTimer, KillTimer, FireTimerOnce, LevelShutdown,
                OnTimerReturns, OnTimerEndReturns, RunFrame, RunDue, SinglesOver, LoopNext,
                RunFrameReturns, RemoveMapChangeTimers, SweepReturns, clocks
  <2> QED BY <1>1, <2>1, <2>2, <2>3
<1> QED BY <1>1, AlwaysCall, PTL DEF Spec, TimeForward

(* OnTimer() is only entered for a live timer that does not run and is not being
   ended: every other step leaves the innermost call elsewhere, or returns. *)
LEMMA EntersOnTimer ==
    ASSUME CallInv, Next, InTimer', stack' # stack, Len(stack') >= Len(stack)
    PROVE  \E t \in Live : /\ ~timer[t].inExec /\ stack'[Len(stack')].t = t
                           /\ \A k \in 1..Len(stack) : ~(stack[k].t = t /\ stack[k].at = "end")
<1>0. Len(stack) \in Nat /\ TimerTypeOK /\ stack \in Seq(Frames)
  BY StackIs DEF CallInv, TimerInv
<1>1. stack'[Len(stack')].at = "timer"
  BY DEF InTimer, Top
<1>2. ASSUME NEW kind \in Kinds, CreateTimer(kind) PROVE FALSE
  BY <1>2 DEF CreateTimer
<1>3. ASSUME NEW t, t \in Structs, KillNow(t) PROVE FALSE
  <2>1. Push(Frame("kill", t, "end", FALSE))
    BY <1>3 DEF KillNow
  <2>2. PICK f : f = Frame("kill", t, "end", FALSE)
    OBVIOUS
  <2>3. f \in Frames /\ f.at = "end"
    BY <1>3, <2>2 DEF Frame, Frames
  <2>4. stack'[Len(stack')] = f
    BY <1>0, <2>1, <2>2, <2>3, PushIs
  <2> QED BY <1>1, <2>3, <2>4
<1>4. ASSUME NEW t \in Structs, KillTimer(t) PROVE FALSE
  BY <1>3, <1>4 DEF KillTimer
<1>5. CASE RemoveMapChangeTimers
  <2>1. s_tokill # <<>> /\ s_tokill \in Seq(Structs)
    BY <1>5, TypesAre DEF CallInv, TimerInv, RemoveMapChangeTimers
  <2>2. Head(s_tokill) \in Structs
    BY <2>1, HeadTailIs
  <2> QED BY <1>3, <1>5, <2>2 DEF RemoveMapChangeTimers
<1>6. ASSUME NEW v, NEW op \in {"single", "loop"}, v \in Structs \cup {NULL}, stack # <<>>,
             Goto(Frame(op, v, "look", FALSE))
      PROVE  FALSE
  <2>1. PICK f : f = Frame(op, v, "look", FALSE)
    OBVIOUS
  <2>2. f \in Frames /\ f.at = "look"
    BY <1>6, <2>1 DEF Frame, Frames
  <2>3. stack'[Len(stack')] = f
    BY <1>0, <1>6, <2>1, <2>2, GotoIs
  <2> QED BY <1>1, <2>2, <2>3
<1>7. ASSUME stack # <<>>, Pop PROVE FALSE
  <2>1. Len(stack') = Len(stack) - 1
    BY <1>0, <1>7, PopIs
  <2> QED BY <1>0, <2>1
<1>8. /\ m_SingleTimers \in Seq(Structs) /\ m_LoopTimers \in Seq(Structs)
      /\ IsInjective(m_SingleTimers) /\ IsInjective(m_LoopTimers)
      /\ ToSet(m_SingleTimers) \subseteq Structs /\ ToSet(m_LoopTimers) \subseteq Structs
  BY TypesAre DEF CallInv, TimerInv, EachInOneList
<1>9. ASSUME stack # <<>>, Top.op \in {"single", "loop"}, NEW list,
             \/ Top.op = "single" /\ list = m_SingleTimers
             \/ Top.op = "loop" /\ list = m_LoopTimers,
             Top.t # NULL, Advance(list)
      PROVE  FALSE
  <2>1. Top.t \in ToSet(list) /\ list \in Seq(Structs) /\ IsInjective(list) /\ ToSet(list) \subseteq Structs
    BY <1>8, <1>9, TopIs
  <2>2. After(list, Top.t) \in Structs \cup {NULL}
    BY <2>1, AfterIs
  <2> QED BY <1>6, <1>9, <2>2 DEF Advance
<1>10. ASSUME NEW stop \in BOOLEAN, OnTimerReturns(stop) PROVE FALSE
  <2>1. stack # <<>> /\ Top.at = "timer"
    BY <1>10 DEF OnTimerReturns, InTimer, Idle
  <2>2. Top \in Frames /\ Top.t # NULL
    BY <2>1, TopIs
  <2>3. CASE Stops(Top.t, stop)
    <3>1. PICK f : f = [Top EXCEPT !.at = "end"]
      OBVIOUS
    <3>2. f \in Frames /\ f.at = "end"
      BY <2>2, <3>1 DEF Frames
    <3>3. Goto(f)
      BY <1>10, <2>3, <3>1 DEF OnTimerReturns, ToEnd
    <3>4. stack'[Len(stack')] = f
      BY <1>0, <2>1, <3>2, <3>3, GotoIs
    <3> QED BY <1>1, <3>2, <3>4
  <2>4. CASE ~Stops(Top.t, stop)
    BY <1>7, <1>9, <1>10, <2>1, <2>2, <2>4 DEF OnTimerReturns
  <2> QED BY <2>3, <2>4
<1>11. CASE OnTimerEndReturns
  <2>1. stack # <<>> /\ Top.at = "end"
    BY <1>11 DEF OnTimerEndReturns, InEnd, Idle
  <2>2. Top.t # NULL
    BY <2>1, TopIs
  <2> QED BY <1>7, <1>9, <1>11, <2>1, <2>2 DEF OnTimerEndReturns
<1>12. CASE SinglesOver
  <2>1. stack # <<>> /\ Goto(Frame("loop", FirstOf(m_LoopTimers), "look", FALSE))
    BY <1>12 DEF SinglesOver, Looks, Idle
  <2>2. FirstOf(m_LoopTimers) \in Structs \cup {NULL}
    BY <1>8, FirstIs
  <2> QED BY <1>6, <2>1, <2>2
<1>13. CASE LoopNext
  BY <1>9, <1>13 DEF LoopNext, Looks, Idle
<1>14. CASE RunFrameReturns \/ SweepReturns
  BY <1>7, <1>14 DEF RunFrameReturns, SweepReturns, Looks, Idle
<1>15. ASSUME NEW op, NEW v, v \in Structs \cup {NULL}, op \in {"single", "sweep"},
              stack' = <<Frame(op, v, "look", FALSE)>>
       PROVE  FALSE
  <2>1. PICK f : f = Frame(op, v, "look", FALSE)
    OBVIOUS
  <2>2. f \in Frames /\ f.at = "look"
    BY <1>15, <2>1 DEF Frame, Frames
  <2>3. stack'[Len(stack')] = f
    BY <1>15, <2>1, <2>2, OneCall
  <2> QED BY <1>1, <2>2, <2>3
<1>16. CASE LevelShutdown
  BY <1>15, <1>16 DEF LevelShutdown
<1>17. ASSUME NEW s \in BOOLEAN, NEW d \in Deltas, GameFrame(s, d) PROVE FALSE
  <2>1. FirstOf(m_SingleTimers) \in Structs \cup {NULL}
    BY <1>8, FirstIs
  <2>2. stack' = <<Frame("single", FirstOf(m_SingleTimers), "look", FALSE)>>
    BY <1>17 DEF GameFrame
  <2> QED BY <1>15, <2>1, <2>2
<1>18. ASSUME NEW t \in Structs, NEW d \in BOOLEAN, FireTimerOnce(t, d)
       PROVE  /\ t \in Live /\ ~timer[t].inExec /\ stack'[Len(stack')].t = t
              /\ \A k \in 1..Len(stack) : ~(stack[k].t = t /\ stack[k].at = "end")
  <2>1. t \in Live /\ ~timer[t].inExec /\ Push(Frame("fire", t, "timer", d))
    BY <1>18 DEF FireTimerOnce
  <2>2. PICK f : f = Frame("fire", t, "timer", d)
    OBVIOUS
  <2>3. f \in Frames /\ f.t = t
    BY <2>2 DEF Frame, Frames
  <2>4. stack'[Len(stack')] = f
    BY <1>0, <2>1, <2>2, <2>3, PushIs
  <2> QED BY <2>1, <2>3, <2>4, OpenIs
<1>19. ASSUME NEW op \in {"single", "loop"}, RunDue(op)
       PROVE  /\ Top.t \in Live /\ ~timer[Top.t].inExec /\ stack'[Len(stack')].t = Top.t
              /\ \A k \in 1..Len(stack) : ~(stack[k].t = Top.t /\ stack[k].at = "end")
  <2>1. stack # <<>> /\ Top.at = "look" /\ Top.t # NULL /\ Goto([Top EXCEPT !.at = "timer"])
    BY <1>19 DEF RunDue, Looks, Idle
  <2>2. Len(stack) = 1 /\ Top = stack[1] /\ Top.t \in Live /\ Top \in Frames /\ DOMAIN stack = 1..1
    BY <2>1, TopIs
  <2>3. PICK f : f = [Top EXCEPT !.at = "timer"]
    OBVIOUS
  <2>4. f \in Frames /\ f.t = Top.t
    BY <2>2, <2>3 DEF Frames
  <2>5. stack'[Len(stack')] = f
    BY <1>0, <2>1, <2>3, <2>4, GotoIs
  <2>6. \A k \in 1..1 : k = 1
    OBVIOUS
  <2>7. ~Called(Top.t)
    BY <2>1, <2>2, <2>6 DEF Called, Calling
  <2>8. ~timer[Top.t].inExec
    BY <2>2, <2>7 DEF CallInv, Marks
  <2>9. \A k \in 1..Len(stack) : stack[k].at = "look"
    BY <2>1, <2>2, <2>6
  <2> QED BY <2>2, <2>4, <2>5, <2>8, <2>9
<1> QED BY <1>2, <1>4, <1>5, <1>10, <1>11, <1>12, <1>13, <1>14, <1>16, <1>17, <1>18, <1>19
        DEF Next, Callers, Game, Timers, RunFrame

(* No timer's function is called once the timer was killed: by its own
   function, by another timer's or by a map change. *)
THEOREM NoCallAfterKill == Spec => KilledNeverFires
<1>1. ASSUME CallInv, [Next]_vars
      PROVE  [InTimer' /\ stack' # stack /\ Len(stack') >= Len(stack)
                => ~timer[Top'.t].killMe /\ timer[Top'.t].ended = 0]_vars
  <2> SUFFICES ASSUME Next, InTimer', stack' # stack, Len(stack') >= Len(stack)
               PROVE  ~timer[Top'.t].killMe /\ timer[Top'.t].ended = 0
    BY <1>1 DEF vars
  <2>1. PICK t \in Live : /\ ~timer[t].inExec /\ stack'[Len(stack')].t = t
                          /\ \A k \in 1..Len(stack) : ~(stack[k].t = t /\ stack[k].at = "end")
    BY <1>1, EntersOnTimer
  <2>2. timer[t].ended = 0
    BY <1>1, <2>1, NotEnded
  <2>3. t \in Used
    BY DEF Live, Used
  <2>4. ~timer[t].killMe
    BY <1>1, <2>1, <2>3 DEF CallInv, Marks
  <2> QED BY <2>1, <2>2, <2>4 DEF Top
<1> QED BY <1>1, AlwaysCall, PTL DEF Spec, KilledNeverFires

(* A map change kills every timer with TIMER_FLAG_NO_MAPCHANGE that was there
   before it and no other, whatever the timers' OnTimerEnd() kill, create and
   fire meanwhile, the timers on its list and their structs included; only what
   is created during the map change may stay or go regardless of its flag. *)
THEOREM SweepKillsExactly == Spec => SweepExact
<1>1. ASSUME CallInv, SweepReturns, NEW t \in Live, timer[t].nomap PROVE t \in born
  <2>1. stack # <<>> /\ Top.at = "look" /\ Top.op = "sweep" /\ s_tokill = <<>>
    BY <1>1 DEF SweepReturns, Looks, Idle
  <2>2. Len(stack) = 1 /\ Top = stack[1] /\ DOMAIN stack = 1..1
    BY <1>1, <2>1, TopIs
  <2>3. \A k \in 1..Len(stack) : ~(stack[k].t = t /\ stack[k].at = "end")
    <3>1. \A k \in 1..1 : k = 1
      OBVIOUS
    <3> QED BY <2>1, <2>2, <3>1
  <2>4. timer[t].ended = 0
    BY <1>1, <2>3, NotEnded
  <2>5. Sweeping
    BY <2>1, <2>2 DEF Sweeping, Idle
  <2> QED BY <1>1, <2>1, <2>4, <2>5, EmptyIs DEF CallInv, SweepState
<1>2. ASSUME CallInv, RemoveMapChangeTimers, stack' # stack, NEW t, t = Head(s_tokill)
      PROVE  t \in Live /\ (timer[t].nomap \/ t \in born)
  <2>1. s_tokill # <<>> /\ KillNow(t) /\ s_tokill \in Seq(Structs)
    BY <1>2, TypesAre DEF CallInv, TimerInv, RemoveMapChangeTimers
  <2>2. t \in ToSet(s_tokill)
    BY <1>2, <2>1, HeadTailIs
  <2>3. t \in Used /\ (timer[t].nomap \/ t \in born)
    BY <1>2, <2>2 DEF CallInv, SweepState
  <2>4. ~timer[t].inExec
    BY <1>2, <2>1 DEF KillNow
  <2> QED BY <1>2, <2>3, <2>4 DEF CallInv, Marks, Used, Live
<1>3. CallInv /\ [Next]_vars =>
        [/\ SweepReturns => \A t \in Live : timer[t].nomap => t \in born
         /\ RemoveMapChangeTimers /\ stack' # stack =>
               LET t == Head(s_tokill) IN t \in Live /\ (timer[t].nomap \/ t \in born)]_vars
  BY <1>1, <1>2
<1> QED BY <1>3, AlwaysCall, PTL DEF Spec, SweepExact

-----------------------------------------------------------------------------
(* Steps that neither move RunFrame() among the single timers nor change those
   timers. *)
LEMMA LateStays ==
    ASSUME LateOnlyAhead, UNCHANGED <<m_SingleTimers, time, thought, fresh>>,
           \A u \in ToSet(m_SingleTimers) : timer'[u].exec = timer[u].exec,
           Place' = Place, Running' => Running
    PROVE  LateOnlyAhead'
<1>1. Sorted'
  BY DEF LateOnlyAhead, Sorted
<1>2. \A u : Ahead(u)' <=> Ahead(u)
  BY DEF Ahead
<1> QED BY <1>1, <1>2 DEF LateOnlyAhead

(* The outermost call stays when another is pushed or returns. *)
LEMMA PushPlace ==
    ASSUME CallInv, NEW f \in Frames, f.op \in {"fire", "kill"}, Push(f)
    PROVE  Place' = Place /\ (Running' <=> Running)
<1>1. /\ Len(stack) \in Nat /\ stack'[Len(stack) + 1] = f
      /\ \A k \in 1..Len(stack) : stack'[k] = stack[k]
      /\ stack = <<>> <=> Len(stack) = 0
      /\ stack' # <<>>
  BY PushIs, StackIs, EmptySeq DEF CallInv, TimerInv
<1>2. CASE stack = <<>>
  BY <1>1, <1>2 DEF Place, Running
<1>3. CASE stack # <<>>
  <2>1. 1 \in 1..Len(stack)
    BY <1>1, <1>3
  <2>2. stack'[1] = stack[1]
    BY <1>1, <2>1
  <2> QED BY <1>1, <1>3, <2>2 DEF Place, Running
<1> QED BY <1>2, <1>3

LEMMA PopPlace ==
    ASSUME CallInv, stack # <<>>, Top.op # "single", Pop
    PROVE  Place' = Place /\ (Running' => Running) /\ (Len(stack) = 1 => stack' = <<>>)
<1>1. /\ Len(stack) \in Nat /\ Len(stack) >= 1 /\ Top = stack[Len(stack)]
      /\ stack' \in Seq(Frames) /\ Len(stack') = Len(stack) - 1
      /\ \A k \in 1..(Len(stack) - 1) : stack'[k] = stack[k]
  BY TopIs, PopIs DEF CallInv, TimerInv
<1>2. CASE Len(stack) = 1
  <2>1. stack' = <<>>
    BY <1>1, <1>2, EmptySeq
  <2> QED BY <1>1, <1>2, <2>1 DEF Place, Running
<1>3. CASE Len(stack) # 1
  <2>1. 1 \in 1..(Len(stack) - 1) /\ Len(stack') # 0
    BY <1>1, <1>3
  <2>2. stack'[1] = stack[1] /\ stack' # <<>>
    BY <1>1, <2>1, EmptySeq
  <2> QED BY <1>3, <2>2 DEF Place, Running
<1> QED BY <1>2, <1>3

LEMMA GotoPlace ==
    ASSUME CallInv, stack # <<>>, NEW f \in Frames, Goto(f),
           (f.op = Top.op /\ f.t = Top.t) \/ (f.op = "loop" /\ Top.op = "loop")
    PROVE  Place' = Place /\ (Running' <=> Running)
<1>1. /\ Len(stack) \in Nat /\ Len(stack) >= 1 /\ Top = stack[Len(stack)]
      /\ stack' \in Seq(Frames) /\ Len(stack') = Len(stack) /\ stack'[Len(stack)] = f
      /\ \A k \in 1..(Len(stack) - 1) : stack'[k] = stack[k]
  BY TopIs, GotoIs DEF CallInv, TimerInv
<1>2. stack' # <<>>
  BY <1>1, EmptySeq
<1>3. CASE Len(stack) = 1
  BY <1>1, <1>2, <1>3 DEF Place, Running
<1>4. CASE Len(stack) # 1
  <2>1. 1 \in 1..(Len(stack) - 1)
    BY <1>1, <1>4
  <2>2. stack'[1] = stack[1]
    BY <1>1, <2>1
  <2> QED BY <1>2, <2>2 DEF Place, Running
<1> QED BY <1>3, <1>4

LEMMA KillLate ==
    ASSUME CallInv, LateOnlyAhead, NEW t \in Structs, KillNow(t), UNCHANGED <<lists, clocks, fresh, born>>
    PROVE  LateOnlyAhead'
<1>1. \A u \in Structs : timer'[u].exec = timer[u].exec
  <2>1. timer \in [Structs -> Fields]
    BY TypesAre DEF CallInv, TimerInv
  <2>2. timer' = timer \/ timer' = [timer EXCEPT ![t].killMe = TRUE] \/ timer' = Ending(t)
    BY DEF KillNow
  <2>3. CASE timer' = [timer EXCEPT ![t].killMe = TRUE]
    BY <2>1, <2>3 DEF Fields
  <2>4. CASE timer' = Ending(t)
    BY <2>1, <2>4 DEF Fields, Ending
  <2> QED BY <2>2, <2>3, <2>4
<1>2. Place' = Place /\ (Running' => Running)
  <2>1. CASE stack' = stack
    BY <2>1 DEF Place, Running
  <2>2. CASE stack' # stack
    <3>1. PICK f : f = Frame("kill", t, "end", FALSE)
      OBVIOUS
    <3>2. Push(f) /\ f \in Frames /\ f.op = "kill"
      BY <2>2, <3>1 DEF KillNow, Frame, Frames
    <3> QED BY <3>2, PushPlace
  <2> QED BY <2>1, <2>2
<1>3. /\ ToSet(m_SingleTimers) \subseteq Structs
      /\ UNCHANGED <<m_SingleTimers, time, thought, fresh>>
  BY TypesAre DEF CallInv, TimerInv, lists, clocks
<1> QED BY <1>1, <1>2, <1>3, LateStays

(* A new timer is put where the order is kept, and is fresh. *)
LEMMA CreateLate ==
    ASSUME CallInv, LateOnlyAhead, NEW kind \in Kinds, CreateTimer(kind)
    PROVE  LateOnlyAhead'
<1>1. PICK t \in Structs :
         /\ t \notin Live
         /\ timer' \in [Structs -> Fields]
         /\ \A u \in Structs : u # t => timer'[u] = timer[u]
         /\ ~timer'[t].inExec /\ ~timer'[t].killMe /\ timer'[t].ended = 0
         /\ timer'[t].repeat = kind.repeat /\ timer'[t].exec = time + kind.interval
         /\ m_SingleTimers' \in Seq(Structs) /\ m_LoopTimers' \in Seq(Structs)
         /\ m_FreeTimers' \in Seq(Structs)
         /\ IsInjective(m_FreeTimers)' /\ ToSet(m_FreeTimers)' = ToSet(m_FreeTimers) \ {t}
         /\ IF kind.repeat
            THEN m_LoopTimers' = Append(m_LoopTimers, t) /\ UNCHANGED m_SingleTimers
            ELSE InsertSorted(t, time + kind.interval) /\ UNCHANGED m_LoopTimers
         /\ fresh' = fresh \cup {t} /\ born' = IF Sweeping THEN born \cup {t} ELSE born
  BY CreateIs
<1>2. UNCHANGED <<stack, time, thought>>
  BY DEF CreateTimer, clocks
<1>3. Place' = Place /\ (Running' <=> Running)
  BY <1>2 DEF Place, Running
<1>4. /\ ToSet(m_SingleTimers) \subseteq Structs /\ t \notin ToSet(m_SingleTimers)
      /\ time \in Nat /\ kind.interval \in Nat
  BY <1>1, TypesAre, TimerConstants DEF CallInv, TimerInv, TimerTypeOK, Live
<1>5. \A u \in ToSet(m_SingleTimers) : timer'[u].exec = timer[u].exec /\ u # t
  BY <1>1, <1>4
<1>6. CASE kind.repeat
  <2>1. m_SingleTimers' = m_SingleTimers
    BY <1>1, <1>6
  <2>2. Sorted'
    BY <1>5, <2>1 DEF LateOnlyAhead, Sorted
  <2>3. \A u : Ahead(u)' <=> Ahead(u)
    BY <1>3, <2>1 DEF Ahead
  <2> QED BY <1>1, <1>2, <1>3, <1>5, <2>1, <2>2, <2>3 DEF LateOnlyAhead
<1>7. CASE ~kind.repeat
  <2> DEFINE e == time + kind.interval
  <2>0. e \in Nat
    BY <1>4
  <2>1. InsertSorted(t, e) /\ TimerTypeOK
    BY <1>1, <1>7 DEF CallInv, TimerInv
  <2>2. timer'[t].exec = e
    BY <1>1
  <2> HIDE DEF e
  <2>3. /\ m_SingleTimers' \in Seq(Structs)
        /\ ToSet(m_SingleTimers)' = ToSet(m_SingleTimers) \cup {t}
        /\ \E A, B : 
              /\ A \cup B = ToSet(m_SingleTimers)
              /\ \A u, v : Precedes(m_SingleTimers, u, v)' <=>
                    \/ Precedes(m_SingleTimers, u, v)
                    \/ u \in A /\ v = t
                    \/ u = t /\ v \in B
              /\ Sorted => /\ \A u \in A : timer[u].exec <= e
                           /\ \A v \in B : e <= timer[v].exec
    BY <2>0, <2>1, InsertIs
  <2>4. PICK A, B : 
              /\ A \cup B = ToSet(m_SingleTimers)
              /\ \A u, v : Precedes(m_SingleTimers, u, v)' <=>
                    \/ Precedes(m_SingleTimers, u, v)
                    \/ u \in A /\ v = t
                    \/ u = t /\ v \in B
              /\ \A u \in A : timer[u].exec <= e
              /\ \A v \in B : e <= timer[v].exec
    BY <2>3 DEF LateOnlyAhead
  <2>5. ASSUME NEW u, NEW v, Precedes(m_SingleTimers, u, v)' PROVE timer'[u].exec <= timer'[v].exec
    <3>1. CASE Precedes(m_SingleTimers, u, v)
      <4>1. u \in ToSet(m_SingleTimers) /\ v \in ToSet(m_SingleTimers)
        BY <3>1, PrecedesIn
      <4>2. timer[u].exec <= timer[v].exec
        BY <3>1, <4>1 DEF LateOnlyAhead, Sorted
      <4> QED BY <1>5, <4>1, <4>2
    <3>2. CASE u \in A /\ v = t
      BY <1>5, <2>2, <2>4, <3>2
    <3>3. CASE u = t /\ v \in B
      BY <1>5, <2>2, <2>4, <3>3
    <3> QED BY <2>4, <2>5, <3>1, <3>2, <3>3
  <2>6. Sorted'
    BY <2>5 DEF Sorted
  <2>7. \A u : Ahead(u) => Ahead(u)'
    BY <1>3, <2>4 DEF Ahead
  <2>8. ASSUME NEW u \in ToSet(m_SingleTimers)', timer'[u].exec <= thought'
        PROVE  u \in fresh' \/ Ahead(u)'
    <3>1. CASE u = t
      BY <1>1, <3>1
    <3>2. CASE u \in ToSet(m_SingleTimers)
      BY <1>1, <1>2, <1>5, <2>7, <2>8, <3>2 DEF LateOnlyAhead
    <3> QED BY <2>3, <3>1, <3>2
  <2> QED BY <1>2, <1>3, <2>6, <2>8 DEF LateOnlyAhead
<1> QED BY <1>4, <1>6, <1>7

(* The timer that RunFrame() is at leaves the list, and RunFrame() goes to the
   one behind it; a timer that another call ends leaves RunFrame() where it
   is. *)
LEMMA EndReturnsLate ==
    ASSUME CallInv, LateOnlyAhead, OnTimerEndReturns
    PROVE  LateOnlyAhead'
<1>0. PICK t : t = Top.t
  OBVIOUS
<1>1. /\ stack # <<>> /\ Top.at = "end" /\ FreeTimer(t) /\ UNCHANGED <<timer, s_tokill, clocks, fresh, born>>
      /\ CASE Top.op = "single" -> Advance(m_SingleTimers)
           [] Top.op = "loop"   -> Advance(m_LoopTimers)
           [] OTHER -> Pop
  BY <1>0 DEF OnTimerEndReturns, InEnd, Idle, history
<1>2. /\ t \in Live /\ t \in Structs /\ t # NULL
      /\ Top \in Frames /\ Top.op \in {"single", "loop", "fire", "kill"}
      /\ Top.op = "single" => t \in ToSet(m_SingleTimers)
      /\ Top.op = "loop" => t \in ToSet(m_LoopTimers)
      /\ Top.op \in {"single", "loop"} => Len(stack) = 1
      /\ Top = stack[Len(stack)] /\ Len(stack) \in Nat /\ Len(stack) >= 1
      /\ \A k \in 1..(Len(stack) - 1) : stack[k].t # t
  BY <1>0, <1>1, TopIs DEF Frames
<1>3. /\ m_SingleTimers \in Seq(Structs) /\ IsInjective(m_SingleTimers)
      /\ m_LoopTimers \in Seq(Structs) /\ IsInjective(m_LoopTimers)
      /\ ToSet(m_SingleTimers) \subseteq Structs /\ ToSet(m_LoopTimers) \subseteq Structs
  BY TypesAre DEF CallInv, TimerInv, EachInOneList
<1>4. UNCHANGED <<timer, time, thought, fresh>>
  BY <1>1 DEF clocks
<1>5. /\ ToSet(m_SingleTimers)' = ToSet(m_SingleTimers) \ {t}
      /\ \A u, v : Precedes(m_SingleTimers, u, v)' <=>
                      Precedes(m_SingleTimers, u, v) /\ u # t /\ v # t
  <2>1. m_SingleTimers' = Keep(m_SingleTimers, Structs \ {t})
    BY <1>1 DEF FreeTimer
  <2>2. /\ ToSet(m_SingleTimers') = ToSet(m_SingleTimers) \cap (Structs \ {t})
        /\ \A u, v : Precedes(m_SingleTimers', u, v) <=>
              Precedes(m_SingleTimers, u, v) /\ u \in Structs \ {t} /\ v \in Structs \ {t}
    BY <1>3, <2>1, KeepIs
  <2>3. \A u, v : Precedes(m_SingleTimers, u, v) => u \in Structs /\ v \in Structs
    BY <1>3, PrecedesIn
  <2> QED BY <1>3, <2>2, <2>3
<1>6. Sorted'
  BY <1>4, <1>5 DEF LateOnlyAhead, Sorted
<1>7. CASE Top.op = "single"
  <2>1. PICK v : v = After(m_SingleTimers, t)
    OBVIOUS
  <2>2. \/ /\ v = NULL /\ \A w : ~Precedes(m_SingleTimers, t, w)
        \/ /\ v \in ToSet(m_SingleTimers) /\ v # t
           /\ \A w : Precedes(m_SingleTimers, t, w) => w = v \/ Precedes(m_SingleTimers, v, w)
    BY <1>2, <1>3, <1>7, <2>1, AfterIs
  <2>3. PICK f : f = Frame("single", v, "look", FALSE)
    OBVIOUS
  <2>4. f \in Frames /\ f.op = "single" /\ f.t = v
    BY <1>3, <2>2, <2>3 DEF Frame, Frames
  <2>5. Goto(f)
    BY <1>0, <1>1, <1>7, <2>1, <2>3 DEF Advance
  <2>6. stack' # <<>> /\ stack'[1] = f /\ stack[1] = Top
    <3>1. stack' \in Seq(Frames) /\ Len(stack') = 1 /\ stack'[1] = f
      BY <1>1, <1>2, <1>7, <2>4, <2>5, GotoIs DEF CallInv, TimerInv
    <3>2. Len(<<>>) = 0
      BY EmptySeq
    <3>3. stack' # <<>>
      BY <3>1, <3>2
    <3> QED BY <1>2, <1>7, <3>1, <3>3
  <2>7. Place = t /\ Place' = v /\ Running
    BY <1>0, <1>1, <1>7, <2>4, <2>6 DEF Place, Running
  <2>8. ASSUME NEW u \in ToSet(m_SingleTimers)', Ahead(u) PROVE Ahead(u)'
    <3>1. u # t /\ Precedes(m_SingleTimers, t, u)
      BY <1>5, <2>7, <2>8 DEF Ahead
    <3>2. v # NULL /\ v # t /\ (u = v \/ Precedes(m_SingleTimers, v, u))
      BY <1>3, <2>2, <3>1, TimerConstants
    <3> QED BY <1>5, <2>7, <3>1, <3>2 DEF Ahead
  <2> QED BY <1>4, <1>5, <1>6, <2>7, <2>8 DEF LateOnlyAhead
<1>8. CASE Top.op # "single"
  <2>1. Place' = Place /\ (Running' => Running)
    <3>1. CASE Top.op = "loop"
      <4>1. PICK v : v = After(m_LoopTimers, t)
        OBVIOUS
      <4>2. v = NULL \/ v \in ToSet(m_LoopTimers)
        BY <1>2, <1>3, <3>1, <4>1, AfterIs
      <4>3. PICK f : f = Frame("loop", v, "look", FALSE)
        OBVIOUS
      <4>4. f \in Frames /\ f.op = "loop"
        BY <1>3, <4>2, <4>3 DEF Frame, Frames
      <4>5. Goto(f)
        BY <1>0, <1>1, <3>1, <4>1, <4>3 DEF Advance
      <4> QED BY <1>1, <3>1, <4>4, <4>5, GotoPlace
    <3>2. CASE Top.op # "loop"
      BY <1>1, <1>8, <3>2, PopPlace
    <3> QED BY <3>1, <3>2
  <2>2. Place # t
    <3>1. CASE Len(stack) = 1
      BY <1>2, <1>8, <3>1 DEF Place
    <3>2. CASE Len(stack) # 1
      <4>1. PICK n : n = Len(stack)
        OBVIOUS
      <4>2. n \in Nat /\ n >= 1 /\ n # 1
        BY <1>2, <3>2, <4>1
      <4>3. 1 \in 1..(n - 1)
        BY <4>2
      <4> QED BY <1>2, <4>1, <4>3 DEF Place
    <3> QED BY <3>1, <3>2
  <2>3. ASSUME NEW u \in ToSet(m_SingleTimers)', Ahead(u) PROVE Ahead(u)'
    BY <1>5, <2>1, <2>2, <2>3 DEF Ahead
  <2> QED BY <1>4, <1>5, <1>6, <2>1, <2>3 DEF LateOnlyAhead
<1> QED BY <1>7, <1>8

(* A repeating timer that is armed again is not a single one. *)
LEMMA TimerReturnsLate ==
    ASSUME CallInv, LateOnlyAhead, NEW stop \in BOOLEAN, OnTimerReturns(stop)
    PROVE  LateOnlyAhead'
<1>0. PICK t : t = Top.t
  OBVIOUS
<1>1. /\ stack # <<>> /\ Top.at = "timer" /\ UNCHANGED <<m_SingleTimers, time, thought, fresh>>
  BY DEF OnTimerReturns, InTimer, Idle, lists, clocks, history
<1>2. /\ t \in Live /\ t \in Structs
      /\ Top \in Frames /\ Top.op \in {"single", "loop", "fire"}
      /\ Top.op = "single" => t \in ToSet(m_SingleTimers)
      /\ Top.op = "loop" => t \in ToSet(m_LoopTimers)
  BY <1>0, <1>1, TopIs DEF Frames
<1>3. /\ timer \in [Structs -> Fields] /\ ToSet(m_SingleTimers) \subseteq Structs
      /\ m_LoopTimers \in Seq(Structs) /\ IsInjective(m_LoopTimers) /\ ToSet(m_LoopTimers) \subseteq Structs
  BY TypesAre DEF CallInv, TimerInv, EachInOneList
<1>4. CASE Stops(t, stop)
  <2>1. Goto([Top EXCEPT !.at = "end"]) /\ timer' = Ending(t)
    BY <1>0, <1>4 DEF OnTimerReturns, ToEnd
  <2>2. PICK f : f = [Top EXCEPT !.at = "end"]
    OBVIOUS
  <2>3. f \in Frames /\ f.op = Top.op /\ f.t = Top.t
    BY <1>2, <2>2 DEF Frames
  <2>4. Place' = Place /\ (Running' <=> Running)
    BY <1>1, <2>1, <2>2, <2>3, GotoPlace
  <2>5. \A u \in Structs : timer'[u].exec = timer[u].exec
    BY <1>2, <1>3, <2>1 DEF Ending, Fields
  <2> QED BY <1>1, <1>3, <2>4, <2>5, LateStays
<1>5. CASE ~Stops(t, stop)
  <2>1. /\ Rearm(t) /\ timer[t].repeat
        /\ IF Top.op = "loop" THEN Advance(m_LoopTimers) ELSE Pop
    BY <1>0, <1>5 DEF OnTimerReturns, Stops
  <2>2. t \notin ToSet(m_SingleTimers) /\ Top.op \in {"loop", "fire"}
    BY <1>2, <2>1 DEF CallInv, TimerInv, EachInOneList
  <2>3. \A u \in ToSet(m_SingleTimers) : timer'[u].exec = timer[u].exec
    BY <1>3, <2>1, <2>2 DEF Rearm
  <2>4. Place' = Place /\ (Running' => Running)
    <3>1. CASE Top.op = "loop"
      <4>1. PICK v : v = After(m_LoopTimers, t)
        OBVIOUS
      <4>2. v = NULL \/ v \in ToSet(m_LoopTimers)
        BY <1>2, <1>3, <3>1, <4>1, AfterIs
      <4>3. PICK f : f = Frame("loop", v, "look", FALSE)
        OBVIOUS
      <4>4. f \in Frames /\ f.op = "loop"
        BY <1>3, <4>2, <4>3 DEF Frame, Frames
      <4>5. Goto(f)
        BY <1>0, <2>1, <3>1, <4>1, <4>3 DEF Advance
      <4> QED BY <1>1, <3>1, <4>4, <4>5, GotoPlace
    <3>2. CASE Top.op = "fire"
      BY <1>1, <2>1, <3>2, PopPlace
    <3> QED BY <2>2, <3>1, <3>2
  <2> QED BY <1>1, <2>3, <2>4, LateStays
<1> QED BY <1>4, <1>5

(* RunFrame() stops at the first single timer that is not due: the list is
   sorted, so none behind it is due. *)
LEMMA SinglesOverLate ==
    ASSUME CallInv, LateOnlyAhead, SinglesOver
    PROVE  LateOnlyAhead'
<1>0. PICK t : t = Top.t
  OBVIOUS
<1>1. /\ stack # <<>> /\ Top.op = "single" /\ Top.at = "look" /\ (t # NULL => ~Due(t))
      /\ Goto(Frame("loop", FirstOf(m_LoopTimers), "look", FALSE))
      /\ UNCHANGED <<timer, m_SingleTimers, time, thought, fresh>>
  BY <1>0 DEF SinglesOver, Looks, Idle, lists, clocks, history
<1>2. /\ Len(stack) = 1 /\ Top = stack[1] /\ (t # NULL => t \in ToSet(m_SingleTimers))
  BY <1>0, <1>1, TopIs
<1>3. Place = t /\ Running /\ thought = time
  BY <1>0, <1>1, <1>2 DEF Place, Running, LateOnlyAhead
<1>4. PICK f : f = Frame("loop", FirstOf(m_LoopTimers), "look", FALSE)
  OBVIOUS
<1>5. f \in Frames /\ f.op = "loop"
  <2>1. FirstOf(m_LoopTimers) = NULL \/ FirstOf(m_LoopTimers) \in ToSet(m_LoopTimers)
    BY TypesAre, FirstIs DEF CallInv, TimerInv
  <2>2. FirstOf(m_LoopTimers) \in Structs \cup {NULL}
    BY <2>1, TypesAre DEF CallInv, TimerInv
  <2> QED BY <1>4, <2>2 DEF Frame, Frames
<1>6. Place' = NULL
  <2>1. stack'[1] = f
    BY <1>1, <1>2, <1>4, <1>5, GotoIs DEF CallInv, TimerInv
  <2> QED BY <1>5, <2>1 DEF Place
<1>7. \A u \in ToSet(m_SingleTimers) : timer[u].exec \in Nat /\ time \in Nat
  BY TypesAre DEF CallInv, TimerInv, TimerTypeOK, Fields
<1>8. ASSUME NEW u \in ToSet(m_SingleTimers), Ahead(u) PROVE ~(timer[u].exec <= thought)
  <2>1. t # NULL /\ (u = t \/ Precedes(m_SingleTimers, t, u))
    BY <1>3, <1>8 DEF Ahead
  <2>2. timer[t].exec > time
    BY <1>1, <1>2, <1>7, <2>1 DEF Due
  <2>3. timer[t].exec <= timer[u].exec
    BY <1>2, <1>7, <2>1 DEF LateOnlyAhead, Sorted
  <2> QED BY <1>2, <1>3, <1>7, <2>1, <2>2, <2>3
<1>9. Sorted'
  BY <1>1 DEF LateOnlyAhead, Sorted
<1> QED BY <1>1, <1>3, <1>8, <1>9 DEF LateOnlyAhead

(* RunFrame() begins at the head of the list, with every timer ahead of it. *)
LEMMA GameFrameLate ==
    ASSUME CallInv, LateOnlyAhead, NEW s \in BOOLEAN, NEW d \in Deltas, GameFrame(s, d)
    PROVE  LateOnlyAhead'
<1>1. /\ stack = <<>> /\ UNCHANGED <<timer, m_SingleTimers>>
      /\ \/ /\ stack' = <<Frame("single", FirstOf(m_SingleTimers), "look", FALSE)>>
            /\ thought' = time'
         \/ UNCHANGED <<stack, thought, fresh>>
  BY DEF GameFrame, Idle, lists
<1>2. Sorted'
  BY <1>1 DEF LateOnlyAhead, Sorted
<1>3. CASE stack' = <<>> /\ UNCHANGED <<thought, fresh>>
  <2>1. Place = NULL /\ ~Running'
    BY <1>1, <1>3 DEF Place, Running
  <2> QED BY <1>1, <1>2, <1>3, <2>1 DEF LateOnlyAhead, Ahead
<1>4. CASE /\ stack' = <<Frame("single", FirstOf(m_SingleTimers), "look", FALSE)>>
           /\ thought' = time'
  <2>1. PICK v : v = FirstOf(m_SingleTimers)
    OBVIOUS
  <2>2. PICK f : f = Frame("single", v, "look", FALSE)
    OBVIOUS
  <2>3. /\ m_SingleTimers \in Seq(Structs) /\ ToSet(m_SingleTimers) \subseteq Structs
    BY TypesAre DEF CallInv, TimerInv
  <2>4. \/ v = NULL /\ ToSet(m_SingleTimers) = {}
        \/ /\ v \in ToSet(m_SingleTimers)
           /\ \A w \in ToSet(m_SingleTimers) : w = v \/ Precedes(m_SingleTimers, v, w)
    BY <2>1, <2>3, FirstIs
  <2>5. f \in Frames /\ f.op = "single" /\ f.t = v
    BY <2>2, <2>3, <2>4 DEF Frame, Frames
  <2>6. stack' # <<>> /\ stack'[1] = f
    BY <1>4, <2>1, <2>2, <2>5, OneCall
  <2>7. Place' = v
    BY <2>5, <2>6 DEF Place
  <2>8. ASSUME NEW u \in ToSet(m_SingleTimers) PROVE Ahead(u)'
    <3>1. v # NULL
      BY <2>3, <2>4, TimerConstants
    <3> QED BY <1>1, <2>4, <2>7, <3>1 DEF Ahead
  <2> QED BY <1>1, <1>2, <1>4, <2>8 DEF LateOnlyAhead
<1> QED BY <1>1, <1>3, <1>4

LEMMA NextLate ==
    ASSUME CallInv, LateOnlyAhead, [Next]_vars PROVE LateOnlyAhead'
<1>1. ASSUME NEW kind \in Kinds, CreateTimer(kind) PROVE LateOnlyAhead'
  BY <1>1, CreateLate
<1>2. ASSUME NEW t \in Structs, KillTimer(t) PROVE LateOnlyAhead'
  BY <1>2, KillLate DEF KillTimer, history
<1>3. ASSUME NEW t \in Structs, NEW d \in BOOLEAN, FireTimerOnce(t, d) PROVE LateOnlyAhead'
  <2>1. PICK f : f = Frame("fire", t, "timer", d)
    OBVIOUS
  <2>2. f \in Frames /\ f.op = "fire" /\ Push(f)
    BY <1>3, <2>1 DEF FireTimerOnce, Frame, Frames
  <2>3. Place' = Place /\ (Running' => Running)
    BY <2>2, PushPlace
  <2>4. timer' = [timer EXCEPT ![t].inExec = TRUE] /\ UNCHANGED <<m_SingleTimers, time, thought, fresh>>
    BY <1>3 DEF FireTimerOnce, lists, clocks, history
  <2>5. \A u \in ToSet(m_SingleTimers) : timer'[u].exec = timer[u].exec
    BY <2>4, TypesAre DEF CallInv, TimerInv, Fields
  <2> QED BY <2>3, <2>4, <2>5, LateStays
<1>4. CASE LevelShutdown
  <2>1. /\ stack = <<>> /\ UNCHANGED <<timer, m_SingleTimers, time, thought, fresh>>
        /\ stack' = <<Frame("sweep", NULL, "look", FALSE)>>
    BY <1>4 DEF LevelShutdown, Idle, lists, history
  <2>2. PICK f : f = Frame("sweep", NULL, "look", FALSE)
    OBVIOUS
  <2>3. f \in Frames /\ f.op = "sweep"
    BY <2>2 DEF Frame, Frames
  <2>4. stack'[1] = f
    BY <2>1, <2>2, <2>3, OneCall
  <2>5. Place' = Place /\ ~Running'
    BY <2>1, <2>3, <2>4 DEF Place, Running
  <2> QED BY <2>1, <2>5, LateStays
<1>5. ASSUME NEW s \in BOOLEAN, NEW d \in Deltas, GameFrame(s, d) PROVE LateOnlyAhead'
  BY <1>5, GameFrameLate
<1>6. ASSUME NEW stop \in BOOLEAN, OnTimerReturns(stop) PROVE LateOnlyAhead'
  BY <1>6, TimerReturnsLate
<1>7. CASE OnTimerEndReturns
  BY <1>7, EndReturnsLate
<1>8. ASSUME NEW op \in {"single", "loop"}, RunDue(op) PROVE LateOnlyAhead'
  <2>1. /\ stack # <<>> /\ Top.t # NULL /\ Goto([Top EXCEPT !.at = "timer"])
        /\ timer' = [timer EXCEPT ![Top.t].inExec = TRUE]
        /\ UNCHANGED <<m_SingleTimers, time, thought, fresh>>
    BY <1>8 DEF RunDue, Looks, Idle, lists, clocks, history
  <2>2. PICK f : f = [Top EXCEPT !.at = "timer"]
    OBVIOUS
  <2>3. f \in Frames /\ f.op = Top.op /\ f.t = Top.t
    BY <2>1, <2>2, TopIs DEF Frames
  <2>4. Place' = Place /\ (Running' <=> Running)
    BY <2>1, <2>2, <2>3, GotoPlace
  <2>5. \A u \in ToSet(m_SingleTimers) : timer'[u].exec = timer[u].exec
    <3>1. PICK t : t = Top.t
      OBVIOUS
    <3>2. timer' = [timer EXCEPT ![t].inExec = TRUE] /\ t \in Structs
      BY <2>1, <3>1, TopIs
    <3> QED BY <3>2, TypesAre DEF CallInv, TimerInv, Fields
  <2> QED BY <2>1, <2>4, <2>5, LateStays
<1>9. CASE SinglesOver
  BY <1>9, SinglesOverLate
<1>10. CASE LoopNext
  <2>1. PICK v : v = After(m_LoopTimers, Top.t)
    OBVIOUS
  <2>2. /\ stack # <<>> /\ Top.op = "loop" /\ Top.t # NULL
        /\ Goto(Frame("loop", v, "look", FALSE))
        /\ UNCHANGED <<timer, m_SingleTimers, time, thought, fresh>>
    BY <1>10, <2>1 DEF LoopNext, Looks, Idle, Advance, lists, clocks, history
  <2>3. v = NULL \/ v \in Structs
    <3>1. Top.t \in ToSet(m_LoopTimers)
      BY <2>2, TopIs
    <3>2. m_LoopTimers \in Seq(Structs) /\ IsInjective(m_LoopTimers) /\ ToSet(m_LoopTimers) \subseteq Structs
      BY TypesAre DEF CallInv, TimerInv, EachInOneList
    <3> QED BY <2>1, <3>1, <3>2, AfterIs
  <2>4. PICK f : f = Frame("loop", v, "look", FALSE)
    OBVIOUS
  <2>5. f \in Frames /\ f.op = "loop"
    BY <2>3, <2>4 DEF Frame, Frames
  <2>6. Place' = Place /\ (Running' <=> Running)
    BY <2>2, <2>4, <2>5, GotoPlace
  <2> QED BY <2>2, <2>6, LateStays
<1>11. CASE RunFrameReturns \/ SweepReturns
  <2>1. /\ stack # <<>> /\ Top.op # "single" /\ Pop
        /\ UNCHANGED <<timer, m_SingleTimers, time, thought, fresh>>
    BY <1>11 DEF RunFrameReturns, SweepReturns, Looks, Idle, lists, clocks, history
  <2>2. Place' = Place /\ (Running' => Running)
    BY <2>1, PopPlace
  <2> QED BY <2>1, <2>2, LateStays
<1>12. CASE RemoveMapChangeTimers
  <2>1. s_tokill # <<>> /\ s_tokill \in Seq(Structs)
    BY <1>12, TypesAre DEF CallInv, TimerInv, RemoveMapChangeTimers
  <2>2. Head(s_tokill) \in Structs
    BY <2>1, HeadTailIs
  <2> QED BY <1>12, <2>2, KillLate DEF RemoveMapChangeTimers, history
<1>13. CASE UNCHANGED vars
  <2>1. UNCHANGED <<timer, m_SingleTimers, stack, time, thought, fresh>>
    BY <1>13 DEF vars, lists, clocks, history
  <2>2. Place' = Place /\ (Running' => Running)
    BY <2>1 DEF Place, Running
  <2> QED BY <2>1, <2>2, LateStays
<1> QED BY <1>1, <1>2, <1>3, <1>4, <1>5, <1>6, <1>7, <1>8, <1>9, <1>10, <1>11, <1>12, <1>13
        DEF Next, Callers, Game, Timers, RunFrame

(* RunFrame() leaves no single timer that was due when it began, although it
   stops at the first that is not and timers come and go under its iterator:
   only one created since then may be. *)
THEOREM NoSingleTimerLate == Spec => []NoneLate
<1>1. Init => LateOnlyAhead
  <2> SUFFICES ASSUME Init PROVE LateOnlyAhead
    OBVIOUS
  <2>1. ToSet(m_SingleTimers) = {} /\ stack = <<>>
    BY EmptyIs DEF Init
  <2> QED BY <2>1 DEF LateOnlyAhead, Sorted, Running
<1>2. CallInv /\ LateOnlyAhead => NoneLate
  BY DEF LateOnlyAhead, NoneLate, Ahead, Place, Idle
<1>3. CallInv /\ LateOnlyAhead /\ [Next]_vars => LateOnlyAhead'
  BY NextLate
<1> QED BY <1>1, <1>2, <1>3, AlwaysCall, PTL DEF Spec
=============================================================================
