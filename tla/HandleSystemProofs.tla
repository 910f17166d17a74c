------------------------- MODULE HandleSystemProofs -------------------------
(***************************************************************************)
(* Theorems about the handles: the free stack, reference counts, types,    *)
(* chains and objects agree with each other, for any number of handles,    *)
(* serials, identities and types, with calls from inside OnHandleDestroy(),*)
(* until one of the things happens that the variable mangled records.      *)
(***************************************************************************)
EXTENDS HandleSystem, SublistProofs, FiniteSetTheorems

-----------------------------------------------------------------------------
(***************************************************************************)
(* The vector, field by field.                                             *)
(***************************************************************************)
Vectors == [Indices -> QHandles]
Links   == 0..MaxHandles

(* Two handles that differ in their links at most. *)
SameBook(a, b) ==
    /\ a.set = b.set /\ a.type = b.type /\ a.object = b.object /\ a.owner = b.owner
    /\ a.serial = b.serial /\ a.refcount = b.refcount /\ a.clone = b.clone
    /\ a.is_destroying = b.is_destroying

(* g is h with one link written, or none when there is no handle i. *)
PrevWritten(g, h, i, p) ==
    /\ g \in Vectors
    /\ \A j \in Indices : /\ SameBook(g[j], h[j]) /\ g[j].ch_next = h[j].ch_next
                          /\ g[j].ch_prev = IF j = i THEN p ELSE h[j].ch_prev
NextWritten(g, h, i, n) ==
    /\ g \in Vectors
    /\ \A j \in Indices : /\ SameBook(g[j], h[j]) /\ g[j].ch_prev = h[j].ch_prev
                          /\ g[j].ch_next = IF j = i THEN n ELSE h[j].ch_next

LEMMA SetPrevIs ==
    ASSUME NEW h \in Vectors, NEW i \in Links, NEW p \in Links
    PROVE  PrevWritten(SetPrev(h, i, p), h, i, p)
<1> DEFINE g == SetPrev(h, i, p)
<1>1. CASE i = 0
  BY <1>1 DEF SetPrev, SameBook, Indices, PrevWritten
<1>2. CASE i # 0
  <2>1. g = [h EXCEPT ![i].ch_prev = p] /\ i \in Indices
    BY <1>2 DEF SetPrev, Indices, Links
  <2> HIDE DEF g
  <2>2. PrevWritten(g, h, i, p)
    BY <2>1 DEF Vectors, QHandles, SameBook, Links, PrevWritten
  <2> QED BY <2>2 DEF g
<1> QED BY <1>1, <1>2

LEMMA SetNextIs ==
    ASSUME NEW h \in Vectors, NEW i \in Links, NEW n \in Links
    PROVE  NextWritten(SetNext(h, i, n), h, i, n)
<1> DEFINE g == SetNext(h, i, n)
<1>1. CASE i = 0
  BY <1>1 DEF SetNext, SameBook, Indices, NextWritten
<1>2. CASE i # 0
  <2>1. g = [h EXCEPT ![i].ch_next = n] /\ i \in Indices
    BY <1>2 DEF SetNext, Indices, Links
  <2> HIDE DEF g
  <2>2. NextWritten(g, h, i, n)
    BY <2>1 DEF Vectors, QHandles, SameBook, Links, NextWritten
  <2> QED BY <2>2 DEF g
<1> QED BY <1>1, <1>2

LEMMA LinksTyped ==
    ASSUME NEW h \in Vectors
    PROVE  /\ \A j \in Indices : h[j] \in QHandles /\ h[j].ch_prev \in Links /\ h[j].ch_next \in Links
           /\ 0 \in Links /\ Indices \subseteq Links /\ Links \ {0} = Indices
<1>1. \A j \in Indices : h[j] \in QHandles /\ h[j].ch_prev \in Links /\ h[j].ch_next \in Links
  BY DEF Vectors, QHandles, Links
<1>2. 0 \in Links /\ Indices \subseteq Links /\ Links \ {0} = Indices
  BY HandleConstants DEF Links, Indices
<1> QED BY <1>1, <1>2

(* What UnlinkHandleFromOwner() writes: the links of the identity and of the
   neighbours p and n of the handle. *)
Unlinked(g, h, i, id, p, n) ==
    /\ g \in Vectors /\ \A j \in Indices : SameBook(g[j], h[j])
    /\ id = 0 => g = h
    /\ id # 0 /\ i = h[id].ch_prev /\ i = h[id].ch_next => \A j \in Indices :
          /\ g[j].ch_prev = IF j = id THEN 0 ELSE h[j].ch_prev
          /\ g[j].ch_next = IF j = id THEN 0 ELSE h[j].ch_next
    /\ id # 0 /\ i = h[id].ch_prev /\ i # h[id].ch_next => \A j \in Indices :
          /\ g[j].ch_prev = IF j = n THEN 0 ELSE IF j = id THEN n ELSE h[j].ch_prev
          /\ g[j].ch_next = h[j].ch_next
    /\ id # 0 /\ i # h[id].ch_prev /\ i = h[id].ch_next => \A j \in Indices :
          /\ g[j].ch_prev = h[j].ch_prev
          /\ g[j].ch_next = IF j = p THEN 0 ELSE IF j = id THEN p ELSE h[j].ch_next
    /\ id # 0 /\ i # h[id].ch_prev /\ i # h[id].ch_next => \A j \in Indices :
          /\ g[j].ch_prev = IF j = n THEN p ELSE h[j].ch_prev
          /\ g[j].ch_next = IF j = p THEN n ELSE h[j].ch_next

LEMMA UnlinkIs ==
    ASSUME NEW h \in Vectors, NEW i \in Indices, NEW id \in Links
    PROVE  Unlinked(UnlinkHandleFromOwner(h, i, id), h, i, id, h[i].ch_prev, h[i].ch_next)
<1>0. PICK g, p, n : /\ g = UnlinkHandleFromOwner(h, i, id)
                     /\ p = h[i].ch_prev /\ n = h[i].ch_next
  OBVIOUS
<1>1. p \in Links /\ n \in Links /\ 0 \in Links
  BY <1>0, LinksTyped
<1>2. CASE id = 0
  <2>1. g = h
    BY <1>0, <1>2 DEF UnlinkHandleFromOwner
  <2>2. Unlinked(g, h, i, id, p, n)
    BY <1>2, <2>1 DEF SameBook, Unlinked
  <2> QED BY <1>0, <2>2
<1>3. CASE id # 0 /\ i = h[id].ch_prev /\ i = h[id].ch_next
  <2>1. PICK f : f = SetPrev(h, id, 0)
    OBVIOUS
  <2>2. g = SetNext(f, id, 0)
    BY <1>0, <1>3, <2>1 DEF UnlinkHandleFromOwner, SetPrev, SetNext
  <2>3. PrevWritten(f, h, id, 0)
    BY <1>1, <2>1, SetPrevIs
  <2>6. f \in Vectors
    BY <2>3 DEF PrevWritten
  <2>4. NextWritten(g, f, id, 0)
    BY <1>1, <2>2, <2>6, SetNextIs
  <2>5. Unlinked(g, h, i, id, p, n)
    BY <1>3, <2>3, <2>4 DEF SameBook, PrevWritten, NextWritten, Unlinked
  <2> QED BY <1>0, <2>5
<1>4. CASE id # 0 /\ i = h[id].ch_prev /\ i # h[id].ch_next
  <2>1. PICK f : f = SetPrev(h, id, n)
    OBVIOUS
  <2>2. g = SetPrev(f, n, 0)
    BY <1>0, <1>4, <2>1 DEF UnlinkHandleFromOwner, SetPrev
  <2>3. PrevWritten(f, h, id, n)
    BY <1>1, <2>1, SetPrevIs
  <2>6. f \in Vectors
    BY <2>3 DEF PrevWritten
  <2>4. PrevWritten(g, f, n, 0)
    BY <1>1, <2>2, <2>6, SetPrevIs
  <2>5. Unlinked(g, h, i, id, p, n)
    BY <1>4, <2>3, <2>4 DEF SameBook, PrevWritten, Unlinked
  <2> QED BY <1>0, <2>5
<1>5. CASE id # 0 /\ i # h[id].ch_prev /\ i = h[id].ch_next
  <2>1. PICK f : f = SetNext(h, id, p)
    OBVIOUS
  <2>2. g = SetNext(f, p, 0)
    BY <1>0, <1>5, <2>1 DEF UnlinkHandleFromOwner, SetNext
  <2>3. NextWritten(f, h, id, p)
    BY <1>1, <2>1, SetNextIs
  <2>6. f \in Vectors
    BY <2>3 DEF NextWritten
  <2>4. NextWritten(g, f, p, 0)
    BY <1>1, <2>2, <2>6, SetNextIs
  <2>5. Unlinked(g, h, i, id, p, n)
    BY <1>5, <2>3, <2>4 DEF SameBook, NextWritten, Unlinked
  <2> QED BY <1>0, <2>5
<1>6. CASE id # 0 /\ i # h[id].ch_prev /\ i # h[id].ch_next
  <2>1. PICK f : f = SetPrev(h, n, p)
    OBVIOUS
  <2>2. g = SetNext(f, p, n)
    BY <1>0, <1>6, <2>1 DEF UnlinkHandleFromOwner
  <2>3. PrevWritten(f, h, n, p)
    BY <1>1, <2>1, SetPrevIs
  <2>6. f \in Vectors
    BY <2>3 DEF PrevWritten
  <2>4. NextWritten(g, f, p, n)
    BY <1>1, <2>2, <2>6, SetNextIs
  <2>5. Unlinked(g, h, i, id, p, n)
    BY <1>6, <2>3, <2>4 DEF SameBook, PrevWritten, NextWritten, Unlinked
  <2> QED BY <1>0, <2>5
<1> QED BY <1>2, <1>3, <1>4, <1>5, <1>6

(* A new handle goes to the tail of its owner's chain, after handle n. *)
Linked(g, h, i, id, n) ==
    /\ g \in Vectors /\ \A j \in Indices : SameBook(g[j], h[j])
    /\ id = 0 => g = h
    /\ id # 0 /\ h[id].ch_prev = 0 => \A j \in Indices :
          /\ g[j].ch_prev = IF j = id THEN i ELSE h[j].ch_prev
          /\ g[j].ch_next = IF j = id THEN i ELSE h[j].ch_next
    /\ id # 0 /\ h[id].ch_prev # 0 => \A j \in Indices :
          /\ g[j].ch_prev = IF j = i THEN n ELSE h[j].ch_prev
          /\ g[j].ch_next = IF j = id \/ j = n THEN i ELSE h[j].ch_next

LEMMA LinkIs ==
    ASSUME NEW h \in Vectors, NEW i \in Indices, NEW id \in Links
    PROVE  Linked(Link(h, i, id), h, i, id, h[id].ch_next)
<1>0. PICK g, n : g = Link(h, i, id) /\ n = h[id].ch_next
  OBVIOUS
<1>1. CASE id = 0
  <2>1. g = h
    BY <1>0, <1>1 DEF Link
  <2>2. Linked(g, h, i, id, n)
    BY <1>1, <2>1 DEF Linked, SameBook
  <2> QED BY <1>0, <2>2
<1>2. ASSUME id # 0
      PROVE  id \in Indices /\ i \in Links /\ n \in Links
  BY <1>0, <1>2, LinksTyped
<1>3. CASE id # 0 /\ h[id].ch_prev = 0
  <2>1. PICK f : f = SetPrev(h, id, i)
    OBVIOUS
  <2>2. g = SetNext(f, id, i)
    BY <1>0, <1>3, <2>1 DEF Link, SetPrev, SetNext
  <2>3. PrevWritten(f, h, id, i)
    BY <1>2, <1>3, <2>1, SetPrevIs
  <2>6. f \in Vectors
    BY <2>3 DEF PrevWritten
  <2>4. NextWritten(g, f, id, i)
    BY <1>2, <1>3, <2>2, <2>6, SetNextIs
  <2>5. Linked(g, h, i, id, n)
    BY <1>3, <2>3, <2>4 DEF Linked, SameBook, PrevWritten, NextWritten
  <2> QED BY <1>0, <2>5
<1>4. CASE id # 0 /\ h[id].ch_prev # 0
  <2>1. PICK e : e = SetPrev(h, i, n)
    OBVIOUS
  <2>2. PICK f : f = SetNext(e, n, i)
    OBVIOUS
  <2>3. PrevWritten(e, h, i, n)
    BY <1>2, <1>4, <2>1, SetPrevIs
  <2>4. NextWritten(f, e, n, i)
    <3>1. e \in Vectors
      BY <2>3 DEF PrevWritten
    <3> QED BY <1>2, <1>4, <2>2, <3>1, SetNextIs
  <2>5. i # 0
    BY DEF Indices
  <2>6. e = [h EXCEPT ![i].ch_prev = n]
    BY <2>1, <2>5 DEF SetPrev
  <2>7. g = [f EXCEPT ![id].ch_next = i]
    BY <1>0, <1>4, <2>2, <2>6 DEF Link
  <2>8. g = SetNext(f, id, i)
    BY <1>4, <2>7 DEF SetNext
  <2>9. NextWritten(g, f, id, i)
    <3>1. f \in Vectors
      BY <2>4 DEF NextWritten
    <3> QED BY <1>2, <1>4, <2>8, <3>1, SetNextIs
  <2>10. Linked(g, h, i, id, n)
    BY <1>4, <2>3, <2>4, <2>9 DEF Linked, SameBook, PrevWritten, NextWritten
  <2> QED BY <1>0, <2>10
<1> QED BY <1>1, <1>3, <1>4

(* How g's links follow from h's when handle i leaves the chain of id. *)
Relinked(g, h, i, id) ==
    LET p == h[i].ch_prev  n == h[i].ch_next
    IN  /\ id = 0 => \A j \in Indices : g[j].ch_prev = h[j].ch_prev /\ g[j].ch_next = h[j].ch_next
        /\ id # 0 /\ i = h[id].ch_prev /\ i = h[id].ch_next => \A j \in Indices :
              /\ g[j].ch_prev = IF j = id THEN 0 ELSE h[j].ch_prev
              /\ g[j].ch_next = IF j = id THEN 0 ELSE h[j].ch_next
        /\ id # 0 /\ i = h[id].ch_prev /\ i # h[id].ch_next => \A j \in Indices :
              /\ g[j].ch_prev = IF j = n THEN 0 ELSE IF j = id THEN n ELSE h[j].ch_prev
              /\ g[j].ch_next = h[j].ch_next
        /\ id # 0 /\ i # h[id].ch_prev /\ i = h[id].ch_next => \A j \in Indices :
              /\ g[j].ch_prev = h[j].ch_prev
              /\ g[j].ch_next = IF j = p THEN 0 ELSE IF j = id THEN p ELSE h[j].ch_next
        /\ id # 0 /\ i # h[id].ch_prev /\ i # h[id].ch_next => \A j \in Indices :
              /\ g[j].ch_prev = IF j = n THEN p ELSE h[j].ch_prev
              /\ g[j].ch_next = IF j = p THEN n ELSE h[j].ch_next

SameLinks(g, h) ==
    \A j \in Indices : g[j].ch_prev = h[j].ch_prev /\ g[j].ch_next = h[j].ch_next

(* What becomes of the vector in every operation that makes no handle: those
   in R are released, those in F marked as freed, those in D are being
   destroyed, and m has lost a reference. *)
Changed(g, h, R, F, D, m) ==
    /\ g \in Vectors
    /\ \A j \in Indices :
         /\ g[j].type = h[j].type /\ g[j].object = h[j].object /\ g[j].owner = h[j].owner
         /\ g[j].serial = h[j].serial /\ g[j].clone = h[j].clone
         /\ g[j].set = IF j \in R THEN "none" ELSE IF j \in F THEN "freed" ELSE h[j].set
         /\ g[j].refcount = IF j = m THEN h[j].refcount - 1 ELSE h[j].refcount
         /\ j \in D => g[j].is_destroying = TRUE
         /\ j \notin D => g[j].is_destroying = h[j].is_destroying

LEMMA NotZero == \A j \in Indices : j # 0
  BY DEF Indices

LEMMA UnlinkChanges ==
    ASSUME NEW h \in Vectors, NEW i \in Indices, NEW id \in Links
    PROVE  /\ Changed(UnlinkHandleFromOwner(h, i, id), h, {}, {}, {}, 0)
           /\ Relinked(UnlinkHandleFromOwner(h, i, id), h, i, id)
<1>1. PICK g : g = UnlinkHandleFromOwner(h, i, id)
  OBVIOUS
<1>2. Unlinked(g, h, i, id, h[i].ch_prev, h[i].ch_next)
  BY <1>1, UnlinkIs
<1>3. Relinked(g, h, i, id)
  BY <1>2 DEF Unlinked, Relinked
<1>4. Changed(g, h, {}, {}, {}, 0)
  BY <1>2, NotZero DEF Unlinked, Changed, SameBook
<1> QED BY <1>1, <1>3, <1>4

LEMMA ReleaseChanges ==
    ASSUME NEW h \in Vectors, NEW i \in Indices, NEW id \in Links
    PROVE  /\ Changed(ReleasePrimHandle(h, i, id), h, {i}, {}, {}, 0)
           /\ Relinked(ReleasePrimHandle(h, i, id), h, i, id)
<1>1. PICK f, g : f = UnlinkHandleFromOwner(h, i, id) /\ g = ReleasePrimHandle(h, i, id)
  OBVIOUS
<1>2. Changed(f, h, {}, {}, {}, 0) /\ Relinked(f, h, i, id)
  BY <1>1, UnlinkChanges
<1>3. g = [f EXCEPT ![i].set = "none"]
  BY <1>1 DEF ReleasePrimHandle
<1>4. f \in Vectors
  BY <1>2 DEF Changed
<1>5. /\ g \in Vectors /\ SameLinks(g, f)
      /\ \A j \in Indices : /\ j # i => g[j] = f[j]
                            /\ SameBook(g[j], [f[j] EXCEPT !.set = g[j].set])
      /\ g[i].set = "none"
  BY <1>3, <1>4 DEF Vectors, QHandles, SameBook, SameLinks
<1>6. \A j \in Indices : f[j] \in QHandles /\ g[j] \in QHandles
  BY <1>4, <1>5, LinksTyped
<1>7. Changed(g, f, {i}, {}, {}, 0)
  BY <1>5, <1>6, NotZero DEF Changed, SameBook, QHandles
<1>8. Changed(g, h, {i}, {}, {}, 0)
  BY <1>2, <1>7, NotZero DEF Changed
<1>9. Relinked(g, h, i, id)
  BY <1>2, <1>5 DEF Relinked, SameLinks
<1> QED BY <1>1, <1>8, <1>9

(* Losing a reference, and being marked. *)
LEMMA RefcountChanges ==
    ASSUME NEW h \in Vectors, NEW m \in Indices
    PROVE  LET g == [h EXCEPT ![m].refcount = @ - 1]
           IN  Changed(g, h, {}, {}, {}, m) /\ SameLinks(g, h)
<1>1. PICK g : g = [h EXCEPT ![m].refcount = @ - 1]
  OBVIOUS
<1>2. h[m].refcount \in Int
  BY DEF Vectors, QHandles
<1>3. Changed(g, h, {}, {}, {}, m) /\ SameLinks(g, h)
  BY <1>1, <1>2 DEF Changed, SameLinks, Vectors, QHandles
<1> QED BY <1>1, <1>3

LEMMA DestroyingChanges ==
    ASSUME NEW h \in Vectors, NEW m \in Indices
    PROVE  LET g == [h EXCEPT ![m].is_destroying = TRUE]
           IN  Changed(g, h, {}, {}, {m}, 0) /\ SameLinks(g, h)
<1>1. PICK g : g = [h EXCEPT ![m].is_destroying = TRUE]
  OBVIOUS
<1>2. g \in Vectors
  BY <1>1 DEF Vectors, QHandles
<1>3. Changed(g, h, {}, {}, {m}, 0) /\ SameLinks(g, h)
  BY <1>1, <1>2, NotZero DEF Changed, SameLinks, Vectors, QHandles
<1> QED BY <1>1, <1>3

LEMMA FreedChanges ==
    ASSUME NEW h \in Vectors, NEW m \in Indices
    PROVE  LET g == [h EXCEPT ![m].set = "freed"]
           IN  Changed(g, h, {}, {m}, {}, 0) /\ SameLinks(g, h)
<1>1. PICK g : g = [h EXCEPT ![m].set = "freed"]
  OBVIOUS
<1>2. g \in Vectors
  BY <1>1 DEF Vectors, QHandles
<1>3. Changed(g, h, {}, {m}, {}, 0) /\ SameLinks(g, h)
  BY <1>1, <1>2, NotZero DEF Changed, SameLinks, Vectors, QHandles
<1> QED BY <1>1, <1>3

-----------------------------------------------------------------------------
(***************************************************************************)
(* What holds also after links have been mangled: types, the shape of the  *)
(* stack of calls, and the serials.                                        *)
(***************************************************************************)
Period == MaxSerials - 1

(* Which frames there are: RemoveType() is only ever the outermost call, and
   looks for its next handle only when nothing else is under way. *)
Shape ==
    \A k \in DOMAIN stack :
      /\ stack[k].op = "free" => stack[k].at = "destroy"
      /\ stack[k].op = "identity" => stack[k].at = "look"
      /\ stack[k].op # "type" \/ stack[k].at = "destroy" => stack[k].i \in Indices
      /\ stack[k].op = "type" => /\ k = 1 /\ stack[k].type \in Types \ types
                                 /\ stack[k].at = "look" => Len(stack) = 1

(* Two handles made less than a round of serials apart have serials that
   differ by as much, or by as much less a round. *)
Serials ==
    /\ m_HSerial = IF given = <<>> THEN 0 ELSE given[Len(given)].serial
    /\ \A j, k \in DOMAIN given : j < k /\ k - j < Period =>
          given[k].serial - given[j].serial \in {k - j, k - j - Period}

Base == HandleTypeOK /\ Shape /\ Serials

-----------------------------------------------------------------------------
(***************************************************************************)
(* What the operations do to the vector and the stack.                     *)
(***************************************************************************)
(* The last reference to m is gone and OnHandleDestroy() is called; or it is
   not; or there is no dispatch to call. *)
LastGone(m) ==
    /\ m_Handles[m].refcount = 1 /\ m_Handles[m].type \in types
    /\ destroyed' = [destroyed EXCEPT ![m_Handles[m].object] = @ + 1]
    /\ stack' = Append(stack, Frame("free", m, NULL, "destroy"))
    /\ crashed' = crashed
StillHeld(m) ==
    /\ m_Handles[m].refcount # 1
    /\ stack' = stack /\ destroyed' = destroyed /\ crashed' = crashed
Crashes(m) ==
    /\ m_Handles[m].refcount = 1 /\ m_Handles[m].type \notin types
    /\ stack' = stack /\ destroyed' = destroyed /\ crashed' = TRUE

(* Handle i leaves the chain it is found in; g and h are the vector after and
   before.  A freed one has left it before, and that is no change unless the
   links are mangled by it. *)
Unlinks(g, h, i) ==
    \E id \in IdentityHandle(h[i].owner) :
       /\ Relinked(g, h, i, id)
       /\ h[i].set = "freed" /\ ~mangled' => SameLinks(g, h)

LEMMA IdentityHandleTyped ==
    ASSUME HandleTypeOK, NEW h \in Vectors, NEW i \in Indices
    PROVE  IdentityHandle(h[i].owner) \subseteq Links
<1>1. h[i].owner \in Tokens \cup {NULL}
  BY DEF Vectors, QHandles
<1>2. \A t \in Live : identity[t] \in Links
  BY DEF HandleTypeOK, Live, Links
<1>3. 0 \in Links
  BY LinksTyped
<1> QED BY <1>1, <1>2, <1>3 DEF IdentityHandle

(* Releasing a handle as an action does it, with the note it makes. *)
LEMMA ReleaseUnlinks ==
    ASSUME NEW h \in Vectors, NEW i \in Indices, NEW id \in Links, NEW M,
           id \in IdentityHandle(h[i].owner),
           mangled' = (M \/ Mangles(h, i, id))
    PROVE  Unlinks(ReleasePrimHandle(h, i, id), h, i)
<1>1. PICK f, g : f = UnlinkHandleFromOwner(h, i, id) /\ g = ReleasePrimHandle(h, i, id)
  OBVIOUS
<1>2. Relinked(g, h, i, id)
  BY <1>1, ReleaseChanges
<1>3. ASSUME h[i].set = "freed", ~mangled'
      PROVE  SameLinks(g, h)
  <2>1. f = h
    BY <1>1, <1>3 DEF Mangles
  <2>2. g = [h EXCEPT ![i].set = "none"]
    BY <1>1, <2>1 DEF ReleasePrimHandle
  <2> QED BY <2>2 DEF SameLinks, Vectors, QHandles
<1> QED BY <1>1, <1>2, <1>3 DEF Unlinks

(* Freeing a clone releases it, and its master loses a reference. *)
CloneGone(i) ==
    LET m == m_Handles[i].clone
    IN  /\ m \in Indices
        /\ Unlinks(m_Handles', m_Handles, i)
        /\ \/ StillHeld(m) /\ Changed(m_Handles', m_Handles, {i}, {}, {}, m)
           \/ LastGone(m) /\ Changed(m_Handles', m_Handles, {i}, {}, {m}, m)
           \/ Crashes(m) /\ Changed(m_Handles', m_Handles, {i}, {}, {}, m)
        /\ m_FreeHandles' = Append(m_FreeHandles, i)
        /\ opened' = [opened EXCEPT ![m_Handles[i].type] = @ - 1]
        /\ mangled \/ BeyondUse(m) => mangled'

LEMMA ClearedChanges ==
    ASSUME NEW h \in Vectors, NEW m \in Indices
    PROVE  LET g == [h EXCEPT ![m].set = "none"]
           IN  Changed(g, h, {m}, {}, {}, 0) /\ SameLinks(g, h)
<1>1. PICK g : g = [h EXCEPT ![m].set = "none"]
  OBVIOUS
<1>2. g \in Vectors
  BY <1>1 DEF Vectors, QHandles
<1>3. Changed(g, h, {m}, {}, {}, 0) /\ SameLinks(g, h)
  BY <1>1, <1>2, NotZero DEF Changed, SameLinks, Vectors, QHandles
<1> QED BY <1>1, <1>3

(* Changes one after the other. *)
LEMMA ThenReference ==
    ASSUME NEW h, NEW f, NEW g, NEW R, NEW F, NEW D, NEW m,
           Changed(f, h, R, F, {}, 0), Changed(g, f, {}, {}, D, m)
    PROVE  Changed(g, h, R, F, D, m)
  BY NotZero DEF Changed

LEMMA ThenDestroying ==
    ASSUME NEW h, NEW f, NEW g, NEW R, NEW F, NEW D, NEW m,
           Changed(f, h, R, F, {}, m), Changed(g, f, {}, {}, D, 0)
    PROVE  Changed(g, h, R, F, D, m)
  BY NotZero DEF Changed

LEMMA ThenRelease ==
    ASSUME NEW h, NEW f, NEW g, NEW R, NEW F, NEW m,
           Changed(f, h, {}, {}, {}, m), Changed(g, f, R, F, {}, 0)
    PROVE  Changed(g, h, R, F, {}, m)
  BY NotZero DEF Changed

LEMMA ThenUnlink ==
    ASSUME NEW h, NEW f, NEW g, NEW R, NEW F, NEW m,
           Changed(f, h, R, F, {}, m), Changed(g, f, {}, {}, {}, 0)
    PROVE  Changed(g, h, R, F, {}, m)
  BY NotZero DEF Changed

LEMMA ThenSecond ==
    ASSUME NEW h, NEW f, NEW g, NEW i, NEW k,
           Changed(f, h, {k}, {}, {}, 0), Changed(g, f, {i}, {}, {}, 0)
    PROVE  Changed(g, h, {k, i}, {}, {}, 0)
  BY NotZero DEF Changed

LEMMA ThenSameLinks ==
    ASSUME NEW h, NEW f, NEW g, NEW i, Unlinks(f, h, i), SameLinks(g, f)
    PROVE  Unlinks(g, h, i)
<1>1. PICK id \in IdentityHandle(h[i].owner) :
          Relinked(f, h, i, id) /\ (h[i].set = "freed" /\ ~mangled' => SameLinks(f, h))
  BY DEF Unlinks
<1>2. Relinked(g, h, i, id)
  BY <1>1 DEF Relinked, SameLinks
<1>3. SameLinks(f, h) => SameLinks(g, h)
  BY DEF SameLinks
<1> QED BY <1>1, <1>2, <1>3 DEF Unlinks

(* The call of OnHandleDestroy(), after m has lost a reference. *)
LEMMA OnHandleDestroyIs ==
    ASSUME NEW f, NEW R, NEW F, NEW m \in Indices, Changed(f, m_Handles, R, F, {}, m),
           HandleTypeOK, f[m].refcount = 0, OnHandleDestroy(f, m)
    PROVE  /\ SameLinks(m_Handles', f)
           /\ \/ LastGone(m) /\ Changed(m_Handles', m_Handles, R, F, {m}, m)
              \/ Crashes(m) /\ Changed(m_Handles', m_Handles, R, F, {}, m)
<1>1. /\ f[m].type = m_Handles[m].type /\ f[m].object = m_Handles[m].object
      /\ f[m].refcount = m_Handles[m].refcount - 1 /\ f \in Vectors
  BY DEF Changed
<1>2. m_Handles[m].refcount = 1
  BY <1>1 DEF HandleTypeOK, QHandles
<1>3. CASE f[m].type \in types
  <2>1. Changed(m_Handles', f, {}, {}, {m}, 0) /\ SameLinks(m_Handles', f)
    BY <1>1, <1>3, DestroyingChanges DEF OnHandleDestroy
  <2>2. Changed(m_Handles', m_Handles, R, F, {m}, m)
    BY <2>1, ThenDestroying
  <2>3. LastGone(m)
    BY <1>1, <1>2, <1>3 DEF OnHandleDestroy, LastGone
  <2> QED BY <2>1, <2>2, <2>3
<1>4. CASE f[m].type \notin types
  <2>1. m_Handles' = f /\ Crashes(m)
    BY <1>1, <1>2, <1>4 DEF OnHandleDestroy, Crashes
  <2> QED BY <2>1 DEF SameLinks
<1> QED BY <1>3, <1>4

LEMMA FreeCloneIs ==
    ASSUME HandleTypeOK, NEW i \in Indices, FreeClone(i)
    PROVE  CloneGone(i)
<1>1. PICK m : m = m_Handles[i].clone
  OBVIOUS
<1>2. m \in Indices /\ m_Handles \in Vectors
  BY <1>1 DEF FreeClone, HandleTypeOK, QHandles, Vectors, Indices
<1>3. PICK id \in IdentityHandle(m_Handles[i].owner) :
         LET h == [ReleasePrimHandle(m_Handles, i, id) EXCEPT ![m].refcount = @ - 1]
         IN  /\ mangled' = (mangled \/ Mangles(m_Handles, i, id) \/ BeyondUse(m))
             /\ IF NoneLeft(h, m) THEN OnHandleDestroy(h, m)
                ELSE m_Handles' = h /\ UNCHANGED <<stack, destroyed, crashed>>
  BY <1>1 DEF FreeClone
<1>4. PICK e : e = ReleasePrimHandle(m_Handles, i, id)
  OBVIOUS
<1>5. PICK f : f = [e EXCEPT ![m].refcount = @ - 1]
  OBVIOUS
<1>6. id \in Links
  BY <1>2, IdentityHandleTyped
<1>7. Changed(e, m_Handles, {i}, {}, {}, 0) /\ Unlinks(e, m_Handles, i)
  BY <1>2, <1>3, <1>4, <1>6, ReleaseChanges, ReleaseUnlinks
<1>8. e \in Vectors
  BY <1>7 DEF Changed
<1>9. Changed(f, e, {}, {}, {}, m) /\ SameLinks(f, e)
  BY <1>2, <1>5, <1>8, RefcountChanges
<1>10. Changed(f, m_Handles, {i}, {}, {}, m) /\ Unlinks(f, m_Handles, i)
  BY <1>7, <1>9, ThenReference, ThenSameLinks
<1>11. /\ Unlinks(m_Handles', m_Handles, i)
       /\ \/ StillHeld(m) /\ Changed(m_Handles', m_Handles, {i}, {}, {}, m)
          \/ LastGone(m) /\ Changed(m_Handles', m_Handles, {i}, {}, {m}, m)
          \/ Crashes(m) /\ Changed(m_Handles', m_Handles, {i}, {}, {}, m)
  <2>1. CASE NoneLeft(f, m)
    <3>1. OnHandleDestroy(f, m) /\ f[m].refcount = 0
      BY <1>3, <1>4, <1>5, <2>1 DEF NoneLeft
    <3>2. /\ SameLinks(m_Handles', f)
          /\ \/ LastGone(m) /\ Changed(m_Handles', m_Handles, {i}, {}, {m}, m)
             \/ Crashes(m) /\ Changed(m_Handles', m_Handles, {i}, {}, {}, m)
      BY <1>2, <1>10, <3>1, OnHandleDestroyIs
    <3> QED BY <1>10, <3>2, ThenSameLinks
  <2>2. CASE ~NoneLeft(f, m)
    <3>1. m_Handles' = f /\ UNCHANGED <<stack, destroyed, crashed>>
      BY <1>3, <1>4, <1>5, <2>2
    <3>2. f[m].refcount # 0 /\ f[m].refcount = m_Handles[m].refcount - 1
      BY <1>2, <1>10, <2>2 DEF NoneLeft, Changed
    <3>3. m_Handles[m].refcount # 1
      BY <3>2
    <3> QED BY <1>10, <3>1, <3>3 DEF StillHeld
  <2> QED BY <2>1, <2>2
<1>12. mangled \/ BeyondUse(m) => mangled'
  BY <1>3
<1> QED BY <1>1, <1>2, <1>11, <1>12 DEF CloneGone, FreeClone

(* Freeing a master that still has clones only marks it. *)
MasterGone(i) ==
    /\ m_Handles[i].clone = 0 /\ m_Handles[i].set # "identity"
    /\ \/ /\ StillHeld(i) /\ Changed(m_Handles', m_Handles, {}, {i}, {}, i)
          /\ \E id \in IdentityHandle(m_Handles[i].owner) : Relinked(m_Handles', m_Handles, i, id)
       \/ /\ LastGone(i) /\ Changed(m_Handles', m_Handles, {}, {}, {i}, i)
          /\ SameLinks(m_Handles', m_Handles)
       \/ /\ Crashes(i) /\ Changed(m_Handles', m_Handles, {}, {}, {}, i)
          /\ SameLinks(m_Handles', m_Handles)
    /\ m_FreeHandles' = m_FreeHandles /\ opened' = opened /\ mangled' = mangled

LEMMA SameLinksRelinked ==
    ASSUME NEW e, NEW h, NEW g, NEW i \in Indices, NEW id \in Links,
           SameLinks(h, e), Relinked(g, h, i, id)
    PROVE  Relinked(g, e, i, id)
<1>1. \A j \in Indices : e[j].ch_prev = h[j].ch_prev /\ e[j].ch_next = h[j].ch_next
  BY DEF SameLinks
<1>2. id # 0 => id \in Indices
  BY DEF Links, Indices
<1> QED BY <1>1, <1>2 DEF Relinked

LEMMA FreeMasterIs ==
    ASSUME HandleTypeOK, NEW i \in Indices, FreeMaster(i)
    PROVE  MasterGone(i)
<1>1. m_Handles \in Vectors
  BY DEF HandleTypeOK, Vectors
<1>2. PICK h : h = [m_Handles EXCEPT ![i].refcount = @ - 1]
  OBVIOUS
<1>3. Changed(h, m_Handles, {}, {}, {}, i) /\ SameLinks(h, m_Handles)
  BY <1>1, <1>2, RefcountChanges
<1>4. /\ h \in Vectors /\ h[i].owner = m_Handles[i].owner /\ h[i].clone = m_Handles[i].clone
      /\ h[i].set = m_Handles[i].set /\ h[i].refcount = m_Handles[i].refcount - 1
  BY <1>3 DEF Changed
<1>5. /\ h[i].clone = 0 /\ h[i].set # "identity"
      /\ IF NoneLeft(h, i) THEN OnHandleDestroy(h, i)
         ELSE /\ \E id \in IdentityHandle(h[i].owner) :
                    m_Handles' = UnlinkHandleFromOwner([h EXCEPT ![i].set = "freed"], i, id)
              /\ UNCHANGED <<stack, destroyed, crashed>>
      /\ UNCHANGED <<m_FreeHandles, opened, mangled>>
  BY <1>2 DEF FreeMaster
<1>6. CASE NoneLeft(h, i)
  <2>1. OnHandleDestroy(h, i) /\ h[i].refcount = 0
    BY <1>5, <1>6 DEF NoneLeft
  <2>2. /\ SameLinks(m_Handles', h)
        /\ \/ LastGone(i) /\ Changed(m_Handles', m_Handles, {}, {}, {i}, i)
           \/ Crashes(i) /\ Changed(m_Handles', m_Handles, {}, {}, {}, i)
    BY <1>3, <2>1, OnHandleDestroyIs
  <2>3. SameLinks(m_Handles', m_Handles)
    BY <1>3, <2>2 DEF SameLinks
  <2> QED BY <1>4, <1>5, <2>2, <2>3 DEF MasterGone
<1>7. CASE ~NoneLeft(h, i)
  <2>1. PICK id \in IdentityHandle(m_Handles[i].owner) :
           /\ m_Handles' = UnlinkHandleFromOwner([h EXCEPT ![i].set = "freed"], i, id)
           /\ UNCHANGED <<stack, destroyed, crashed>>
    BY <1>4, <1>5, <1>7
  <2>2. PICK f : f = [h EXCEPT ![i].set = "freed"]
    OBVIOUS
  <2>3. Changed(f, h, {}, {i}, {}, 0) /\ SameLinks(f, h)
    BY <1>4, <2>2, FreedChanges
  <2>4. Changed(f, m_Handles, {}, {i}, {}, i)
    BY <1>3, <2>3, ThenRelease
  <2>5. f \in Vectors /\ id \in Links
    BY <1>1, <2>3, IdentityHandleTyped DEF Changed
  <2>6. Changed(m_Handles', f, {}, {}, {}, 0) /\ Relinked(m_Handles', f, i, id)
    BY <2>1, <2>2, <2>5, UnlinkChanges
  <2>7. Changed(m_Handles', m_Handles, {}, {i}, {}, i)
    BY <2>4, <2>6, ThenUnlink
  <2>8. SameLinks(f, m_Handles)
    BY <1>3, <2>3 DEF SameLinks
  <2>9. Relinked(m_Handles', m_Handles, i, id)
    BY <2>5, <2>6, <2>8, SameLinksRelinked
  <2>10. m_Handles[i].refcount # 1
    BY <1>4, <1>7 DEF NoneLeft
  <2> QED BY <1>4, <1>5, <2>1, <2>7, <2>9, <2>10 DEF MasterGone, StillHeld
<1> QED BY <1>6, <1>7

(* RemoveType() has come to handle i, the next one of its type. *)
Sighted(i) == i \in OfType /\ \A j \in OfType : i <= j

LEMMA SightedOne ==
    ASSUME HandleTypeOK, stack # <<>>, OfType # {}
    PROVE  Sighted(CHOOSE i \in OfType : \A j \in OfType : i <= j)
<1>1. OfType \subseteq Nat
  <2>1. Top \in Frames
    BY DEF HandleTypeOK, Top
  <2>2. Top.i \in Nat
    BY <2>1, HandleConstants DEF Frames
  <2> QED BY <2>2 DEF OfType, HandleTypeOK
<1>2. \E i \in OfType : \A j \in OfType : i <= j
  <2>1. PICK x \in OfType : TRUE
    OBVIOUS
  <2> QED BY <1>1, <2>1, LeastOf
<1> QED BY <1>2 DEF Sighted

(* The three ways RemoveType() deals with handle i, whose master is m. *)
NextDestroyed(i, m) ==
    /\ m_Handles[m].refcount = 1
    /\ Changed(m_Handles', m_Handles, {}, {}, {}, m) /\ SameLinks(m_Handles', m_Handles)
    /\ destroyed' = [destroyed EXCEPT ![m_Handles[m].object] = @ + 1]
    /\ stack' = [stack EXCEPT ![Len(stack)].i = i, ![Len(stack)].at = "destroy"]
    /\ m_FreeHandles' = m_FreeHandles /\ opened' = opened /\ mangled' = mangled
NextMaster(i, m) ==
    /\ m_Handles[m].refcount # 1 /\ m = i
    /\ Changed(m_Handles', m_Handles, {}, {}, {}, m) /\ SameLinks(m_Handles', m_Handles)
    /\ destroyed' = destroyed /\ stack' = Scanned(i)
    /\ m_FreeHandles' = m_FreeHandles /\ opened' = opened /\ mangled' = mangled
NextClone(i, m) ==
    /\ m_Handles[m].refcount # 1 /\ m # i
    /\ Changed(m_Handles', m_Handles, {i}, {}, {}, m) /\ Unlinks(m_Handles', m_Handles, i)
    /\ destroyed' = destroyed /\ stack' = Scanned(i)
    /\ m_FreeHandles' = Append(m_FreeHandles, i)
    /\ opened' = [opened EXCEPT ![Top.type] = @ - 1]
    /\ mangled => mangled'

LEMMA MasterOfTyped ==
    ASSUME HandleTypeOK, NEW i \in Indices
    PROVE  MasterOf(i) \in Indices
  BY DEF HandleTypeOK, QHandles, MasterOf, Indices

LEMMA OfTypeTyped ==
    ASSUME HandleTypeOK, stack # <<>>
    PROVE  OfType \subseteq Indices
<1>1. Top \in Frames
  BY DEF HandleTypeOK, Top
<1>2. Top.i \in Nat /\ Top.i >= 1
  BY <1>1, HandleConstants DEF Frames
<1> QED BY <1>2, HandleConstants DEF OfType, HandleTypeOK, Indices

LEMMA RemoveNextIs ==
    ASSUME HandleTypeOK, RemoveNext
    PROVE  \E i \in Indices : /\ Sighted(i)
                              /\ \/ NextDestroyed(i, MasterOf(i)) \/ NextMaster(i, MasterOf(i))
                                 \/ NextClone(i, MasterOf(i))
<1>1. PICK i : i = CHOOSE k \in OfType : \A j \in OfType : k <= j
  OBVIOUS
<1>2. Sighted(i)
  BY <1>1, SightedOne DEF RemoveNext, At
<1>3. i \in Indices /\ m_Handles \in Vectors
  BY <1>2, OfTypeTyped DEF Sighted, RemoveNext, At, HandleTypeOK, Vectors
<1>4. PICK m \in Indices : m = MasterOf(i)
  BY <1>3, MasterOfTyped
<1>5. PICK h : h = [m_Handles EXCEPT ![m].refcount = @ - 1]
  OBVIOUS
<1>6. IF NoneLeft(h, m)
      THEN /\ m_Handles' = h
           /\ destroyed' = [destroyed EXCEPT ![h[m].object] = @ + 1]
           /\ stack' = [stack EXCEPT ![Len(stack)].i = i, ![Len(stack)].at = "destroy"]
           /\ UNCHANGED <<m_FreeHandles, opened, mangled>>
      ELSE /\ stack' = Scanned(i)
           /\ IF m = i THEN m_Handles' = h /\ UNCHANGED <<m_FreeHandles, opened, mangled>>
              ELSE /\ \E id \in IdentityHandle(h[i].owner) :
                         /\ m_Handles' = ReleasePrimHandle(h, i, id)
                         /\ mangled' = (mangled \/ Mangles(h, i, id))
                   /\ m_FreeHandles' = Append(m_FreeHandles, i)
                   /\ opened' = [opened EXCEPT ![Top.type] = @ - 1]
           /\ UNCHANGED destroyed
  BY <1>1, <1>4, <1>5 DEF RemoveNext
<1>7. Changed(h, m_Handles, {}, {}, {}, m) /\ SameLinks(h, m_Handles)
  BY <1>3, <1>5, RefcountChanges
<1>8. /\ h \in Vectors /\ h[i].owner = m_Handles[i].owner /\ h[m].object = m_Handles[m].object
      /\ h[i].set = m_Handles[i].set /\ h[m].refcount = m_Handles[m].refcount - 1
  BY <1>3, <1>7 DEF Changed
<1>9. NoneLeft(h, m) <=> m_Handles[m].refcount = 1
  BY <1>3, <1>8 DEF NoneLeft, Vectors, QHandles
<1>10. CASE NoneLeft(h, m)
  <2>1. NextDestroyed(i, m)
    BY <1>6, <1>7, <1>8, <1>9, <1>10 DEF NextDestroyed
  <2> QED BY <1>2, <1>3, <1>4, <2>1
<1>11. CASE ~NoneLeft(h, m) /\ m = i
  <2>1. NextMaster(i, m)
    BY <1>6, <1>7, <1>9, <1>11 DEF NextMaster
  <2> QED BY <1>2, <1>3, <1>4, <2>1
<1>12. CASE ~NoneLeft(h, m) /\ m # i
  <2>1. PICK id \in IdentityHandle(h[i].owner) :
             /\ m_Handles' = ReleasePrimHandle(h, i, id)
             /\ mangled' = (mangled \/ Mangles(h, i, id))
    BY <1>6, <1>12
  <2>2. id \in Links
    BY <1>3, <1>8, IdentityHandleTyped
  <2>3. Changed(m_Handles', h, {i}, {}, {}, 0) /\ Unlinks(m_Handles', h, i)
    BY <1>3, <1>8, <2>1, <2>2, ReleaseChanges, ReleaseUnlinks
  <2>4. Changed(m_Handles', m_Handles, {i}, {}, {}, m)
    BY <1>7, <2>3, ThenRelease
  <2>5. Unlinks(m_Handles', m_Handles, i)
    <3>1. PICK jd \in IdentityHandle(m_Handles[i].owner) :
             /\ Relinked(m_Handles', h, i, jd)
             /\ m_Handles[i].set = "freed" /\ ~mangled' => SameLinks(m_Handles', h)
      BY <1>8, <2>3 DEF Unlinks
    <3>2. jd \in Links
      BY <1>3, IdentityHandleTyped
    <3>3. Relinked(m_Handles', m_Handles, i, jd)
      BY <1>3, <1>7, <3>1, <3>2, SameLinksRelinked
    <3>4. SameLinks(m_Handles', h) => SameLinks(m_Handles', m_Handles)
      BY <1>7 DEF SameLinks
    <3> QED BY <3>1, <3>3, <3>4 DEF Unlinks
  <2>6. NextClone(i, m)
    BY <1>6, <1>9, <1>12, <2>1, <2>4, <2>5 DEF NextClone
  <2> QED BY <1>2, <1>3, <1>4, <2>6
<1> QED BY <1>10, <1>11, <1>12

(* What RemoveType() releases after OnHandleDestroy(): handle i, and its master
   m if that is another one. *)
OneReleased(i) ==
    /\ Changed(m_Handles', m_Handles, {i}, {}, {}, 0) /\ Unlinks(m_Handles', m_Handles, i)
    /\ m_FreeHandles' = Append(m_FreeHandles, i)
    /\ opened' = [opened EXCEPT ![m_Handles[i].type] = @ - 1]
TwoReleased(f, i, m) ==
    /\ Changed(f, m_Handles, {m}, {}, {}, 0) /\ Unlinks(f, m_Handles, m)
    /\ Changed(m_Handles', f, {i}, {}, {}, 0) /\ Unlinks(m_Handles', f, i)
    /\ m_FreeHandles' = Append(Append(m_FreeHandles, m), i)
    /\ \E o : /\ o = [opened EXCEPT ![m_Handles[m].type] = @ - 1]
              /\ opened' = [o EXCEPT ![m_Handles[i].type] = @ - 1]

LEMMA TopTyped ==
    ASSUME HandleTypeOK, Shape, stack # <<>>
    PROVE  /\ Len(stack) \in Nat \ {0} /\ DOMAIN stack = 1..Len(stack) /\ Len(stack) \in DOMAIN stack
           /\ Top \in Frames /\ Top = stack[Len(stack)]
           /\ Top.op # "type" \/ Top.at = "destroy" => Top.i \in Indices
           /\ Top.op = "type" => Len(stack) = 1
<1>1. stack \in Seq(Frames)
  BY DEF HandleTypeOK
<1>2. Len(stack) \in Nat \ {0} /\ DOMAIN stack = 1..Len(stack)
  BY <1>1, LenProperties, EmptySeq
<1>3. Len(stack) \in DOMAIN stack
  BY <1>2
<1>4. Top = stack[Len(stack)] /\ Top \in Frames
  BY <1>1, <1>2, <1>3, ElementOfSeq DEF Top
<1> QED BY <1>2, <1>3, <1>4 DEF Shape

LEMMA AppendedPair ==
    ASSUME NEW s \in Seq(Indices), NEW a \in Indices, NEW b \in Indices
    PROVE  s \o <<a>> = Append(s, a) /\ s \o <<a, b>> = Append(Append(s, a), b)
<1>1. /\ Append(s, a) = s \o <<a>> /\ Append(s, a) \in Seq(Indices)
      /\ <<a>> \in Seq(Indices) /\ <<b>> \in Seq(Indices)
  BY AppendIsConcat, AppendProperties
<1>2. Append(Append(s, a), b) = (s \o <<a>>) \o <<b>>
  BY <1>1, AppendIsConcat
<1>3. (s \o <<a>>) \o <<b>> = s \o (<<a>> \o <<b>>)
  BY <1>1, ConcatAssociative
<1>4. <<a>> \o <<b>> = <<a, b>>
  <2>1. PICK x, y, z : x = <<a>> /\ y = <<b>> /\ z = <<a, b>>
    OBVIOUS
  <2>2. x \in Seq(Indices) /\ y \in Seq(Indices) /\ z \in Seq(Indices)
    BY <2>1
  <2>3. Len(x) = 1 /\ x[1] = a /\ Len(y) = 1 /\ y[1] = b /\ Len(z) = 2 /\ z[1] = a /\ z[2] = b
    BY <2>1
  <2>4. x \o y \in Seq(Indices) /\ Len(x \o y) = 2 /\ (x \o y)[1] = a /\ (x \o y)[2] = b
    <3>1. /\ x \o y \in Seq(Indices) /\ Len(x \o y) = Len(x) + Len(y)
          /\ \A i \in 1..(Len(x) + Len(y)) :
                (x \o y)[i] = IF i <= Len(x) THEN x[i] ELSE y[i - Len(x)]
      BY <2>2, ConcatProperties
    <3>2. \A i \in 1..2 : (x \o y)[i] = IF i <= 1 THEN x[i] ELSE y[i - 1]
      BY <2>3, <3>1
    <3> QED BY <2>3, <3>1, <3>2
  <2>5. x \o y = z
    BY <2>2, <2>3, <2>4, SeqEqual
  <2> QED BY <2>1, <2>5
<1> QED BY <1>1, <1>2, <1>3, <1>4

LEMMA RemoveReturnsIs ==
    ASSUME HandleTypeOK, Shape, RemoveReturns
    PROVE  LET i == Top.i  m == MasterOf(i)
           IN  /\ i \in Indices /\ m \in Indices /\ stack' = Scanned(i) /\ (mangled => mangled')
               /\ m = i => OneReleased(i)
               /\ m # i => \E f : TwoReleased(f, i, m)
<1>1. PICK i \in Indices : i = Top.i
  BY TopTyped DEF RemoveReturns, At
<1>2. PICK m \in Indices : m = MasterOf(i)
  BY MasterOfTyped
<1>3. PICK r : r = ReleasedWith(i, m)
  OBVIOUS
<1>4. m_Handles \in Vectors /\ m_FreeHandles \in Seq(Indices)
  BY DEF HandleTypeOK, Vectors
<1>5. PICK id \in IdentityHandle(m_Handles[Head(r)].owner),
           jd \in IdentityHandle(m_Handles[r[Len(r)]].owner) :
              LET h == ReleasePrimHandle(m_Handles, Head(r), id)
              IN  /\ m_Handles' = IF Len(r) = 1 THEN h ELSE ReleasePrimHandle(h, r[2], jd)
                  /\ mangled' = (mangled \/ Mangles(m_Handles, Head(r), id)
                                         \/ (Len(r) = 2 /\ Mangles(h, r[2], jd)))
  BY <1>1, <1>2, <1>3 DEF RemoveReturns
<1>6. PICK o :
         /\ m_FreeHandles' = m_FreeHandles \o r
         /\ o = [opened EXCEPT ![m_Handles[Head(r)].type] = @ - 1]
         /\ opened' = IF Len(r) = 1 THEN o ELSE [o EXCEPT ![m_Handles[r[2]].type] = @ - 1]
         /\ stack' = Scanned(i)
  BY <1>1, <1>2, <1>3 DEF RemoveReturns
<1>7. CASE m = i
  <2>1. r = <<i>>
    BY <1>3, <1>7 DEF ReleasedWith
  <2>2. Head(r) = i /\ Len(r) = 1 /\ r[Len(r)] = i
    BY <2>1
  <2>3. /\ id \in IdentityHandle(m_Handles[i].owner)
        /\ m_Handles' = ReleasePrimHandle(m_Handles, i, id)
        /\ mangled' = (mangled \/ Mangles(m_Handles, i, id))
    BY <1>5, <2>2
  <2>4. id \in Links
    BY <1>4, <2>3, IdentityHandleTyped
  <2>5. Changed(m_Handles', m_Handles, {i}, {}, {}, 0) /\ Unlinks(m_Handles', m_Handles, i)
    BY <1>4, <2>3, <2>4, ReleaseChanges, ReleaseUnlinks
  <2>6. m_FreeHandles' = Append(m_FreeHandles, i)
    BY <1>4, <1>6, <2>1, AppendedPair
  <2>7. OneReleased(i)
    BY <1>6, <2>2, <2>5, <2>6 DEF OneReleased
  <2> QED BY <1>1, <1>2, <1>6, <1>7, <2>3, <2>7
<1>8. CASE m # i
  <2>1. r = <<m, i>>
    BY <1>3, <1>8 DEF ReleasedWith
  <2>2. Head(r) = m /\ Len(r) = 2 /\ Len(r) # 1 /\ r[Len(r)] = i /\ r[2] = i
    BY <2>1
  <2>3. PICK f : f = ReleasePrimHandle(m_Handles, m, id)
    OBVIOUS
  <2>4. /\ id \in IdentityHandle(m_Handles[m].owner) /\ jd \in IdentityHandle(m_Handles[i].owner)
        /\ m_Handles' = ReleasePrimHandle(f, i, jd)
        /\ mangled' = (mangled \/ Mangles(m_Handles, m, id) \/ Mangles(f, i, jd))
    BY <1>5, <2>2, <2>3
  <2>5. id \in Links /\ jd \in Links
    BY <1>4, <2>4, IdentityHandleTyped
  <2>6. mangled' = ((mangled \/ Mangles(f, i, jd)) \/ Mangles(m_Handles, m, id))
    BY <2>4
  <2>7. mangled' = ((mangled \/ Mangles(m_Handles, m, id)) \/ Mangles(f, i, jd))
    BY <2>4
  <2>8. Changed(f, m_Handles, {m}, {}, {}, 0)
    BY <1>4, <2>3, <2>5, ReleaseChanges
  <2>9. Unlinks(f, m_Handles, m)
    BY <1>4, <2>3, <2>4, <2>5, <2>6, ReleaseUnlinks
  <2>10. f \in Vectors /\ f[i].owner = m_Handles[i].owner
    BY <2>8 DEF Changed
  <2>11. Changed(m_Handles', f, {i}, {}, {}, 0)
    BY <2>4, <2>5, <2>10, ReleaseChanges
  <2>12. jd \in IdentityHandle(f[i].owner)
    BY <2>4, <2>10
  <2>13. Unlinks(m_Handles', f, i)
    BY <2>4, <2>5, <2>7, <2>10, <2>12, ReleaseUnlinks
  <2>14. m_FreeHandles' = Append(Append(m_FreeHandles, m), i)
    BY <1>4, <1>6, <2>1, AppendedPair
  <2>15. TwoReleased(f, i, m)
    <3>1. o = [opened EXCEPT ![m_Handles[m].type] = @ - 1]
          /\ opened' = [o EXCEPT ![m_Handles[i].type] = @ - 1]
      BY <1>6, <2>2, Zenon
    <3> QED BY <2>8, <2>9, <2>11, <2>13, <2>14, <3>1, Zenon DEF TwoReleased
  <2>16. mangled => mangled'
    BY <2>4
  <2> QED BY <1>1, <1>2, <1>6, <1>8, <2>15, <2>16
<1> QED BY <1>7, <1>8

LEMMA DestroyReturnsIs ==
    ASSUME HandleTypeOK, Shape, DestroyReturns
    PROVE  Top.i \in Indices /\ OneReleased(Top.i) /\ (mangled => mangled')
<1>1. PICK i \in Indices : i = Top.i
  BY TopTyped DEF DestroyReturns, At
<1>2. PICK id \in IdentityHandle(m_Handles[i].owner) :
         /\ m_Handles' = ReleasePrimHandle(m_Handles, i, id)
         /\ mangled' = (mangled \/ Mangles(m_Handles, i, id))
  BY <1>1 DEF DestroyReturns
<1>3. m_Handles \in Vectors /\ id \in Links
  BY <1>1, IdentityHandleTyped DEF HandleTypeOK, Vectors
<1>4. Changed(m_Handles', m_Handles, {i}, {}, {}, 0) /\ Unlinks(m_Handles', m_Handles, i)
  BY <1>2, <1>3, ReleaseChanges, ReleaseUnlinks
<1> QED BY <1>1, <1>2, <1>4 DEF DestroyReturns, OneReleased

(* The new handle is at i, in the vector g that was h; the links of its owner's
   chain are set when it is in place. *)
MadeAt(i, g, h, set, type, object, owner, clone) ==
    /\ g \in Vectors
    /\ \A j \in Indices : j # i => SameBook(g[j], h[j])
    /\ g[i].set = set /\ g[i].type = type /\ g[i].object = object /\ g[i].owner = owner
    /\ g[i].serial = NextSerial /\ g[i].refcount = 1 /\ g[i].clone = clone
    /\ g[i].is_destroying = FALSE
LinkedAt(i, g, h, id) ==
    \E f \in Vectors :
       /\ \A j \in Indices : /\ f[j].ch_prev = IF j = i THEN 0 ELSE h[j].ch_prev
                             /\ f[j].ch_next = IF j = i THEN 0 ELSE h[j].ch_next
       /\ Linked(g, f, i, id, f[id].ch_next)

LEMMA AllocTyped ==
    ASSUME HandleTypeOK, CanAlloc
    PROVE  TryAllocHandle \in Indices
<1>1. CASE m_FreeHandles = <<>>
  BY <1>1, HandleConstants DEF CanAlloc, TryAllocHandle, HandleTypeOK, Indices
<1>2. CASE m_FreeHandles # <<>>
  <2>1. Len(m_FreeHandles) \in 1..Len(m_FreeHandles)
    BY <1>2, LenProperties, EmptySeq DEF HandleTypeOK
  <2> QED BY <1>2, <2>1, ElementOfSeq DEF TryAllocHandle, HandleTypeOK
<1> QED BY <1>1, <1>2

LEMMA NextSerialTyped ==
    ASSUME HandleTypeOK
    PROVE  NextSerial \in 1..(MaxSerials - 1)
  BY HandleConstants DEF HandleTypeOK, NextSerial

LEMMA MakeIs ==
    ASSUME HandleTypeOK, NEW h \in Vectors, NEW set \in {"used", "identity"},
           NEW type \in Types \cup {NULL}, NEW object \in 0..MaxMade,
           NEW owner \in Live \cup {NULL}, NEW clone \in Links,
           MakePrimHandle(h, set, type, object, owner, clone)
    PROVE  LET i  == TryAllocHandle
               id == IF set = "identity" \/ owner = NULL THEN 0 ELSE identity[owner]
           IN  /\ i \in Indices /\ id \in Links
               /\ MadeAt(i, m_Handles', h, set, type, object, owner, clone)
               /\ LinkedAt(i, m_Handles', h, id)
<1>1. PICK i \in Indices : i = TryAllocHandle
  BY AllocTyped DEF MakePrimHandle
<1>2. PICK id : id = IF set = "identity" \/ owner = NULL THEN 0 ELSE identity[owner]
  OBVIOUS
<1>3. id \in Links
  BY <1>2, HandleConstants DEF Live, HandleTypeOK, Links
<1>4. PICK q : q = [NoHandle EXCEPT !.set = set, !.type = type, !.object = object, !.owner = owner,
                                    !.serial = NextSerial, !.refcount = 1, !.clone = clone]
  OBVIOUS
<1>5. /\ q \in QHandles /\ q.ch_prev = 0 /\ q.ch_next = 0 /\ q.is_destroying = FALSE
      /\ q.set = set /\ q.type = type /\ q.object = object /\ q.owner = owner
      /\ q.serial = NextSerial /\ q.refcount = 1 /\ q.clone = clone
  <2>1. NextSerial \in 0..(MaxSerials - 1)
    BY NextSerialTyped, HandleConstants
  <2>2. owner \in Tokens \cup {NULL}
    BY DEF Live
  <2>3. 0 \in 0..MaxHandles /\ clone \in 0..MaxHandles
    BY HandleConstants DEF Links
  <2> HIDE DEF NextSerial
  <2>4. q = [set |-> set, type |-> type, object |-> object, owner |-> owner, serial |-> NextSerial,
             refcount |-> 1, clone |-> clone, is_destroying |-> FALSE, ch_prev |-> 0, ch_next |-> 0]
    BY <1>4 DEF NoHandle
  <2> QED BY <2>1, <2>2, <2>3, <2>4 DEF QHandles
<1>6. PICK f : f = [h EXCEPT ![i] = q]
  OBVIOUS
<1>7. f \in Vectors /\ f[i] = q /\ \A j \in Indices : j # i => f[j] = h[j]
  BY <1>5, <1>6 DEF Vectors
<1>8. m_Handles' = Link(f, i, id)
  BY <1>1, <1>2, <1>4, <1>6 DEF MakePrimHandle
<1>9. Linked(m_Handles', f, i, id, f[id].ch_next)
  BY <1>3, <1>7, <1>8, LinkIs
<1>10. MadeAt(i, m_Handles', h, set, type, object, owner, clone)
  <2>1. m_Handles' \in Vectors /\ \A j \in Indices : SameBook(m_Handles'[j], f[j])
    BY <1>9 DEF Linked
  <2> QED BY <1>5, <1>7, <2>1 DEF MadeAt, SameBook
<1>11. LinkedAt(i, m_Handles', h, id)
  BY <1>5, <1>7, <1>9 DEF LinkedAt
<1> QED BY <1>1, <1>2, <1>3, <1>10, <1>11

-----------------------------------------------------------------------------
(***************************************************************************)
(* The stack of calls.                                                     *)
(***************************************************************************)
LEMMA PushedIs ==
    ASSUME NEW T, NEW s \in Seq(T), NEW x \in T, NEW q, q = Append(s, x)
    PROVE  /\ q \in Seq(T) /\ q # <<>> /\ Len(q) = Len(s) + 1 /\ Len(s) \in Nat
           /\ DOMAIN s = 1..Len(s) /\ DOMAIN q = 1..(Len(s) + 1) /\ q[Len(s) + 1] = x
           /\ \A k \in DOMAIN s : k \in DOMAIN q /\ q[k] = s[k]
           /\ \A k \in DOMAIN q : k = Len(s) + 1 \/ k \in DOMAIN s
           /\ s # <<>> => 1 \in DOMAIN s
<1>1. /\ q \in Seq(T) /\ q # <<>> /\ Len(q) = Len(s) + 1 /\ q[Len(s) + 1] = x
      /\ \A k \in 1..Len(s) : q[k] = s[k]
  BY AppendProperties
<1>2. Len(s) \in Nat /\ DOMAIN s = 1..Len(s) /\ DOMAIN q = 1..Len(q)
  BY <1>1, LenProperties
<1>3. s # <<>> => Len(s) # 0
  BY <1>2, EmptySeq
<1> QED BY <1>1, <1>2, <1>3

LEMMA PoppedIs ==
    ASSUME NEW T, NEW s \in Seq(T), s # <<>>, NEW q, q = SubSeq(s, 1, Len(s) - 1)
    PROVE  /\ q \in Seq(T) /\ Len(q) = Len(s) - 1 /\ Len(s) \in Nat \ {0}
           /\ DOMAIN s = 1..Len(s) /\ DOMAIN q = 1..(Len(s) - 1)
           /\ \A k \in DOMAIN q : k \in DOMAIN s /\ k # Len(s) /\ q[k] = s[k]
           /\ q = <<>> <=> Len(s) = 1
<1>1. Len(s) \in Nat \ {0} /\ DOMAIN s = 1..Len(s) /\ \A k \in 1..Len(s) : s[k] \in T
  BY LenProperties, EmptySeq, ElementOfSeq
<1>2. /\ q \in Seq(T) /\ Len(q) = (IF 1 <= Len(s) - 1 THEN ((Len(s) - 1) - 1) + 1 ELSE 0)
      /\ \A k \in 1..(((Len(s) - 1) - 1) + 1) : q[k] = s[(1 + k) - 1]
  BY <1>1, SubSeqProperties
<1>3. Len(q) = Len(s) - 1 /\ \A k \in 1..(Len(s) - 1) : q[k] = s[k]
  BY <1>1, <1>2
<1>4. DOMAIN q = 1..(Len(s) - 1) /\ (q = <<>> <=> Len(q) = 0)
  BY <1>2, <1>3, LenProperties, EmptySeq
<1> QED BY <1>1, <1>2, <1>3, <1>4

(* RemoveType() moves on; there is no other frame then. *)
MovedTo(i, at) ==
    /\ stack' \in Seq(Frames) /\ Len(stack') = 1 /\ DOMAIN stack' = {1} /\ stack' # <<>>
    /\ stack'[1].op = "type" /\ stack'[1].type = stack[1].type
    /\ stack'[1].i = i /\ stack'[1].at = at

FirstSet(s, b) == [s EXCEPT ![1] = b]

LEMMA OnlyReplaced ==
    ASSUME NEW T, NEW s \in Seq(T), Len(s) = 1, NEW b \in T
    PROVE  FirstSet(s, b) \in Seq(T) /\ Len(FirstSet(s, b)) = 1 /\ FirstSet(s, b)[1] = b
<1>0. PICK q : q = FirstSet(s, b)
  OBVIOUS
<1>1. q \in [1..1 -> T] /\ q[1] = b /\ DOMAIN q = 1..1
  <2>1. s \in [1..1 -> T]
    BY LenProperties, ElementOfSeq
  <2> QED BY <1>0, <2>1 DEF FirstSet
<1>2. q \in Seq(T)
  BY <1>1, SeqDef
<1>3. Len(q) \in Nat /\ DOMAIN q = 1..Len(q)
  BY <1>2, LenProperties
<1>4. 1 \in 1..Len(q) /\ Len(q) \in 1..1
  BY <1>1, <1>3
<1> QED BY <1>0, <1>1, <1>2, <1>3, <1>4

LEMMA MovedIs ==
    ASSUME HandleTypeOK, Shape, stack # <<>>, Top.op = "type",
           NEW i \in 1..(MaxHandles + 1), NEW at \in {"look", "destroy"},
           stack' = [stack EXCEPT ![Len(stack)].i = i, ![Len(stack)].at = at]
    PROVE  MovedTo(i, at) /\ Len(stack) = 1 /\ DOMAIN stack = {1} /\ Top = stack[1]
<1>1. Len(stack) = 1 /\ DOMAIN stack = 1..1 /\ stack[1] \in Frames /\ Top = stack[1]
  BY TopTyped
<1>2. stack' = [stack EXCEPT ![1].i = i, ![1].at = at]
  BY <1>1
<1>3. PICK a, b : a = stack[1] /\ b = [a EXCEPT !.i = i, !.at = at]
  OBVIOUS
<1>4. a \in Frames /\ a.op = "type"
  BY <1>1, <1>3
<1>5. b \in Frames /\ b.op = a.op /\ b.type = a.type /\ b.i = i /\ b.at = at
  BY <1>3, <1>4 DEF Frames
<1>6. stack \in Seq(Frames) /\ 1 \in 1..Len(stack)
  BY <1>1 DEF HandleTypeOK
<1>7. stack' = [stack EXCEPT ![1] = b]
  BY <1>1, <1>2, <1>3, <1>6
<1>8. stack' \in Seq(Frames) /\ Len(stack') = 1 /\ stack'[1] = b
  <2>1. stack' = FirstSet(stack, b)
    BY <1>7 DEF FirstSet
  <2>2. PICK q : q = FirstSet(stack, b)
    OBVIOUS
  <2>3. q \in Seq(Frames) /\ Len(q) = 1 /\ q[1] = b
    <3>1. stack \in Seq(Frames) /\ Len(stack) = 1 /\ b \in Frames
      BY <1>1, <1>5, <1>6
    <3> QED BY <2>2, <3>1, OnlyReplaced, Zenon
  <2> QED BY <2>1, <2>2, <2>3
<1>9. DOMAIN stack' = {1} /\ DOMAIN stack = {1} /\ stack' # <<>>
  BY <1>1, <1>8, LenProperties
<1> QED BY <1>1, <1>3, <1>4, <1>5, <1>8, <1>9 DEF MovedTo

(* No frame is put on top of a RemoveType() that looks for its next handle. *)
Callable == stack = <<>> \/ Top.at = "destroy" \/ Top.op # "type"

GoodFrame(f) ==
    /\ f \in Frames /\ f.i \in Indices
    /\ (f.op = "free" /\ f.at = "destroy") \/ (f.op = "identity" /\ f.at = "look")

LEMMA PushShape ==
    ASSUME HandleTypeOK, Shape, Callable, NEW f, GoodFrame(f),
           stack' = Append(stack, f), types' = types
    PROVE  stack' \in Seq(Frames) /\ Len(stack') = Len(stack) + 1 /\ Shape'
<1>0. /\ f \in Frames /\ f.i \in Indices
      /\ (f.op = "free" /\ f.at = "destroy") \/ (f.op = "identity" /\ f.at = "look")
  BY DEF GoodFrame
<1>1. PICK q : q = stack'
  OBVIOUS
<1>2. stack \in Seq(Frames) /\ q = Append(stack, f)
  BY <1>1 DEF HandleTypeOK
<1>3. /\ q \in Seq(Frames) /\ q # <<>> /\ Len(q) = Len(stack) + 1 /\ Len(stack) \in Nat
      /\ DOMAIN stack = 1..Len(stack) /\ DOMAIN q = 1..(Len(stack) + 1) /\ q[Len(stack) + 1] = f
      /\ \A k \in DOMAIN stack : k \in DOMAIN q /\ q[k] = stack[k]
      /\ \A k \in DOMAIN q : k = Len(stack) + 1 \/ k \in DOMAIN stack
  BY <1>0, <1>2, PushedIs
<1>4. \A k \in DOMAIN stack : stack[k].op = "type" => stack[k].at # "look"
  <2> SUFFICES ASSUME NEW k \in DOMAIN stack, stack[k].op = "type", stack[k].at = "look"
               PROVE  FALSE
    OBVIOUS
  <2>1. Len(stack) = 1 /\ k = 1 /\ stack # <<>>
    BY <1>3 DEF Shape
  <2> QED BY <2>1 DEF Callable, Top
<1>5. \A k \in DOMAIN q :
        /\ q[k].op = "free" => q[k].at = "destroy"
        /\ q[k].op = "identity" => q[k].at = "look"
        /\ q[k].op # "type" \/ q[k].at = "destroy" => q[k].i \in Indices
        /\ q[k].op = "type" => /\ k = 1 /\ q[k].type \in Types \ types
                               /\ q[k].at = "look" => Len(q) = 1
  BY <1>0, <1>3, <1>4 DEF Shape
<1> QED BY <1>1, <1>3, <1>5 DEF Shape

LEMMA PopShape ==
    ASSUME HandleTypeOK, Shape, stack # <<>>, stack' = Popped, types' = types
    PROVE  stack' \in Seq(Frames) /\ Len(stack') = Len(stack) - 1 /\ Shape'
<1>1. PICK q : q = stack'
  OBVIOUS
<1>2. stack \in Seq(Frames) /\ q = SubSeq(stack, 1, Len(stack) - 1)
  BY <1>1 DEF HandleTypeOK, Popped
<1>3. /\ q \in Seq(Frames) /\ Len(q) = Len(stack) - 1 /\ Len(stack) \in Nat \ {0}
      /\ DOMAIN stack = 1..Len(stack) /\ DOMAIN q = 1..(Len(stack) - 1)
      /\ \A k \in DOMAIN q : k \in DOMAIN stack /\ k # Len(stack) /\ q[k] = stack[k]
  BY <1>2, PoppedIs
<1>4. \A k \in DOMAIN q :
        /\ q[k].op = "free" => q[k].at = "destroy"
        /\ q[k].op = "identity" => q[k].at = "look"
        /\ q[k].op # "type" \/ q[k].at = "destroy" => q[k].i \in Indices
        /\ q[k].op = "type" => /\ k = 1 /\ q[k].type \in Types \ types
                               /\ q[k].at = "look" => Len(q) = 1
  BY <1>3 DEF Shape
<1> QED BY <1>1, <1>3, <1>4 DEF Shape

LEMMA MoveShape ==
    ASSUME Shape, NEW i, NEW at, MovedTo(i, at), types' = types,
           stack[1].op = "type", 1 \in DOMAIN stack, at = "look" \/ i \in Indices
    PROVE  stack' \in Seq(Frames) /\ Len(stack') <= MaxDepth /\ Shape'
<1>1. stack[1].type \in Types \ types
  BY DEF Shape
<1> QED BY <1>1, HandleConstants DEF MovedTo, Shape

(* The types, given those of the vector and the stack. *)
StackOK == stack \in Seq(Frames) /\ Len(stack) <= MaxDepth /\ Shape

(* A handle is put on the free stack and its type has one fewer. *)
LEMMA OneFewerTyped ==
    ASSUME HandleTypeOK, NEW i \in Indices, NEW t
    PROVE  /\ Append(m_FreeHandles, i) \in Seq(Indices)
           /\ [opened EXCEPT ![t] = @ - 1] \in [Types -> Int]
           /\ [opened EXCEPT ![t] = @ + 1] \in [Types -> Int]
<1>1. m_FreeHandles \in Seq(Indices) /\ opened \in [Types -> Int]
  BY DEF HandleTypeOK
<1>2. Append(m_FreeHandles, i) \in Seq(Indices)
  BY <1>1, AppendProperties
<1>3. /\ [opened EXCEPT ![t] = @ - 1] \in [Types -> Int]
      /\ [opened EXCEPT ![t] = @ + 1] \in [Types -> Int]
  <2>1. CASE t \in Types
    <3>1. opened[t] - 1 \in Int /\ opened[t] + 1 \in Int
      BY <1>1, <2>1
    <3> QED BY <1>1, <3>1
  <2>2. CASE t \notin Types
    BY <1>1, <2>2
  <2> QED BY <2>1, <2>2
<1> QED BY <1>2, <1>3

LEMMA OneMoreTyped ==
    ASSUME HandleTypeOK, NEW o
    PROVE  [destroyed EXCEPT ![o] = @ + 1] \in [1..MaxMade -> Nat]
<1>1. destroyed \in [1..MaxMade -> Nat]
  BY DEF HandleTypeOK
<1>2. CASE o \in 1..MaxMade
  <2>1. destroyed[o] + 1 \in Nat
    BY <1>1, <1>2
  <2> QED BY <1>1, <2>1
<1>3. CASE o \notin 1..MaxMade
  BY <1>1, <1>3
<1> QED BY <1>2, <1>3

LEMMA FrameTyped ==
    ASSUME NEW op \in {"free", "identity"}, NEW i \in Indices, NEW at \in {"look", "destroy"}
    PROVE  LET f == Frame(op, i, NULL, at)
           IN  f \in Frames /\ f.i = i /\ f.op = op /\ f.at = at
<1>1. i \in 1..(MaxHandles + 1)
  BY HandleConstants DEF Indices
<1> QED BY <1>1 DEF Frame, Frames

LEMMA FramesGood ==
    ASSUME NEW i \in Indices
    PROVE  GoodFrame(Frame("free", i, NULL, "destroy")) /\ GoodFrame(Frame("identity", i, NULL, "look"))
  BY FrameTyped DEF GoodFrame

LEMMA FreedTyped ==
    ASSUME HandleTypeOK, Shape, NEW i \in Indices, FreeAt(i), Callable, Len(stack) < MaxDepth,
           UNCHANGED <<m_HandleTail, m_HSerial, types, identity, given>>
    PROVE  HandleTypeOK' /\ Shape'
<1>1. ASSUME NEW m \in Indices, LastGone(m)
      PROVE  StackOK' /\ destroyed' \in [1..MaxMade -> Nat] /\ crashed' \in BOOLEAN
  <2>1. PICK f : f = Frame("free", m, NULL, "destroy")
    OBVIOUS
  <2>2. GoodFrame(f)
    BY <2>1, FramesGood
  <2>3. stack' \in Seq(Frames) /\ Len(stack') = Len(stack) + 1 /\ Shape'
    <3>1. stack' = Append(stack, f) /\ types' = types
      BY <1>1, <2>1 DEF LastGone
    <3> QED BY <2>2, <3>1, PushShape
  <2>4. Len(stack) \in Nat /\ Len(stack') <= MaxDepth
    BY <2>3, HandleConstants, LenProperties DEF HandleTypeOK
  <2>5. destroyed' \in [1..MaxMade -> Nat] /\ crashed' \in BOOLEAN
    BY <1>1, OneMoreTyped DEF LastGone, HandleTypeOK
  <2> QED BY <2>3, <2>4, <2>5 DEF StackOK
<1>2. ASSUME NEW m, StillHeld(m) \/ Crashes(m)
      PROVE  StackOK' /\ destroyed' \in [1..MaxMade -> Nat] /\ crashed' \in BOOLEAN
  <2>1. stack' = stack /\ destroyed' = destroyed /\ (crashed' = crashed \/ crashed' = TRUE)
    BY <1>2 DEF StillHeld, Crashes
  <2>2. Shape'
    BY <2>1 DEF Shape
  <2> QED BY <2>1, <2>2 DEF StackOK, HandleTypeOK
<1>3. ASSUME StackOK', destroyed' \in [1..MaxMade -> Nat], crashed' \in BOOLEAN,
             m_Handles' \in Vectors, m_FreeHandles' \in Seq(Indices),
             opened' \in [Types -> Int], mangled' \in BOOLEAN
      PROVE  HandleTypeOK' /\ Shape'
  BY <1>3 DEF StackOK, HandleTypeOK, Vectors
<1>4. CASE FreeClone(i)
  <2>1. CloneGone(i)
    BY <1>4, FreeCloneIs
  <2>2. m_Handles' \in Vectors /\ m_FreeHandles' = Append(m_FreeHandles, i)
        /\ opened' = [opened EXCEPT ![m_Handles[i].type] = @ - 1]
    BY <2>1 DEF CloneGone, Changed
  <2>3. m_FreeHandles' \in Seq(Indices) /\ opened' \in [Types -> Int]
    BY <2>2, OneFewerTyped
  <2>4. mangled' \in BOOLEAN
    BY <1>4 DEF FreeClone
  <2>5. StackOK' /\ destroyed' \in [1..MaxMade -> Nat] /\ crashed' \in BOOLEAN
    BY <1>1, <1>2, <2>1 DEF CloneGone
  <2> QED BY <1>3, <2>2, <2>3, <2>4, <2>5
<1>5. CASE FreeMaster(i)
  <2>1. MasterGone(i)
    BY <1>5, FreeMasterIs
  <2>2. m_Handles' \in Vectors
    BY <2>1 DEF MasterGone, Changed
  <2>3. m_FreeHandles' \in Seq(Indices) /\ opened' \in [Types -> Int] /\ mangled' \in BOOLEAN
    BY <2>1 DEF MasterGone, HandleTypeOK
  <2>4. StackOK' /\ destroyed' \in [1..MaxMade -> Nat] /\ crashed' \in BOOLEAN
    BY <1>1, <1>2, <2>1 DEF MasterGone
  <2> QED BY <1>3, <2>2, <2>3, <2>4
<1>6. CASE FreeIdentity(i)
  <2>1. PICK f : f = Frame("identity", i, NULL, "look")
    OBVIOUS
  <2>2. GoodFrame(f)
    BY <2>1, FramesGood
  <2>3. stack' = Append(stack, f) /\ UNCHANGED <<m_Handles, m_FreeHandles, opened, destroyed,
                                                 mangled, crashed>>
    BY <1>6, <2>1 DEF FreeIdentity
  <2>4. stack' \in Seq(Frames) /\ Len(stack') = Len(stack) + 1 /\ Shape'
    BY <2>2, <2>3, PushShape
  <2>5. Len(stack) \in Nat /\ Len(stack') <= MaxDepth
    BY <2>4, HandleConstants, LenProperties DEF HandleTypeOK
  <2> QED BY <1>3, <2>3, <2>4, <2>5 DEF StackOK, HandleTypeOK, Vectors
<1> QED BY <1>4, <1>5, <1>6 DEF FreeAt

LEMMA MadeTyped ==
    ASSUME HandleTypeOK, Shape, NEW h \in Vectors, NEW set \in {"used", "identity"},
           NEW type \in Types \cup {NULL}, NEW object \in 0..MaxMade,
           NEW owner \in Live \cup {NULL}, NEW clone \in Links,
           MakePrimHandle(h, set, type, object, owner, clone),
           types' = types, opened' \in [Types -> Int], identity' \in [Tokens -> -1..MaxHandles],
           stack' = stack, destroyed' = destroyed, crashed' = crashed, mangled' \in BOOLEAN
    PROVE  HandleTypeOK' /\ Shape'
<1>1. TryAllocHandle \in Indices /\ m_Handles' \in Vectors
  BY MakeIs DEF MadeAt
<1>2. m_FreeHandles' \in Seq(Indices)
  <2>1. CASE m_FreeHandles = <<>>
    BY <2>1 DEF MakePrimHandle
  <2>2. CASE m_FreeHandles # <<>>
    <3>1. m_FreeHandles' = SubSeq(m_FreeHandles, 1, Len(m_FreeHandles) - 1)
      BY <2>2 DEF MakePrimHandle
    <3>2. m_FreeHandles \in Seq(Indices)
      BY DEF HandleTypeOK
    <3> QED BY <2>2, <3>1, <3>2, PoppedIs
  <2> QED BY <2>1, <2>2
<1>3. m_HandleTail' \in 0..MaxHandles /\ m_HSerial' \in 0..(MaxSerials - 1)
  <2>1. TryAllocHandle \in 0..MaxHandles /\ NextSerial \in 0..(MaxSerials - 1)
    BY <1>1, NextSerialTyped, HandleConstants DEF Indices
  <2>2. m_HandleTail' \in {TryAllocHandle, m_HandleTail} /\ m_HSerial' = NextSerial
    BY DEF MakePrimHandle
  <2> QED BY <2>1, <2>2 DEF HandleTypeOK
<1>4. given' \in Seq(Values) /\ Len(given') <= MaxMade
  <2>1. PICK v : v = [index |-> TryAllocHandle, serial |-> NextSerial,
                      object |-> IF clone = 0 THEN object ELSE h[clone].object]
    OBVIOUS
  <2>2. clone # 0 => h[clone].object \in 0..MaxMade
    BY DEF Links, Indices, Vectors, QHandles
  <2>3. v \in Values
    BY <1>1, <2>1, <2>2, NextSerialTyped DEF Values
  <2>4. given' = Append(given, v) /\ Len(given) < MaxMade /\ given \in Seq(Values)
    BY <2>1 DEF MakePrimHandle, HandleTypeOK
  <2>5. given' \in Seq(Values) /\ Len(given') = Len(given) + 1 /\ Len(given) \in Nat
    BY <2>3, <2>4, PushedIs
  <2> QED BY <2>4, <2>5, HandleConstants
<1>5. Shape'
  BY DEF Shape
<1> QED BY <1>1, <1>2, <1>3, <1>4, <1>5 DEF HandleTypeOK, Vectors

(* One handle fewer, with the calls as they are or one of them over. *)
LEMMA OneReleasedTyped ==
    ASSUME HandleTypeOK, NEW i \in Indices, OneReleased(i)
    PROVE  m_Handles' \in Vectors /\ m_FreeHandles' \in Seq(Indices) /\ opened' \in [Types -> Int]
  BY OneFewerTyped DEF OneReleased, Changed

LEMMA TypesKept ==
    ASSUME HandleTypeOK, Shape, Next
    PROVE  HandleTypeOK' /\ Shape'
<1> USE HandleConstants
<1>0. m_Handles \in Vectors /\ stack \in Seq(Frames) /\ Len(stack) \in Nat
  BY LenProperties DEF HandleTypeOK, Vectors
<1>1. ASSUME NEW t \in Tokens, CreateIdentity(t) PROVE HandleTypeOK' /\ Shape'
  <2>1. TryAllocHandle \in Indices
    BY <1>1, AllocTyped DEF CreateIdentity, MakePrimHandle
  <2>2. identity' \in [Tokens -> -1..MaxHandles]
    BY <1>1, <2>1 DEF CreateIdentity, HandleTypeOK, Indices
  <2>3. 0 \in 0..MaxMade /\ 0 \in Links
    BY DEF Links
  <2>4. MakePrimHandle(m_Handles, "identity", NULL, 0, NULL, 0)
    BY <1>1 DEF CreateIdentity
  <2>5. /\ types' = types /\ opened' \in [Types -> Int] /\ stack' = stack
        /\ destroyed' = destroyed /\ crashed' = crashed /\ mangled' \in BOOLEAN
    BY <1>1 DEF CreateIdentity, HandleTypeOK
  <2> QED BY <1>0, <2>2, <2>3, <2>4, <2>5, MadeTyped
<1>2. ASSUME NEW t \in Tokens, DestroyIdentity(t) PROVE HandleTypeOK' /\ Shape'
  <2>1. identity[t] \in Indices /\ stack = <<>> /\ FreeAt(identity[t])
    BY <1>2 DEF DestroyIdentity, Idle, Live, HandleTypeOK, Indices
  <2>2. Callable /\ Len(stack) < MaxDepth
    BY <2>1 DEF Callable
  <2> QED BY <1>2, <2>1, <2>2, FreedTyped DEF DestroyIdentity
<1>3. ASSUME NEW type \in Types, CreateType(type) PROVE HandleTypeOK' /\ Shape'
  <2>1. stack = <<>> /\ stack' = stack /\ types' = types \cup {type} /\ opened' \in [Types -> Int]
    BY <1>3 DEF CreateType, Idle, HandleTypeOK
  <2>2. Shape'
    BY <2>1 DEF Shape
  <2> QED BY <1>3, <2>1, <2>2 DEF CreateType, HandleTypeOK
<1>4. ASSUME NEW type \in Types, RemoveType(type) PROVE HandleTypeOK' /\ Shape'
  <2>1. PICK f : f = Frame("type", 1, type, "look")
    OBVIOUS
  <2>2. f \in Frames /\ f.op = "type" /\ f.type = type /\ f.at = "look"
    BY <2>1 DEF Frame, Frames
  <2>3. /\ types' = types \ {type} /\ stack = <<>> /\ (stack' = <<>> \/ stack' = <<f>>)
        /\ UNCHANGED <<m_Handles, m_FreeHandles, m_HandleTail, m_HSerial, opened, identity, given,
                       destroyed, mangled, crashed>>
    BY <1>4, <2>1 DEF RemoveType, Idle
  <2>4. stack' \in Seq(Frames) /\ Len(stack') <= 1 /\ Shape'
    <3>1. CASE stack' = <<>>
      BY <3>1 DEF Shape
    <3>2. CASE stack' = <<f>>
      <4>1. PICK q : q = <<f>>
        OBVIOUS
      <4>2. q \in Seq(Frames) /\ Len(q) = 1 /\ DOMAIN q = {1} /\ q[1] = f
        BY <2>2, <4>1
      <4> QED BY <2>2, <2>3, <3>2, <4>1, <4>2 DEF Shape
    <3> QED BY <2>3, <3>1, <3>2
  <2> QED BY <2>3, <2>4 DEF HandleTypeOK
<1>5. ASSUME NEW type \in Types, NEW owner \in Live \cup {NULL}, CreateHandle(type, owner)
      PROVE  HandleTypeOK' /\ Shape'
  <2>1. MakePrimHandle(m_Handles, "used", type, Len(given) + 1, owner, 0)
    BY <1>5 DEF CreateHandle
  <2>2. Len(given) \in Nat /\ Len(given) < MaxMade
    BY <2>1, LenProperties DEF MakePrimHandle, HandleTypeOK
  <2>3. Len(given) + 1 \in 0..MaxMade /\ 0 \in Links
    BY <2>2 DEF Links
  <2>4. opened' \in [Types -> Int]
    BY <1>5 DEF CreateHandle, HandleTypeOK
  <2>5. /\ types' = types /\ identity' \in [Tokens -> -1..MaxHandles] /\ stack' = stack
        /\ destroyed' = destroyed /\ crashed' = crashed /\ mangled' \in BOOLEAN
    BY <1>5 DEF CreateHandle, HandleTypeOK
  <2> QED BY <1>0, <2>1, <2>3, <2>4, <2>5, MadeTyped
<1>6. ASSUME NEW i \in Indices, FreeHandle(i) PROVE HandleTypeOK' /\ Shape'
  <2>1. Callable /\ Len(stack) < MaxDepth
    BY <1>6 DEF FreeHandle, Callable, Idle, InDestroy
  <2> QED BY <1>6, <2>1, FreedTyped DEF FreeHandle
<1>7. ASSUME NEW i \in Indices, NEW owner \in Live, CloneHandle(i, owner)
      PROVE  HandleTypeOK' /\ Shape'
  <2>1. PICK m \in Indices : m = MasterOf(i)
    BY MasterOfTyped
  <2>2. PICK h, type : h = [m_Handles EXCEPT ![m].refcount = @ + 1] /\ type = m_Handles[m].type
    OBVIOUS
  <2>3. h \in Vectors /\ type \in Types \cup {NULL}
    <3>1. m_Handles[m] \in QHandles
      BY <1>0 DEF Vectors
    <3>2. [m_Handles[m] EXCEPT !.refcount = @ + 1] \in QHandles /\ type \in Types \cup {NULL}
      BY <2>2, <3>1 DEF QHandles
    <3> QED BY <1>0, <2>2, <3>2 DEF Vectors
  <2>4. MakePrimHandle(h, "used", type, 0, owner, m)
    BY <1>7, <2>1, <2>2 DEF CloneHandle
  <2>5. 0 \in 0..MaxMade /\ m \in Links
    BY DEF Links, Indices
  <2>6. opened' \in [Types -> Int]
    <3>1. opened' = [opened EXCEPT ![type] = @ + 1]
      BY <1>7, <2>1, <2>2 DEF CloneHandle
    <3> QED BY <3>1, OneFewerTyped
  <2>7. /\ types' = types /\ identity' \in [Tokens -> -1..MaxHandles] /\ stack' = stack
        /\ destroyed' = destroyed /\ crashed' = crashed /\ mangled' \in BOOLEAN
    BY <1>7 DEF CloneHandle, HandleTypeOK
  <2> QED BY <2>3, <2>4, <2>5, <2>6, <2>7, MadeTyped
<1>8. ASSUME DestroyReturns PROVE HandleTypeOK' /\ Shape'
  <2>1. Top.i \in Indices /\ OneReleased(Top.i)
    BY <1>8, DestroyReturnsIs
  <2>2. m_Handles' \in Vectors /\ m_FreeHandles' \in Seq(Indices) /\ opened' \in [Types -> Int]
    BY <2>1, OneReleasedTyped
  <2>3. stack # <<>> /\ stack' = Popped /\ types' = types /\ mangled' \in BOOLEAN
    BY <1>8 DEF DestroyReturns, At
  <2>4. stack' \in Seq(Frames) /\ Len(stack') = Len(stack) - 1 /\ Shape'
    BY <2>3, PopShape
  <2>5. UNCHANGED <<m_HandleTail, m_HSerial, types, identity, given, destroyed, crashed>>
    BY <1>8 DEF DestroyReturns
  <2> QED BY <1>0, <2>2, <2>3, <2>4, <2>5 DEF HandleTypeOK, Vectors
<1>9. ASSUME FreeOwned PROVE HandleTypeOK' /\ Shape'
  <2>1. Top.i \in Indices /\ Callable /\ Len(stack) < MaxDepth /\ m_Handles[Top.i].ch_next # 0
    BY <1>9, TopTyped DEF FreeOwned, At, Callable
  <2>2. m_Handles[Top.i].ch_next \in Indices
    BY <1>0, <2>1, LinksTyped
  <2> QED BY <1>9, <2>1, <2>2, FreedTyped DEF FreeOwned
<1>10. ASSUME IdentityReleased PROVE HandleTypeOK' /\ Shape'
  <2>1. Top.i \in Indices /\ stack # <<>> /\ stack' = Popped /\ types' = types
    BY <1>10, TopTyped DEF IdentityReleased, At
  <2>2. stack' \in Seq(Frames) /\ Len(stack') = Len(stack) - 1 /\ Shape'
    BY <2>1, PopShape
  <2>3. m_Handles' \in Vectors
    <3>1. PICK i \in Indices : i = Top.i
      BY <2>1
    <3>2. m_Handles' = [m_Handles EXCEPT ![i].set = "none"]
      BY <1>10, <3>1 DEF IdentityReleased
    <3> QED BY <1>0, <3>2, ClearedChanges DEF Changed
  <2>4. m_FreeHandles' \in Seq(Indices)
    BY <1>10, <2>1, OneFewerTyped DEF IdentityReleased
  <2>5. identity' \in [Tokens -> -1..MaxHandles]
    BY <1>10 DEF IdentityReleased, HandleTypeOK
  <2>6. UNCHANGED <<m_HandleTail, m_HSerial, types, opened, given, destroyed, mangled, crashed>>
    BY <1>10 DEF IdentityReleased
  <2> QED BY <1>0, <2>2, <2>3, <2>4, <2>5, <2>6 DEF HandleTypeOK, Vectors
<1>11. ASSUME RemoveNext PROVE HandleTypeOK' /\ Shape'
  <2>1. PICK i \in Indices : /\ Sighted(i)
                             /\ \/ NextDestroyed(i, MasterOf(i)) \/ NextMaster(i, MasterOf(i))
                                \/ NextClone(i, MasterOf(i))
    BY <1>11, RemoveNextIs
  <2>2. /\ stack # <<>> /\ Top.op = "type"
        /\ UNCHANGED <<m_HandleTail, m_HSerial, types, identity, given, crashed>>
    BY <1>11 DEF RemoveNext, At
  <2>3. i \in 1..(MaxHandles + 1) /\ i + 1 \in 1..(MaxHandles + 1)
    BY DEF Indices
  <2>4. stack' \in Seq(Frames) /\ Len(stack') <= MaxDepth /\ Shape'
    <3>1. stack[1].op = "type" /\ 1 \in DOMAIN stack
      BY <2>2, TopTyped
    <3>2. CASE NextDestroyed(i, MasterOf(i))
      <4>1. MovedTo(i, "destroy")
        BY <2>2, <2>3, <3>2, MovedIs DEF NextDestroyed
      <4>2. types' = types
        BY <2>2
      <4> QED BY <3>1, <4>1, <4>2, MoveShape
    <3>3. CASE NextMaster(i, MasterOf(i)) \/ NextClone(i, MasterOf(i))
      <4>1. stack' = [stack EXCEPT ![Len(stack)].i = i + 1, ![Len(stack)].at = "look"]
        BY <3>3 DEF NextMaster, NextClone, Scanned
      <4>2. MovedTo(i + 1, "look")
        BY <2>2, <2>3, <4>1, MovedIs
      <4>3. types' = types
        BY <2>2
      <4> QED BY <3>1, <4>2, <4>3, MoveShape
    <3> QED BY <2>1, <3>2, <3>3
  <2>5. m_Handles' \in Vectors
    BY <2>1 DEF NextDestroyed, NextMaster, NextClone, Changed
  <2>6. m_FreeHandles' \in Seq(Indices) /\ opened' \in [Types -> Int]
    <3>1. m_FreeHandles' = m_FreeHandles \/ m_FreeHandles' = Append(m_FreeHandles, i)
      BY <2>1 DEF NextDestroyed, NextMaster, NextClone
    <3>2. opened' = opened \/ opened' = [opened EXCEPT ![Top.type] = @ - 1]
      BY <2>1 DEF NextDestroyed, NextMaster, NextClone
    <3> QED BY <3>1, <3>2, OneFewerTyped DEF HandleTypeOK
  <2>7. destroyed' \in [1..MaxMade -> Nat]
    BY <2>1, OneMoreTyped DEF NextDestroyed, NextMaster, NextClone, HandleTypeOK
  <2>8. mangled' \in BOOLEAN
    BY <1>11 DEF RemoveNext, HandleTypeOK
  <2> QED BY <2>2, <2>4, <2>5, <2>6, <2>7, <2>8 DEF HandleTypeOK, Vectors
<1>12. ASSUME RemoveReturns PROVE HandleTypeOK' /\ Shape'
  <2>1. PICK i \in Indices, m \in Indices :
            /\ i = Top.i /\ m = MasterOf(i) /\ stack' = Scanned(i)
            /\ OneReleased(i) \/ \E f : TwoReleased(f, i, m)
    BY <1>12, RemoveReturnsIs
  <2>2. /\ stack # <<>> /\ Top.op = "type" /\ mangled' \in BOOLEAN
        /\ UNCHANGED <<m_HandleTail, m_HSerial, types, identity, given, destroyed, crashed>>
    BY <1>12 DEF RemoveReturns, At
  <2>3. i + 1 \in 1..(MaxHandles + 1)
    BY DEF Indices
  <2>4. stack' \in Seq(Frames) /\ Len(stack') <= MaxDepth /\ Shape'
    <3>1. stack[1].op = "type" /\ 1 \in DOMAIN stack
      BY <2>2, TopTyped
    <3>2. stack' = [stack EXCEPT ![Len(stack)].i = i + 1, ![Len(stack)].at = "look"]
      BY <2>1 DEF Scanned
    <3>3. MovedTo(i + 1, "look")
      BY <2>2, <2>3, <3>2, MovedIs
    <3>4. types' = types
      BY <2>2
    <3> QED BY <3>1, <3>3, <3>4, MoveShape
  <2>5. m_Handles' \in Vectors /\ m_FreeHandles' \in Seq(Indices) /\ opened' \in [Types -> Int]
    <3>1. CASE OneReleased(i)
      BY <3>1, OneReleasedTyped
    <3>2. ASSUME NEW f, TwoReleased(f, i, m)
          PROVE  m_Handles' \in Vectors /\ m_FreeHandles' \in Seq(Indices) /\ opened' \in [Types -> Int]
      <4>1. m_Handles' \in Vectors
        BY <3>2 DEF TwoReleased, Changed
      <4>2. PICK o : /\ o = [opened EXCEPT ![m_Handles[m].type] = @ - 1]
                     /\ opened' = [o EXCEPT ![m_Handles[i].type] = @ - 1]
        BY <3>2 DEF TwoReleased
      <4>3. Append(m_FreeHandles, m) \in Seq(Indices) /\ o \in [Types -> Int]
        BY <4>2, OneFewerTyped
      <4>4. m_FreeHandles' \in Seq(Indices)
        BY <3>2, <4>3, AppendProperties DEF TwoReleased
      <4>5. opened' \in [Types -> Int]
        <5>1. \A x : x \in Types => o[x] - 1 \in Int
          BY <4>3
        <5> QED BY <4>2, <4>3, <5>1
      <4> QED BY <4>1, <4>4, <4>5
    <3> QED BY <2>1, <3>1, <3>2
  <2> QED BY <2>2, <2>4, <2>5 DEF HandleTypeOK, Vectors
<1>13. ASSUME RemoveDone PROVE HandleTypeOK' /\ Shape'
  <2>1. stack # <<>> /\ stack' = Popped
        /\ UNCHANGED <<m_Handles, m_FreeHandles, m_HandleTail, m_HSerial, types, opened, identity,
                       given, destroyed, mangled, crashed>>
    BY <1>13 DEF RemoveDone, At
  <2>2. stack' \in Seq(Frames) /\ Len(stack') = Len(stack) - 1 /\ Shape'
    BY <2>1, PopShape
  <2> QED BY <1>0, <2>1, <2>2 DEF HandleTypeOK
<1> QED BY <1>1, <1>2, <1>3, <1>4, <1>5, <1>6, <1>7, <1>8, <1>9, <1>10, <1>11, <1>12, <1>13
        DEF Next, Users, Returns

-----------------------------------------------------------------------------
(***************************************************************************)
(* The serials.                                                            *)
(***************************************************************************)
(* Only MakePrimHandle() gives out handle values. *)
LEMMA GivenSteps ==
    ASSUME HandleTypeOK, Shape, Next
    PROVE  \/ given' = given /\ m_HSerial' = m_HSerial
           \/ /\ m_HSerial' = NextSerial
              /\ \E v \in Values : given' = Append(given, v) /\ v.serial = NextSerial
<1>1. ASSUME NEW h, NEW set, NEW type, NEW object, NEW owner, NEW clone,
             MakePrimHandle(h, set, type, object, owner, clone)
      PROVE  /\ m_HSerial' = NextSerial
             /\ \E v \in Values : given' = Append(given, v) /\ v.serial = NextSerial
  <2>1. PICK v : /\ v = [index |-> TryAllocHandle, serial |-> NextSerial,
                         object |-> IF clone = 0 THEN object ELSE h[clone].object]
                 /\ given' = Append(given, v) /\ m_HSerial' = NextSerial
    BY <1>1 DEF MakePrimHandle
  <2>2. PICK n : n = Len(given) + 1
    OBVIOUS
  <2>3. given \in Seq(Values) /\ given' \in Seq(Values) /\ Len(given) \in Nat
    BY TypesKept, LenProperties DEF HandleTypeOK
  <2>4. v \in Values
    <3>1. Len(given') = Len(given) + 1 /\ given'[Len(given) + 1] = v
      BY <2>1, <2>3
    <3> QED BY <2>3, <3>1, ElementOfSeq
  <2> QED BY <2>1, <2>4
<1>2. CASE Users
  BY <1>1, <1>2 DEF Users, CreateIdentity, DestroyIdentity, CreateType, RemoveType, CreateHandle,
                    FreeHandle, CloneHandle
<1>3. CASE Returns
  BY <1>3 DEF Returns, DestroyReturns, FreeOwned, IdentityReleased, RemoveNext, RemoveReturns,
              RemoveDone
<1> QED BY <1>2, <1>3 DEF Next

LEMMA SerialsKept ==
    ASSUME HandleTypeOK, Shape, Serials, Next
    PROVE  Serials'
<1>1. CASE given' = given /\ m_HSerial' = m_HSerial
  BY <1>1 DEF Serials
<1>2. CASE \E v \in Values : /\ given' = Append(given, v) /\ v.serial = NextSerial
                             /\ m_HSerial' = NextSerial
  <2>1. PICK v \in Values : /\ given' = Append(given, v) /\ v.serial = NextSerial
                            /\ m_HSerial' = NextSerial
    BY <1>2
  <2>2. PICK q, n : q = given' /\ n = Len(given)
    OBVIOUS
  <2>3. given \in Seq(Values) /\ q = Append(given, v) /\ Period \in Nat /\ Period >= 1
    BY <2>1, <2>2, HandleConstants DEF HandleTypeOK, Period
  <2>4. /\ Len(q) = n + 1 /\ n \in Nat /\ DOMAIN given = 1..n /\ DOMAIN q = 1..(n + 1)
        /\ q[n + 1] = v /\ q # <<>>
        /\ \A k \in 1..n : q[k] = given[k]
    BY <2>2, <2>3, PushedIs
  <2>5. \A k \in 1..n : given[k].serial \in 1..Period
    <3>1. \A k \in 1..n : given[k] \in Values
      BY <2>2, <2>3, ElementOfSeq
    <3> QED BY <3>1 DEF Values, Period
  <2>6. m_HSerial = IF n = 0 THEN 0 ELSE given[n].serial
    BY <2>2, <2>3, EmptySeq DEF Serials
  <2>7. v.serial = IF m_HSerial = Period THEN 1 ELSE m_HSerial + 1
    BY <2>1, <2>3, HandleConstants DEF NextSerial, Period, HandleTypeOK
  <2>8. ASSUME NEW j \in 1..n, (n + 1) - j < Period
        PROVE  v.serial - given[j].serial \in {(n + 1) - j, ((n + 1) - j) - Period}
    <3>1. given[j].serial \in 1..Period /\ given[n].serial \in 1..Period
      BY <2>4, <2>5
    <3>2. m_HSerial = given[n].serial
      BY <2>4, <2>6
    <3>3. CASE j = n
      BY <2>3, <2>4, <2>7, <3>1, <3>2, <3>3
    <3>4. CASE j # n
      <4>1. j < n /\ n - j < Period /\ n \in DOMAIN given /\ j \in DOMAIN given
        BY <2>3, <2>4, <2>8, <3>4
      <4>2. given[n].serial - given[j].serial \in {n - j, (n - j) - Period}
        BY <4>1 DEF Serials
      <4>3. PICK a \in 1..Period, b \in 1..Period, d \in Nat :
                a = given[n].serial /\ b = given[j].serial /\ d = n - j
        BY <2>4, <3>1, <4>1
      <4>4. v.serial = IF a = Period THEN 1 ELSE a + 1
        BY <2>7, <3>2, <4>3
      <4>5. a - b \in {d, d - Period} /\ d < Period /\ (n + 1) - j = d + 1
        BY <2>4, <4>1, <4>2, <4>3
      <4>6. v.serial - b \in {d + 1, (d + 1) - Period}
        <5>1. CASE a = Period
          <6>1. v.serial = 1 /\ (Period - b = d \/ Period - b = d - Period)
            BY <4>4, <4>5, <5>1
          <6>2. b <= Period /\ d < Period /\ b \in Int /\ d \in Int /\ Period \in Int
            BY <2>3, <4>3, <4>5
          <6>3. Period - b = d
            BY <6>1, <6>2
          <6>4. 1 - b = (d + 1) - Period
            BY <6>2, <6>3
          <6> QED BY <6>1, <6>4
        <5>2. CASE a # Period
          <6>1. v.serial = a + 1 /\ (a - b = d \/ a - b = d - Period)
            BY <4>4, <4>5, <5>2
          <6>2. a \in Int /\ b \in Int /\ d \in Int /\ Period \in Int
            BY <2>3, <4>3
          <6>3. (a + 1) - b = d + 1 \/ (a + 1) - b = (d + 1) - Period
            BY <6>1, <6>2
          <6> QED BY <6>1, <6>3
        <5> QED BY <5>1, <5>2
      <4> QED BY <4>3, <4>5, <4>6
    <3> QED BY <3>3, <3>4
  <2>9. \A j, k \in 1..(n + 1) : j < k /\ k - j < Period =>
           q[k].serial - q[j].serial \in {k - j, (k - j) - Period}
    <3> SUFFICES ASSUME NEW j \in 1..(n + 1), NEW k \in 1..(n + 1), j < k, k - j < Period
                 PROVE  q[k].serial - q[j].serial \in {k - j, (k - j) - Period}
      OBVIOUS
    <3>1. j \in 1..n /\ q[j] = given[j]
      BY <2>4
    <3>2. CASE k = n + 1
      BY <2>4, <2>8, <3>1, <3>2
    <3>3. CASE k # n + 1
      <4>1. k \in 1..n /\ q[k] = given[k]
        BY <2>4, <3>3
      <4> QED BY <2>4, <3>1, <4>1 DEF Serials
    <3> QED BY <3>2, <3>3
  <2> QED BY <2>1, <2>2, <2>4, <2>9 DEF Serials
<1> QED BY <1>1, <1>2, GivenSteps

(* What holds of every state, whatever has happened to the links. *)
LEMMA BaseKept ==
    ASSUME Base, [Next]_vars
    PROVE  Base'
<1>1. CASE Next
  BY <1>1, TypesKept, SerialsKept DEF Base
<1>2. CASE UNCHANGED vars
  BY <1>2 DEF Base, vars, HandleTypeOK, Shape, Serials
<1> QED BY <1>1, <1>2

-----------------------------------------------------------------------------
(***************************************************************************)
(* The inductive invariant: what holds as long as nothing is mangled.      *)
(***************************************************************************)
(* RemoveType() is under way; has passed handle i, of its type, which then has
   given up its reference; or has destroyed the object of master i. *)
Sweep     == stack # <<>> /\ stack[1].op = "type"
Passed(i) == Sweep /\ m_Handles[i].type = stack[1].type /\ i < stack[1].i
Doomed(i) == Sweep /\ stack[1].at = "destroy" /\ i = MasterOf(stack[1].i)

Master(i) == m_Handles[i].set \in {"used", "freed"} /\ m_Handles[i].clone = 0
Clone(i)  == m_Handles[i].set # "none" /\ m_Handles[i].clone # 0

(* Inside other calls there are only destructions of single handles. *)
Outermost == \A k \in DOMAIN stack : k # 1 => stack[k].op = "free"

Slots == /\ ToSet(m_FreeHandles) = {i \in 1..m_HandleTail : ~InUse(i)}
         /\ IsInjective(m_FreeHandles)
         /\ \A i \in (m_HandleTail + 1)..MaxHandles : ~InUse(i)

Kinds == \A i \in Indices : InUse(i) =>
    /\ m_Handles[i].set = "identity" => m_Handles[i].type = NULL /\ m_Handles[i].clone = 0
                                        /\ m_Handles[i].object = 0
    /\ m_Handles[i].set # "identity" => m_Handles[i].type \in Types

(* A clone refers to a master of its type that is not being destroyed, and is
   in use unless RemoveType() has taken it before its clones; RemoveType() has
   released the clones it has passed. *)
CloneFits(i, m) ==
    /\ m_Handles[i].set = "used" /\ ~m_Handles[i].is_destroying
    /\ m_Handles[m].clone = 0 /\ m_Handles[m].type = m_Handles[i].type
    /\ ~m_Handles[m].is_destroying
    /\ Sweep /\ m_Handles[i].type = stack[1].type => i >= stack[1].i
    /\ ~InUse(m) => Sweep /\ m_Handles[i].type = stack[1].type /\ m_Handles[m].refcount <= 0
ClonesFit == \A i \in Indices : Clone(i) => CloneFits(i, m_Handles[i].clone)

(* The masters being destroyed are those of the frames. *)
Framed ==
    /\ \A k \in DOMAIN stack : stack[k].op = "free" =>
          Master(stack[k].i) /\ m_Handles[stack[k].i].is_destroying
    /\ \A j, k \in DOMAIN stack : stack[j].op = "free" /\ stack[k].op = "free"
                                  /\ stack[j].i = stack[k].i => j = k
    /\ \A i \in Indices : InUse(i) /\ m_Handles[i].is_destroying =>
          \E k \in DOMAIN stack : stack[k].op = "free" /\ stack[k].i = i

(* What RemoveType() holds while it waits for OnHandleDestroy(). *)
HeldBy(i, m) ==
    /\ InUse(i) /\ Master(m) /\ m_Handles[m].refcount <= 0 /\ ~m_Handles[m].is_destroying
    /\ m_Handles[i].type = stack[1].type
Held == Sweep /\ stack[1].at = "destroy" => HeldBy(stack[1].i, MasterOf(stack[1].i))

Identities ==
    /\ \A t \in Live : m_Handles[identity[t]].set = "identity"
    /\ \A s, t \in Live : identity[s] = identity[t] => s = t
    /\ stack # <<>> /\ stack[1].op = "identity" => \E t \in Live : identity[t] = stack[1].i

(* A master counts its clones, and itself unless it was freed or RemoveType()
   has passed it. *)
Own(m) == (IF m_Handles[m].set = "used" THEN 1 ELSE 0) - (IF Passed(m) THEN 1 ELSE 0)
Counts(m) == /\ m_Handles[m].refcount >= 1
             /\ m_Handles[m].refcount = Cardinality(Clones(m)) + Own(m)
Refs ==
    /\ crashed => Sweep
    /\ ~crashed => \A m \in Indices : Master(m) /\ ~m_Handles[m].is_destroying /\ ~Doomed(m) =>
                                      Counts(m)

Sweeps(type)    == Sweep /\ stack[1].type = type
OfOneType(type) == {i \in Indices : InUse(i) /\ m_Handles[i].type = type}
Counted == \A type \in Types : /\ opened[type] = Cardinality(OfOneType(type))
                               /\ type \notin types /\ ~Sweeps(type) => opened[type] = 0

(* The value of every handle in use is the last that was given out for its
   index; a master's object was made with it. *)
Latest(i, n) == /\ n \in DOMAIN given /\ given[n].index = i
                /\ \A k \in DOMAIN given : given[k].index = i => k <= n
IsValueOf(i, n) ==
    /\ Latest(i, n) /\ given[n].serial = m_Handles[i].serial
    /\ m_Handles[i].set # "identity" => given[n].object = ObjectAt(i)
    /\ Master(i) => m_Handles[i].object = n
Remembered ==
    /\ \A i \in Indices : InUse(i) => \E n \in DOMAIN given : IsValueOf(i, n)
    /\ \A n \in DOMAIN given : given[n].object # 0 =>
          given[n].object \in DOMAIN given /\ given[given[n].object].object = given[n].object

(* An object has been destroyed if its master is being destroyed or is gone. *)
Gone ==
    /\ \A m \in Indices : Master(m) =>
         destroyed[m_Handles[m].object] = IF m_Handles[m].is_destroying \/ Doomed(m) THEN 1 ELSE 0
    /\ \A o \in DOMAIN given : given[o].object = o =>
         destroyed[o] = 1 \/ \E m \in Indices : Master(m) /\ m_Handles[m].object = o
    /\ \A o \in 1..MaxMade : destroyed[o] <= 1 /\ (o > Len(given) => destroyed[o] = 0)

Sound == /\ ~mangled
         /\ Outermost /\ Slots /\ Kinds /\ ClonesFit /\ Framed /\ Held /\ Identities /\ Refs
         /\ Counted /\ Remembered /\ Gone /\ UnloadReleasesAll /\ OwnerChains

(* The inductive invariant of the handle system. *)
AllInv == Base /\ (~mangled => Sound)

-----------------------------------------------------------------------------
(***************************************************************************)
(* Parts that no operation but the making of a handle can disturb.         *)
(***************************************************************************)
(* The first frame, as far as a RemoveType() is concerned, stays. *)
SameScan == /\ Sweep' <=> Sweep
            /\ Sweep => stack'[1] = stack[1]

(* It is still the same type's, or there is none. *)
SameSweep == /\ Sweep' <=> Sweep
             /\ Sweep => stack'[1].type = stack[1].type

LEMMA KindsKept ==
    ASSUME NEW R, NEW F, NEW D, NEW m, Changed(m_Handles', m_Handles, R, F, D, m), Kinds,
           \A j \in Indices : j \in F => m_Handles[j].set = "used"
    PROVE  Kinds'
<1>1. \A j \in Indices : m_Handles'[j].set # "none" =>
         /\ m_Handles[j].set # "none" /\ m_Handles'[j].type = m_Handles[j].type
         /\ m_Handles'[j].clone = m_Handles[j].clone /\ m_Handles'[j].object = m_Handles[j].object
         /\ m_Handles'[j].set = "identity" <=> m_Handles[j].set = "identity"
  BY DEF Changed
<1> QED BY <1>1 DEF Kinds, InUse

LEMMA OwnersKept ==
    ASSUME NEW R, NEW F, NEW D, NEW m, Changed(m_Handles', m_Handles, R, F, D, m),
           UnloadReleasesAll, identity' = identity
    PROVE  UnloadReleasesAll'
<1>1. \A j \in Indices : m_Handles'[j].set = "used" =>
         m_Handles[j].set = "used" /\ m_Handles'[j].owner = m_Handles[j].owner
  BY DEF Changed
<1>2. Live' = Live
  BY DEF Live
<1> QED BY <1>1, <1>2 DEF UnloadReleasesAll

LEMMA IdentitiesKept ==
    ASSUME NEW R, NEW F, NEW D, NEW m, Changed(m_Handles', m_Handles, R, F, D, m),
           HandleTypeOK, Identities, identity' = identity,
           \A j \in Indices : j \in R \/ j \in F => m_Handles[j].set # "identity",
           (stack' # <<>> /\ stack'[1].op = "identity") =>
              \E t \in Live : identity[t] = stack'[1].i
    PROVE  Identities'
<1>1. Live' = Live /\ \A t \in Live : identity[t] \in Indices
  BY DEF Live, HandleTypeOK, Indices
<1>2. \A j \in Indices : m_Handles[j].set = "identity" => m_Handles'[j].set = "identity"
  BY DEF Changed
<1>3. \A t \in Live' : m_Handles'[identity'[t]].set = "identity"
  BY <1>1, <1>2 DEF Identities
<1>4. \A s, t \in Live' : identity'[s] = identity'[t] => s = t
  BY <1>1 DEF Identities
<1>5. stack' # <<>> /\ stack'[1].op = "identity" => \E t \in Live' : identity'[t] = stack'[1].i
  BY <1>1
<1> QED BY <1>3, <1>4, <1>5 DEF Identities

LEMMA RememberedKept ==
    ASSUME NEW R, NEW F, NEW D, NEW m, Changed(m_Handles', m_Handles, R, F, D, m),
           HandleTypeOK, Remembered, given' = given,
           \A j \in Indices : j \in F => m_Handles[j].set = "used"
    PROVE  Remembered'
<1>1. \A j \in Indices :
         /\ m_Handles'[j].serial = m_Handles[j].serial /\ m_Handles'[j].clone = m_Handles[j].clone
         /\ m_Handles'[j].object = m_Handles[j].object
         /\ m_Handles'[j].set # "none" => m_Handles[j].set # "none"
         /\ m_Handles'[j].set # "identity" /\ m_Handles'[j].set # "none" =>
               m_Handles[j].set # "identity"
         /\ m_Handles'[j].set \in {"used", "freed"} => m_Handles[j].set \in {"used", "freed"}
  BY DEF Changed
<1>2. ASSUME NEW i \in Indices, InUse(i)' PROVE \E n \in DOMAIN given' : IsValueOf(i, n)'
  <2>1. InUse(i)
    BY <1>1, <1>2 DEF InUse
  <2>2. PICK n \in DOMAIN given : IsValueOf(i, n)
    BY <2>1 DEF Remembered
  <2>3. MasterOf(i)' = MasterOf(i) /\ MasterOf(i) \in Indices
    BY <1>1, MasterOfTyped DEF MasterOf
  <2>4. ObjectAt(i)' = ObjectAt(i)
    BY <1>1, <2>3 DEF ObjectAt
  <2>5. Latest(i, n)'
    BY <2>2 DEF Latest, IsValueOf
  <2>6. IsValueOf(i, n)'
    BY <1>1, <1>2, <2>2, <2>4, <2>5 DEF IsValueOf, Master, InUse
  <2> QED BY <2>6
<1> QED BY <1>2 DEF Remembered

(* Counting indices. *)
LEMMA CountIs ==
    ASSUME NEW S \in SUBSET Indices
    PROVE  IsFiniteSet(S) /\ Cardinality(S) \in Nat /\ (Cardinality(S) = 0 <=> S = {})
<1>1. IsFiniteSet(Indices)
  BY HandleConstants, FS_Interval DEF Indices
<1>2. IsFiniteSet(S)
  BY <1>1, FS_Subset
<1> QED BY <1>2, FS_CardinalityType, FS_EmptySet

LEMMA CountAdd ==
    ASSUME NEW S \in SUBSET Indices, NEW x \in Indices, x \notin S
    PROVE  Cardinality(S \cup {x}) = Cardinality(S) + 1
  BY CountIs, FS_AddElement

LEMMA CountDrop ==
    ASSUME NEW S \in SUBSET Indices, NEW x \in S
    PROVE  Cardinality(S \ {x}) = Cardinality(S) - 1
  BY CountIs, FS_RemoveElement

LEMMA CountOne ==
    ASSUME NEW S \in SUBSET Indices, NEW x \in S, Cardinality(S) = 1
    PROVE  S = {x}
<1>1. Cardinality(S \ {x}) = 0 /\ S \ {x} \in SUBSET Indices
  BY CountDrop
<1>2. S \ {x} = {}
  BY <1>1, CountIs
<1> QED BY <1>2

(* Handles that are not in use stay so, and none is released. *)
LEMMA SlotsSame ==
    ASSUME Slots, HandleTypeOK, m_FreeHandles' = m_FreeHandles, m_HandleTail' = m_HandleTail,
           \A j \in Indices : InUse(j)' <=> InUse(j)
    PROVE  Slots'
<1>1. 1..m_HandleTail \subseteq Indices /\ (m_HandleTail + 1)..MaxHandles \subseteq Indices
  BY HandleConstants DEF HandleTypeOK, Indices
<1>2. {i \in 1..m_HandleTail : ~InUse(i)}' = {i \in 1..m_HandleTail : ~InUse(i)}
  BY <1>1
<1> QED BY <1>1, <1>2 DEF Slots

(* A handle in use is released. *)
LEMMA SlotsRelease ==
    ASSUME Slots, HandleTypeOK, NEW i \in Indices, InUse(i),
           m_FreeHandles' = Append(m_FreeHandles, i), m_HandleTail' = m_HandleTail,
           \A j \in Indices : InUse(j)' <=> InUse(j) /\ j # i
    PROVE  Slots'
<1>1. 1..m_HandleTail \subseteq Indices /\ (m_HandleTail + 1)..MaxHandles \subseteq Indices
  BY HandleConstants DEF HandleTypeOK, Indices
<1>2. i \in 1..m_HandleTail
  BY HandleConstants DEF Slots, HandleTypeOK, Indices
<1>3. i \notin ToSet(m_FreeHandles) /\ m_FreeHandles \in Seq(Indices) /\ IsInjective(m_FreeHandles)
  BY DEF Slots, HandleTypeOK
<1>4. IsInjective(m_FreeHandles') /\ ToSet(m_FreeHandles') = ToSet(m_FreeHandles) \cup {i}
  BY <1>3, PushOnce
<1>5. {j \in 1..m_HandleTail : ~InUse(j)}' = {j \in 1..m_HandleTail : ~InUse(j)} \cup {i}
  BY <1>1, <1>2
<1> QED BY <1>1, <1>4, <1>5 DEF Slots

LEMMA SlotsReleaseTwo ==
    ASSUME Slots, HandleTypeOK, NEW i \in Indices, InUse(i), NEW m \in Indices, InUse(m), m # i,
           m_FreeHandles' = Append(Append(m_FreeHandles, m), i), m_HandleTail' = m_HandleTail,
           \A j \in Indices : InUse(j)' <=> InUse(j) /\ j # i /\ j # m
    PROVE  Slots'
<1>1. 1..m_HandleTail \subseteq Indices /\ (m_HandleTail + 1)..MaxHandles \subseteq Indices
  BY HandleConstants DEF HandleTypeOK, Indices
<1>2. i \in 1..m_HandleTail /\ m \in 1..m_HandleTail
  BY HandleConstants DEF Slots, HandleTypeOK, Indices
<1>3. /\ i \notin ToSet(m_FreeHandles) /\ m \notin ToSet(m_FreeHandles)
      /\ m_FreeHandles \in Seq(Indices) /\ IsInjective(m_FreeHandles)
  BY DEF Slots, HandleTypeOK
<1>4. PICK q : q = Append(m_FreeHandles, m)
  OBVIOUS
<1>5. q \in Seq(Indices) /\ IsInjective(q) /\ ToSet(q) = ToSet(m_FreeHandles) \cup {m}
  BY <1>3, <1>4, PushOnce
<1>6. i \notin ToSet(q) /\ m_FreeHandles' = Append(q, i)
  BY <1>3, <1>4, <1>5
<1>7. IsInjective(m_FreeHandles') /\ ToSet(m_FreeHandles') = ToSet(m_FreeHandles) \cup {m, i}
  BY <1>5, <1>6, PushOnce
<1>8. {j \in 1..m_HandleTail : ~InUse(j)}' = {j \in 1..m_HandleTail : ~InUse(j)} \cup {m, i}
  BY <1>1, <1>2
<1> QED BY <1>1, <1>7, <1>8 DEF Slots

(* The types' counts: of no type does a handle go, or of one type one. *)
LEMMA CountedSame ==
    ASSUME Counted, opened' = opened, types' = types, SameSweep,
           \A j \in Indices : /\ InUse(j)' <=> InUse(j)
                              /\ m_Handles'[j].type = m_Handles[j].type
    PROVE  Counted'
<1>1. \A type \in Types : OfOneType(type)' = OfOneType(type)
  BY DEF OfOneType
<1>2. \A type : Sweeps(type)' <=> Sweeps(type)
  BY DEF SameSweep, Sweeps
<1> QED BY <1>1, <1>2 DEF Counted

LEMMA CountedRelease ==
    ASSUME Counted, HandleTypeOK, NEW i \in Indices, InUse(i), m_Handles[i].type \in Types,
           opened' = [opened EXCEPT ![m_Handles[i].type] = @ - 1], types' = types, SameSweep,
           \A j \in Indices : /\ InUse(j)' <=> InUse(j) /\ j # i
                              /\ m_Handles'[j].type = m_Handles[j].type
    PROVE  Counted'
<1>1. PICK t \in Types : t = m_Handles[i].type
  OBVIOUS
<1>2. opened'[t] = opened[t] - 1 /\ \A s \in Types : s # t => opened'[s] = opened[s]
  BY <1>1 DEF HandleTypeOK
<1>3. \A s \in Types : s # t => OfOneType(s)' = OfOneType(s)
  BY <1>1 DEF OfOneType
<1>4. OfOneType(t)' = OfOneType(t) \ {i} /\ i \in OfOneType(t) /\ OfOneType(t) \in SUBSET Indices
  BY <1>1 DEF OfOneType
<1>5. Cardinality(OfOneType(t)') = Cardinality(OfOneType(t)) - 1
  BY <1>4, CountDrop
<1>6. Cardinality(OfOneType(t)) # 0
  BY <1>4, CountIs
<1>7. t \notin types => Sweeps(t)
  BY <1>6 DEF Counted
<1>8. \A type : Sweeps(type)' <=> Sweeps(type)
  BY DEF SameSweep, Sweeps
<1> QED BY <1>2, <1>3, <1>5, <1>7, <1>8 DEF Counted

LEMMA CountedReleaseTwo ==
    ASSUME Counted, HandleTypeOK, NEW i \in Indices, InUse(i), NEW m \in Indices, InUse(m), m # i,
           NEW t \in Types, m_Handles[i].type = t, m_Handles[m].type = t, NEW o,
           o = [opened EXCEPT ![t] = @ - 1], opened' = [o EXCEPT ![t] = @ - 1],
           types' = types, SameSweep, Sweeps(t),
           \A j \in Indices : /\ InUse(j)' <=> InUse(j) /\ j # i /\ j # m
                              /\ m_Handles'[j].type = m_Handles[j].type
    PROVE  Counted'
<1>1. opened'[t] = (opened[t] - 1) - 1 /\ \A s \in Types : s # t => opened'[s] = opened[s]
  BY DEF HandleTypeOK
<1>2. \A s \in Types : s # t => OfOneType(s)' = OfOneType(s)
  BY DEF OfOneType
<1>3. PICK S : S = OfOneType(t) \ {m}
  OBVIOUS
<1>4. /\ OfOneType(t)' = S \ {i} /\ m \in OfOneType(t) /\ i \in S
      /\ OfOneType(t) \in SUBSET Indices /\ S \in SUBSET Indices
  BY <1>3 DEF OfOneType
<1>5. Cardinality(S) = Cardinality(OfOneType(t)) - 1
  BY <1>3, <1>4, CountDrop
<1>6. Cardinality(OfOneType(t)') = Cardinality(S) - 1
  BY <1>4, CountDrop
<1>7. \A type : Sweeps(type)' <=> Sweeps(type)
  BY DEF SameSweep, Sweeps
<1> QED BY <1>1, <1>2, <1>5, <1>6, <1>7 DEF Counted

(* Of a handle's clones only those released are gone. *)
LEMMA ClonesLeft ==
    ASSUME NEW R, NEW F, NEW D, NEW m, Changed(m_Handles', m_Handles, R, F, D, m),
           \A j \in Indices : j \in F => m_Handles[j].set = "used", NEW x
    PROVE  /\ Clones(x)' = Clones(x) \ R /\ Clones(x) \in SUBSET Indices
           /\ \A j \in Indices : /\ MasterOf(j)' = MasterOf(j)
                                 /\ InUse(j)' <=> InUse(j) /\ j \notin R
                                 /\ m_Handles'[j].type = m_Handles[j].type
                                 /\ Master(j)' => Master(j) /\ j \notin R
                                 /\ Clone(j)' <=> Clone(j) /\ j \notin R
<1>1. \A j \in Indices : /\ m_Handles'[j].set # "none" <=> m_Handles[j].set # "none" /\ j \notin R
                         /\ m_Handles'[j].clone = m_Handles[j].clone
                         /\ m_Handles'[j].type = m_Handles[j].type
                         /\ m_Handles'[j].set \in {"used", "freed"} =>
                              j \notin R /\ m_Handles[j].set \in {"used", "freed"}
  BY DEF Changed, InUse
<1>2. Clones(x)' = Clones(x) \ R /\ Clones(x) \in SUBSET Indices
  BY <1>1 DEF Clones
<1> QED BY <1>1, <1>2 DEF MasterOf, InUse, Master, Clone

(* Clone j still fits when those in R are released and those in D destroyed. *)
StillFits(j, R, D) ==
    /\ m_Handles[j].clone \notin D
    /\ m_Handles[j].clone \in R => /\ Sweep /\ m_Handles[j].type = stack[1].type
                                   /\ m_Handles'[m_Handles[j].clone].refcount <= 0
    /\ Sweep /\ m_Handles[j].type = stack[1].type => j >= stack'[1].i

LEMMA ClonesFitKept ==
    ASSUME NEW R, NEW F, NEW D, NEW m, Changed(m_Handles', m_Handles, R, F, D, m),
           HandleTypeOK, ClonesFit, SameSweep,
           \A j \in Indices : j \in F \/ j \in D => m_Handles[j].clone = 0,
           \A j \in Indices : Clone(j) /\ j \notin R => StillFits(j, R, D)
    PROVE  ClonesFit'
<1> SUFFICES ASSUME NEW j \in Indices, Clone(j)'
             PROVE  CloneFits(j, m_Handles[j].clone)' /\ m_Handles'[j].clone = m_Handles[j].clone
  BY DEF ClonesFit
<1>1. /\ m_Handles'[j].clone = m_Handles[j].clone /\ Clone(j) /\ j \notin R /\ j \notin F
      /\ m_Handles'[j].type = m_Handles[j].type /\ m_Handles'[j].set = m_Handles[j].set
      /\ m_Handles'[j].is_destroying = m_Handles[j].is_destroying
  BY DEF Changed, Clone
<1>2. PICK x : x = m_Handles[j].clone
  OBVIOUS
<1>3. x \in Indices /\ CloneFits(j, x) /\ x \notin D
  <2>1. x # 0 /\ x \in 0..MaxHandles
    BY <1>1, <1>2 DEF Clone, HandleTypeOK, QHandles
  <2>2. x \in Indices
    BY <2>1, HandleConstants DEF Indices
  <2>3. CloneFits(j, x) /\ x \notin D
    BY <1>1, <1>2 DEF ClonesFit, StillFits
  <2> QED BY <2>2, <2>3
<1>4. /\ m_Handles'[x].clone = m_Handles[x].clone /\ m_Handles'[x].type = m_Handles[x].type
      /\ m_Handles'[x].is_destroying = m_Handles[x].is_destroying
      /\ m_Handles'[x].set = "none" => x \in R \/ m_Handles[x].set = "none"
      /\ m_Handles'[x].refcount \in {m_Handles[x].refcount, m_Handles[x].refcount - 1}
  BY <1>3 DEF Changed
<1>5. m_Handles[x].refcount \in Int
  BY <1>3 DEF HandleTypeOK, QHandles
<1>6. ASSUME ~InUse(x)' PROVE Sweep' /\ m_Handles'[j].type = stack'[1].type
                              /\ m_Handles'[x].refcount <= 0
  <2>1. CASE x \in R
    BY <1>1, <1>2, <2>1 DEF StillFits, SameSweep
  <2>2. CASE x \notin R
    <3>1. ~InUse(x)
      BY <1>4, <1>6, <2>2 DEF InUse
    <3> QED BY <1>1, <1>3, <1>4, <1>5, <3>1 DEF CloneFits, SameSweep
  <2> QED BY <2>1, <2>2
<1>7. (Sweep /\ m_Handles[j].type = stack[1].type) => j >= stack'[1].i
  BY <1>1 DEF StillFits
<1>8. CloneFits(j, x)'
  BY <1>1, <1>3, <1>4, <1>6, <1>7 DEF CloneFits, SameSweep
<1> QED BY <1>1, <1>2, <1>8

LEMMA HeldKept ==
    ASSUME NEW R, NEW F, NEW D, NEW m, Changed(m_Handles', m_Handles, R, F, D, m),
           HandleTypeOK, Held, SameScan,
           Sweep /\ stack[1].at = "destroy" =>
              /\ stack[1].i \in Indices /\ stack[1].i \notin R
              /\ MasterOf(stack[1].i) \notin R /\ MasterOf(stack[1].i) \notin D
    PROVE  Held'
<1> SUFFICES ASSUME Sweep', stack'[1].at = "destroy"
             PROVE  HeldBy(stack[1].i, MasterOf(stack[1].i))' /\ stack'[1] = stack[1]
  BY DEF Held
<1>1. Sweep /\ stack'[1] = stack[1] /\ stack[1].at = "destroy"
  BY DEF SameScan
<1>2. PICK i \in Indices : i = stack[1].i
  BY <1>1
<1>3. PICK x \in Indices : x = MasterOf(i)
  BY MasterOfTyped
<1>4. HeldBy(i, x) /\ i \notin R /\ x \notin R /\ x \notin D
  BY <1>1, <1>2, <1>3 DEF Held
<1>5. MasterOf(i)' = x
  BY <1>3 DEF MasterOf, Changed
<1>6. /\ m_Handles'[i].set # "none" <=> m_Handles[i].set # "none" \/ i \in F
      /\ m_Handles'[i].type = m_Handles[i].type
      /\ m_Handles'[x].set = m_Handles[x].set \/ m_Handles'[x].set = "freed"
      /\ m_Handles'[x].clone = m_Handles[x].clone
      /\ m_Handles'[x].is_destroying = m_Handles[x].is_destroying
      /\ m_Handles'[x].refcount \in {m_Handles[x].refcount, m_Handles[x].refcount - 1}
  BY <1>4 DEF Changed
<1>7. m_Handles[x].refcount \in Int
  BY DEF HandleTypeOK, QHandles
<1>8. HeldBy(i, x)'
  BY <1>1, <1>4, <1>6, <1>7 DEF HeldBy, InUse, Master
<1> QED BY <1>1, <1>2, <1>3, <1>5, <1>8

(* The frames: none changes; one is pushed for a master whose last reference is
   gone; the innermost returns; or there are no destructions before and after. *)
LEMMA FramedSame ==
    ASSUME NEW R, NEW F, NEW m, Changed(m_Handles', m_Handles, R, F, {}, m), HandleTypeOK, Shape,
           Framed, stack' = stack,
           \A j \in Indices : j \in R => ~m_Handles[j].is_destroying,
           \A j \in Indices : j \in F => InUse(j)
    PROVE  Framed'
<1>1. \A j \in Indices :
         /\ m_Handles'[j].is_destroying = m_Handles[j].is_destroying
         /\ m_Handles'[j].clone = m_Handles[j].clone
         /\ j \notin R => m_Handles'[j].set = m_Handles[j].set \/ m_Handles'[j].set = "freed"
         /\ m_Handles'[j].set # "none" => m_Handles[j].set # "none"
  BY DEF Changed, InUse
<1>2. \A k \in DOMAIN stack : stack[k].op = "free" => stack[k].i \in Indices
  BY DEF Shape
<1>3. \A k \in DOMAIN stack' : stack'[k].op = "free" =>
         Master(stack[k].i)' /\ m_Handles'[stack[k].i].is_destroying
  BY <1>1, <1>2 DEF Framed, Master
<1>4. \A j \in Indices : InUse(j)' /\ m_Handles'[j].is_destroying =>
         \E k \in DOMAIN stack' : stack'[k].op = "free" /\ stack'[k].i = j
  BY <1>1 DEF Framed, InUse
<1> QED BY <1>3, <1>4 DEF Framed

LEMMA FramedNone ==
    ASSUME NEW R, NEW F, NEW m, Changed(m_Handles', m_Handles, R, F, {}, m), Framed,
           \A j \in Indices : j \in F => InUse(j),
           \A k \in DOMAIN stack : stack[k].op # "free",
           \A k \in DOMAIN stack' : stack'[k].op # "free"
    PROVE  Framed'
<1>1. \A j \in Indices : /\ m_Handles'[j].is_destroying = m_Handles[j].is_destroying
                         /\ m_Handles'[j].set # "none" => m_Handles[j].set # "none"
  BY DEF Changed, InUse
<1> QED BY <1>1 DEF Framed, InUse

LEMMA FramedPush ==
    ASSUME NEW R, NEW x \in Indices, Changed(m_Handles', m_Handles, R, {}, {x}, x),
           HandleTypeOK, Shape, Framed, stack' = Append(stack, Frame("free", x, NULL, "destroy")),
           Master(x), ~m_Handles[x].is_destroying, x \notin R,
           \A j \in Indices : j \in R => ~m_Handles[j].is_destroying
    PROVE  Framed'
<1>0. PICK q, n : q = stack' /\ n = Len(stack) + 1
  OBVIOUS
<1>1. PICK b : b = Frame("free", x, NULL, "destroy")
  OBVIOUS
<1>2. b \in Frames /\ b.op = "free" /\ b.i = x
  BY <1>1, FrameTyped DEF Frame
<1>3. /\ DOMAIN stack = 1..Len(stack) /\ q[n] = b /\ n \in DOMAIN q /\ n \notin DOMAIN stack
      /\ \A k \in DOMAIN stack : k \in DOMAIN q /\ q[k] = stack[k]
      /\ \A k \in DOMAIN q : k = n \/ k \in DOMAIN stack
  <2>1. stack \in Seq(Frames) /\ q = Append(stack, b)
    BY <1>0, <1>1 DEF HandleTypeOK
  <2> QED BY <1>0, <1>2, <2>1, PushedIs
<1>4. \A j \in Indices :
         /\ j # x => m_Handles'[j].is_destroying = m_Handles[j].is_destroying
         /\ m_Handles'[j].clone = m_Handles[j].clone
         /\ j \notin R => m_Handles'[j].set = m_Handles[j].set
         /\ m_Handles'[j].set # "none" => m_Handles[j].set # "none"
  BY DEF Changed
<1>5. m_Handles'[x].is_destroying
  BY DEF Changed
<1>6. \A k \in DOMAIN stack : stack[k].op = "free" =>
         stack[k].i \in Indices /\ stack[k].i # x /\ stack[k].i \notin R
  BY DEF Shape, Framed
<1>7. Master(x)'
  BY <1>4 DEF Master
<1>8. \A k \in DOMAIN q : q[k].op = "free" => Master(q[k].i)' /\ m_Handles'[q[k].i].is_destroying
  BY <1>2, <1>3, <1>4, <1>5, <1>6, <1>7 DEF Framed, Master
<1>9. \A j, k \in DOMAIN q : q[j].op = "free" /\ q[k].op = "free" /\ q[j].i = q[k].i => j = k
  BY <1>2, <1>3, <1>6 DEF Framed
<1>10. \A j \in Indices : InUse(j)' /\ m_Handles'[j].is_destroying =>
          \E k \in DOMAIN q : q[k].op = "free" /\ q[k].i = j
  <2> SUFFICES ASSUME NEW j \in Indices, InUse(j)', m_Handles'[j].is_destroying
               PROVE  \E k \in DOMAIN q : q[k].op = "free" /\ q[k].i = j
    OBVIOUS
  <2>1. CASE j = x
    BY <1>2, <1>3, <2>1
  <2>2. CASE j # x
    <3>1. PICK k \in DOMAIN stack : stack[k].op = "free" /\ stack[k].i = j
      BY <1>4, <2>2 DEF Framed, InUse
    <3> QED BY <1>3, <3>1
  <2> QED BY <2>1, <2>2
<1> QED BY <1>0, <1>8, <1>9, <1>10 DEF Framed

LEMMA FramedPop ==
    ASSUME HandleTypeOK, Shape, Framed, stack # <<>>, stack' = Popped, Top.op = "free",
           Changed(m_Handles', m_Handles, {Top.i}, {}, {}, 0)
    PROVE  Framed'
<1>0. PICK q, n, x : q = stack' /\ n = Len(stack) /\ x = Top.i
  OBVIOUS
<1>1. /\ DOMAIN stack = 1..n /\ n \in DOMAIN stack /\ stack[n].op = "free" /\ stack[n].i = x
  BY <1>0, TopTyped
<1>2. /\ \A k \in DOMAIN q : k \in DOMAIN stack /\ k # n /\ q[k] = stack[k]
      /\ \A k \in DOMAIN stack : k # n => k \in DOMAIN q
  <2>1. stack \in Seq(Frames) /\ q = SubSeq(stack, 1, Len(stack) - 1)
    BY <1>0 DEF HandleTypeOK, Popped
  <2> QED BY <1>0, <1>1, <2>1, PoppedIs
<1>3. \A j \in Indices :
         /\ m_Handles'[j].is_destroying = m_Handles[j].is_destroying
         /\ m_Handles'[j].clone = m_Handles[j].clone
         /\ j # x => m_Handles'[j].set = m_Handles[j].set
         /\ j = x => m_Handles'[j].set = "none"
  BY <1>0 DEF Changed
<1>4. \A k \in DOMAIN q : q[k].op = "free" => q[k].i \in Indices /\ q[k].i # x
  BY <1>1, <1>2 DEF Shape, Framed
<1>5. \A k \in DOMAIN q : q[k].op = "free" => Master(q[k].i)' /\ m_Handles'[q[k].i].is_destroying
  BY <1>2, <1>3, <1>4 DEF Framed, Master
<1>6. \A j, k \in DOMAIN q : q[j].op = "free" /\ q[k].op = "free" /\ q[j].i = q[k].i => j = k
  BY <1>2 DEF Framed
<1>7. \A j \in Indices : InUse(j)' /\ m_Handles'[j].is_destroying =>
          \E k \in DOMAIN q : q[k].op = "free" /\ q[k].i = j
  <2> SUFFICES ASSUME NEW j \in Indices, InUse(j)', m_Handles'[j].is_destroying
               PROVE  \E k \in DOMAIN q : q[k].op = "free" /\ q[k].i = j
    OBVIOUS
  <2>1. j # x /\ InUse(j) /\ m_Handles[j].is_destroying
    BY <1>3 DEF InUse
  <2>2. PICK k \in DOMAIN stack : stack[k].op = "free" /\ stack[k].i = j
    BY <2>1 DEF Framed
  <2> QED BY <1>1, <1>2, <2>1, <2>2
<1> QED BY <1>0, <1>5, <1>6, <1>7 DEF Framed

LEMMA CountsKept ==
    ASSUME NEW R, NEW F, NEW D, NEW m, Changed(m_Handles', m_Handles, R, F, D, m),
           \A j \in Indices : j \in F => m_Handles[j].set = "used",
           NEW x \in Indices, x \notin R, x \notin F, x # m, Clones(x) \cap R = {},
           Passed(x)' <=> Passed(x), Counts(x)
    PROVE  Counts(x)'
<1>1. Clones(x)' = Clones(x)
  <2>1. Clones(x)' = Clones(x) \ R
    BY ClonesLeft
  <2> QED BY <2>1
<1>2. m_Handles'[x].refcount = m_Handles[x].refcount /\ m_Handles'[x].set = m_Handles[x].set
  BY DEF Changed
<1>3. Own(x)' = Own(x)
  BY <1>2 DEF Own
<1> QED BY <1>1, <1>2, <1>3 DEF Counts

(* A master's object is the number under which it was made. *)
LEMMA MastersObject ==
    ASSUME HandleTypeOK, Remembered, NEW x \in Indices, Master(x)
    PROVE  LET o == m_Handles[x].object
           IN  /\ o \in DOMAIN given /\ o \in 1..MaxMade /\ o # 0 /\ Latest(x, o)
               /\ given[o].index = x /\ given[o].object = o
<1>1. InUse(x)
  BY DEF Master, InUse
<1>2. PICK n \in DOMAIN given : IsValueOf(x, n)
  BY <1>1 DEF Remembered
<1>3. MasterOf(x) = x /\ m_Handles[x].object = n /\ m_Handles[x].set # "identity"
  BY <1>2 DEF IsValueOf, Master, MasterOf
<1>4. Latest(x, n) /\ given[n].object = n /\ given[n].index = x
  BY <1>2, <1>3 DEF IsValueOf, Latest, ObjectAt
<1>5. n \in 1..MaxMade /\ n # 0
  <2>1. given \in Seq(Values) /\ Len(given) <= MaxMade
    BY DEF HandleTypeOK
  <2>2. Len(given) \in Nat /\ DOMAIN given = 1..Len(given)
    BY <2>1, LenProperties
  <2> QED BY <2>1, <2>2, HandleConstants
<1> QED BY <1>3, <1>4, <1>5

LEMMA GoneKept ==
    ASSUME NEW R, NEW F, NEW m, Changed(m_Handles', m_Handles, R, F, {}, m),
           \A j \in Indices : j \in F => m_Handles[j].set = "used",
           Gone, destroyed' = destroyed, given' = given,
           \A j \in Indices : Master(j) /\ j \notin R => (Doomed(j)' <=> Doomed(j)),
           \A j \in Indices : Master(j) /\ j \in R => m_Handles[j].is_destroying \/ Doomed(j)
    PROVE  Gone'
<1>1. \A j \in Indices :
         /\ m_Handles'[j].is_destroying = m_Handles[j].is_destroying
         /\ m_Handles'[j].object = m_Handles[j].object
         /\ Master(j)' <=> Master(j) /\ j \notin R
  BY DEF Changed, Master
<1>2. \A j \in Indices : Master(j)' =>
         destroyed'[m_Handles'[j].object] =
            IF m_Handles'[j].is_destroying \/ Doomed(j)' THEN 1 ELSE 0
  BY <1>1 DEF Gone
<1>3. ASSUME NEW o \in DOMAIN given, given[o].object = o
      PROVE  destroyed[o] = 1 \/ \E x \in Indices : Master(x)' /\ m_Handles'[x].object = o
  <2>1. CASE destroyed[o] = 1
    BY <2>1
  <2>2. CASE \E x \in Indices : Master(x) /\ m_Handles[x].object = o
    <3>1. PICK x \in Indices : Master(x) /\ m_Handles[x].object = o
      BY <2>2
    <3>2. CASE x \in R
      BY <3>1, <3>2 DEF Gone
    <3>3. CASE x \notin R
      BY <1>1, <3>1, <3>3
    <3> QED BY <3>2, <3>3
  <2> QED BY <1>3, <2>1, <2>2 DEF Gone
<1> QED BY <1>2, <1>3 DEF Gone

(* The last reference to master x is gone and its object is destroyed. *)
LEMMA GoneLast ==
    ASSUME NEW R, NEW D, NEW x \in Indices, Changed(m_Handles', m_Handles, R, {}, D, x),
           HandleTypeOK, Remembered, Gone, given' = given,
           destroyed' = [destroyed EXCEPT ![m_Handles[x].object] = @ + 1],
           Master(x), ~m_Handles[x].is_destroying, ~Doomed(x),
           \A j \in D : j = x,
           x \in D \/ Doomed(x)',
           \A j \in Indices : Master(j) /\ j # x => (Doomed(j)' <=> Doomed(j)),
           \A j \in Indices : Master(j) => j \notin R
    PROVE  Gone'
<1>1. \A j \in Indices :
         /\ j # x => m_Handles'[j].is_destroying = m_Handles[j].is_destroying
         /\ m_Handles'[j].object = m_Handles[j].object
         /\ Master(j)' <=> Master(j)
  BY DEF Changed, Master
<1>2. PICK o : o = m_Handles[x].object
  OBVIOUS
<1>3. o \in 1..MaxMade /\ o \in DOMAIN given /\ given[o].index = x
  BY <1>2, MastersObject
<1>4. \A y \in Indices : Master(y) /\ m_Handles[y].object = o => y = x
  BY <1>3, MastersObject
<1>5. \A y \in Indices : Master(y) => m_Handles[y].object \in 1..MaxMade
  BY MastersObject
<1>6. destroyed[o] = 0
  BY <1>2 DEF Gone
<1>7. /\ destroyed' \in [1..MaxMade -> Nat] /\ destroyed'[o] = 1
      /\ \A k \in 1..MaxMade : k # o => destroyed'[k] = destroyed[k]
  BY <1>2, <1>3, <1>6 DEF HandleTypeOK
<1>8. m_Handles'[x].is_destroying \/ Doomed(x)'
  BY DEF Changed
<1>9. \A j \in Indices : Master(j)' =>
         destroyed'[m_Handles'[j].object] =
            IF m_Handles'[j].is_destroying \/ Doomed(j)' THEN 1 ELSE 0
  <2> SUFFICES ASSUME NEW j \in Indices, Master(j)
               PROVE  destroyed'[m_Handles[j].object] =
                         IF m_Handles'[j].is_destroying \/ Doomed(j)' THEN 1 ELSE 0
    BY <1>1
  <2>1. CASE j = x
    BY <1>2, <1>7, <1>8, <2>1
  <2>2. CASE j # x
    <3>1. m_Handles[j].object # o /\ m_Handles[j].object \in 1..MaxMade
      BY <1>4, <1>5, <2>2
    <3>2. destroyed'[m_Handles[j].object] = destroyed[m_Handles[j].object]
      BY <1>7, <3>1
    <3> QED BY <1>1, <2>2, <3>2 DEF Gone
  <2> QED BY <2>1, <2>2
<1>10. ASSUME NEW k \in DOMAIN given, given[k].object = k
       PROVE  destroyed'[k] = 1 \/ \E y \in Indices : Master(y)' /\ m_Handles'[y].object = k
  <2>1. k \in 1..MaxMade
    BY LenProperties, HandleConstants DEF HandleTypeOK
  <2>2. CASE k = o
    BY <1>7, <2>2
  <2>3. CASE k # o
    BY <1>1, <1>7, <1>10, <2>1, <2>3 DEF Gone
  <2> QED BY <2>2, <2>3
<1>11. \A k \in 1..MaxMade : destroyed'[k] <= 1 /\ (k > Len(given) => destroyed'[k] = 0)
  <2>1. ~(o > Len(given))
    BY <1>3, LenProperties DEF HandleTypeOK
  <2> QED BY <1>7, <2>1 DEF Gone
<1> QED BY <1>9, <1>10, <1>11 DEF Gone

-----------------------------------------------------------------------------
(***************************************************************************)
(* The chains of what the identities own.                                  *)
(***************************************************************************)
(* The handles of S, made in the order ord, are linked from a to z. *)
Chain(h, S, a, z, ord) ==
    /\ S = {} => a = 0 /\ z = 0
    /\ S # {} => a \in S /\ z \in S /\ h[a].ch_prev = 0 /\ h[z].ch_next = 0
    /\ \A i \in S : i # z => /\ h[i].ch_next \in S /\ h[h[i].ch_next].ch_prev = i
                             /\ ord[i] < ord[h[i].ch_next]
    /\ \A i \in S : i # a => h[i].ch_prev \in S /\ h[h[i].ch_prev].ch_next = i

OwnedIn(h, t) == {i \in Indices : h[i].set = "used" /\ h[i].owner = t}
ChainsIn(h, ord) ==
    \A t \in Live : Chain(h, OwnedIn(h, t), h[identity[t]].ch_prev, h[identity[t]].ch_next, ord)
Made == [i \in Indices |-> MadeAs(i)]

LEMMA ChainsAre == OwnerChains <=> ChainsIn(m_Handles, Made)
<1>1. \A t : OwnedIn(m_Handles, t) = Owned(t)
  BY DEF OwnedIn, Owned
<1>2. \A i \in Indices : Made[i] = MadeAs(i)
  BY DEF Made
<1>3. \A t : Owned(t) \subseteq Indices
  BY DEF Owned
<1>4. ASSUME NEW t, NEW a, NEW z
      PROVE  Chain(m_Handles, Owned(t), a, z, Made) <=>
                /\ IF Owned(t) = {} THEN a = 0 /\ z = 0
                   ELSE /\ {a, z} \subseteq Owned(t)
                        /\ m_Handles[a].ch_prev = 0 /\ m_Handles[z].ch_next = 0
                /\ \A i \in Owned(t) :
                     /\ i # z => /\ m_Handles[i].ch_next \in Owned(t)
                                 /\ m_Handles[m_Handles[i].ch_next].ch_prev = i
                                 /\ MadeAs(i) < MadeAs(m_Handles[i].ch_next)
                     /\ i # a => /\ m_Handles[i].ch_prev \in Owned(t)
                                 /\ m_Handles[m_Handles[i].ch_prev].ch_next = i
  <2>1. PICK S, made : S = Owned(t) /\ made = Made
    OBVIOUS
  <2>2. S \subseteq Indices /\ \A i \in Indices : MadeAs(i) = made[i]
    BY <1>2, <1>3, <2>1
  <2> HIDE DEF Owned, Made, MadeAs
  <2> QED BY <2>1, <2>2 DEF Chain
<1> QED BY <1>1, <1>4 DEF OwnerChains, ChainsIn

LEMMA ChainAgrees ==
    ASSUME NEW h, NEW g, NEW S, NEW a, NEW z, NEW ord, NEW ord2, Chain(h, S, a, z, ord),
           \A j \in S : /\ g[j].ch_prev = h[j].ch_prev /\ g[j].ch_next = h[j].ch_next
                        /\ ord2[j] = ord[j]
    PROVE  Chain(g, S, a, z, ord2)
  BY DEF Chain

(* A handle that is both head and tail is alone: otherwise the first made of
   the others had a neighbour before it. *)
LEMMA ChainAlone ==
    ASSUME NEW h, NEW S \in SUBSET Indices, NEW i \in S, NEW ord, Chain(h, S, i, i, ord),
           \A j \in S : ord[j] \in Nat
    PROVE  S = {i}
<1> SUFFICES ASSUME S \ {i} # {} PROVE FALSE
  OBVIOUS
<1>1. PICK T : T = {ord[j] : j \in S \ {i}}
  OBVIOUS
<1>2. T \subseteq Nat /\ T # {}
  BY <1>1
<1>3. PICK x \in T : \A y \in T : x <= y
  BY <1>2, LeastOf
<1>4. PICK j \in S \ {i} : x = ord[j]
  BY <1>1, <1>3
<1>5. PICK k : k = h[j].ch_prev
  OBVIOUS
<1>6. k \in S /\ h[k].ch_next = j
  BY <1>4, <1>5 DEF Chain
<1>7. h[i].ch_next = 0 /\ j # 0
  BY <1>4 DEF Chain, Indices
<1>8. k # i
  BY <1>6, <1>7
<1>9. ord[k] < ord[j]
  BY <1>6, <1>8 DEF Chain
<1>10. PICK y \in T : y = ord[k]
  BY <1>1, <1>6, <1>8
<1>11. x <= y /\ y < x /\ x \in Nat /\ y \in Nat
  BY <1>2, <1>3, <1>4, <1>9, <1>10
<1> QED BY <1>11

LEMMA ChainUnlink ==
    ASSUME NEW h \in Vectors, NEW g \in Vectors, NEW S \in SUBSET Indices, NEW id \in Indices \ S,
           NEW ord, Chain(h, S, h[id].ch_prev, h[id].ch_next, ord), \A j \in S : ord[j] \in Nat,
           NEW i \in S, Relinked(g, h, i, id)
    PROVE  /\ Chain(g, S \ {i}, g[id].ch_prev, g[id].ch_next, ord)
           /\ \A j \in Indices : j \notin S /\ j # id =>
                 g[j].ch_prev = h[j].ch_prev /\ g[j].ch_next = h[j].ch_next
<1>0. PICK a, z, p, n : /\ a = h[id].ch_prev /\ z = h[id].ch_next
                        /\ p = h[i].ch_prev /\ n = h[i].ch_next
  OBVIOUS
<1>1. Chain(h, S, a, z, ord) /\ id # 0 /\ 0 \notin S /\ id \notin S
  BY <1>0 DEF Indices
<1>2. /\ a \in S /\ z \in S /\ h[a].ch_prev = 0 /\ h[z].ch_next = 0
      /\ \A j \in S : j # z => /\ h[j].ch_next \in S /\ h[h[j].ch_next].ch_prev = j
                               /\ ord[j] < ord[h[j].ch_next]
      /\ \A j \in S : j # a => h[j].ch_prev \in S /\ h[h[j].ch_prev].ch_next = j
  BY <1>1 DEF Chain
<1>3. CASE i = a /\ i = z
  <2>1. \A j \in Indices : /\ g[j].ch_prev = IF j = id THEN 0 ELSE h[j].ch_prev
                           /\ g[j].ch_next = IF j = id THEN 0 ELSE h[j].ch_next
    BY <1>0, <1>1, <1>3 DEF Relinked
  <2>2. S \ {i} = {}
    BY <1>1, <1>3, ChainAlone
  <2>3. Chain(g, S \ {i}, g[id].ch_prev, g[id].ch_next, ord)
    BY <2>1, <2>2 DEF Chain
  <2> QED BY <2>1, <2>3
<1>4. CASE i = a /\ i # z
  <2>1. \A j \in Indices : /\ g[j].ch_prev = IF j = n THEN 0 ELSE IF j = id THEN n ELSE h[j].ch_prev
                           /\ g[j].ch_next = h[j].ch_next
    BY <1>0, <1>1, <1>4 DEF Relinked
  <2>2. n \in S /\ h[n].ch_prev = i /\ n # i /\ p = 0
    BY <1>0, <1>1, <1>2, <1>4
  <2>3. g[id].ch_prev = n /\ g[id].ch_next = z
    BY <1>0, <1>1, <2>1, <2>2
  <2>4. ASSUME NEW j \in S \ {i}, j # z
        PROVE  /\ g[j].ch_next \in S \ {i} /\ g[g[j].ch_next].ch_prev = j
               /\ ord[j] < ord[g[j].ch_next]
    <3>1. PICK k : k = h[j].ch_next
      OBVIOUS
    <3>2. k \in S /\ h[k].ch_prev = j /\ ord[j] < ord[k] /\ g[j].ch_next = k
      BY <1>2, <2>1, <2>4, <3>1
    <3>3. k # i /\ k # n /\ k # id
      BY <1>0, <1>1, <2>2, <2>4, <3>2
    <3> QED BY <2>1, <3>2, <3>3
  <2>5. ASSUME NEW j \in S \ {i}, j # n
        PROVE  g[j].ch_prev \in S \ {i} /\ g[g[j].ch_prev].ch_next = j
    <3>1. PICK k : k = h[j].ch_prev
      OBVIOUS
    <3>2. k \in S /\ h[k].ch_next = j /\ g[j].ch_prev = k
      BY <1>1, <1>2, <1>4, <2>1, <2>5, <3>1
    <3>3. k # i
      BY <1>0, <2>5, <3>2
    <3> QED BY <2>1, <3>2, <3>3
  <2>6. z \in S \ {i} /\ n \in S \ {i} /\ g[n].ch_prev = 0 /\ g[z].ch_next = 0
    BY <1>1, <1>2, <1>4, <2>1, <2>2
  <2>7. Chain(g, S \ {i}, n, z, ord)
    BY <2>4, <2>5, <2>6 DEF Chain
  <2>8. \A j \in Indices : j \notin S /\ j # id =>
           g[j].ch_prev = h[j].ch_prev /\ g[j].ch_next = h[j].ch_next
    BY <2>1, <2>2
  <2> QED BY <2>3, <2>7, <2>8
<1>5. CASE i # a /\ i = z
  <2>1. \A j \in Indices : /\ g[j].ch_prev = h[j].ch_prev
                           /\ g[j].ch_next = IF j = p THEN 0 ELSE IF j = id THEN p ELSE h[j].ch_next
    BY <1>0, <1>1, <1>5 DEF Relinked
  <2>2. p \in S /\ h[p].ch_next = i /\ p # i /\ n = 0
    BY <1>0, <1>1, <1>2, <1>5
  <2>3. g[id].ch_prev = a /\ g[id].ch_next = p
    BY <1>0, <1>1, <2>1, <2>2
  <2>4. ASSUME NEW j \in S \ {i}, j # p
        PROVE  /\ g[j].ch_next \in S \ {i} /\ g[g[j].ch_next].ch_prev = j
               /\ ord[j] < ord[g[j].ch_next]
    <3>1. PICK k : k = h[j].ch_next
      OBVIOUS
    <3>2. k \in S /\ h[k].ch_prev = j /\ ord[j] < ord[k] /\ g[j].ch_next = k
      BY <1>1, <1>2, <1>5, <2>1, <2>4, <3>1
    <3>3. k # i
      BY <1>0, <2>4, <3>2
    <3> QED BY <2>1, <3>2, <3>3
  <2>5. ASSUME NEW j \in S \ {i}, j # a
        PROVE  g[j].ch_prev \in S \ {i} /\ g[g[j].ch_prev].ch_next = j
    <3>1. PICK k : k = h[j].ch_prev
      OBVIOUS
    <3>2. k \in S /\ h[k].ch_next = j /\ g[j].ch_prev = k
      BY <1>2, <2>1, <2>5, <3>1
    <3>3. k # i /\ k # p /\ k # id
      BY <1>0, <1>1, <2>2, <2>5, <3>2
    <3> QED BY <2>1, <3>2, <3>3
  <2>6. a \in S \ {i} /\ p \in S \ {i} /\ g[a].ch_prev = 0 /\ g[p].ch_next = 0
    BY <1>2, <1>5, <2>1, <2>2
  <2>7. Chain(g, S \ {i}, a, p, ord)
    BY <2>4, <2>5, <2>6 DEF Chain
  <2>8. \A j \in Indices : j \notin S /\ j # id =>
           g[j].ch_prev = h[j].ch_prev /\ g[j].ch_next = h[j].ch_next
    BY <2>1, <2>2
  <2> QED BY <2>3, <2>7, <2>8
<1>6. CASE i # a /\ i # z
  <2>1. \A j \in Indices : /\ g[j].ch_prev = IF j = n THEN p ELSE h[j].ch_prev
                           /\ g[j].ch_next = IF j = p THEN n ELSE h[j].ch_next
    BY <1>0, <1>1, <1>6 DEF Relinked
  <2>2. /\ p \in S /\ h[p].ch_next = i /\ n \in S /\ h[n].ch_prev = i /\ ord[i] < ord[n]
        /\ p # z
    BY <1>0, <1>1, <1>2, <1>6
  <2>3. ord[p] < ord[i]
    BY <1>2, <2>2
  <2>4. ord[p] < ord[n] /\ p # i /\ n # i
    <3>1. ord[p] \in Nat /\ ord[i] \in Nat /\ ord[n] \in Nat
      BY <2>2
    <3> QED BY <2>2, <2>3, <3>1
  <2>5. g[id].ch_prev = a /\ g[id].ch_next = z
    BY <1>0, <1>1, <2>1, <2>2
  <2>6. ASSUME NEW j \in S \ {i}, j # z
        PROVE  /\ g[j].ch_next \in S \ {i} /\ g[g[j].ch_next].ch_prev = j
               /\ ord[j] < ord[g[j].ch_next]
    <3>1. PICK k : k = h[j].ch_next
      OBVIOUS
    <3>2. k \in S /\ h[k].ch_prev = j /\ ord[j] < ord[k]
      BY <1>2, <2>6, <3>1
    <3>3. CASE j = p
      BY <2>1, <2>2, <2>4, <3>3
    <3>4. CASE j # p
      <4>1. k # i /\ k # n /\ g[j].ch_next = k
        BY <1>0, <2>1, <2>2, <2>6, <3>1, <3>2, <3>4
      <4> QED BY <2>1, <3>2, <4>1
    <3> QED BY <3>3, <3>4
  <2>7. ASSUME NEW j \in S \ {i}, j # a
        PROVE  g[j].ch_prev \in S \ {i} /\ g[g[j].ch_prev].ch_next = j
    <3>1. PICK k : k = h[j].ch_prev
      OBVIOUS
    <3>2. k \in S /\ h[k].ch_next = j
      BY <1>2, <2>7, <3>1
    <3>3. CASE j = n
      BY <2>1, <2>2, <2>4, <3>3
    <3>4. CASE j # n
      <4>1. k # i /\ k # p /\ g[j].ch_prev = k
        BY <1>0, <2>1, <2>2, <2>7, <3>1, <3>2, <3>4
      <4> QED BY <2>1, <3>2, <4>1
    <3> QED BY <3>3, <3>4
  <2>8. a \in S \ {i} /\ z \in S \ {i} /\ g[a].ch_prev = 0 /\ g[z].ch_next = 0
    <3>1. a # n /\ z # p
      BY <1>1, <1>2, <2>2
    <3> QED BY <1>2, <1>6, <2>1, <3>1
  <2>9. Chain(g, S \ {i}, a, z, ord)
    BY <2>6, <2>7, <2>8 DEF Chain
  <2>10. \A j \in Indices : j \notin S /\ j # id =>
            g[j].ch_prev = h[j].ch_prev /\ g[j].ch_next = h[j].ch_next
    BY <2>1, <2>2
  <2> QED BY <2>5, <2>9, <2>10
<1> QED BY <1>3, <1>4, <1>5, <1>6

LEMMA LatestIs ==
    ASSUME HandleTypeOK, NEW i, NEW n, Latest(i, n)
    PROVE  MadeAs(i) = n /\ n \in Nat
<1>1. DOMAIN given \subseteq Nat
  BY LenProperties DEF HandleTypeOK
<1>2. \A k : Latest(i, k) => k = n
  BY <1>1 DEF Latest
<1>3. MadeAs(i) = CHOOSE k \in DOMAIN given : Latest(i, k)
  BY DEF MadeAs, Latest
<1>4. n \in DOMAIN given /\ Latest(i, n)
  BY DEF Latest
<1> QED BY <1>1, <1>2, <1>3, <1>4

LEMMA MadeIs ==
    ASSUME HandleTypeOK, Remembered
    PROVE  \A j \in Indices : InUse(j) => Made[j] \in Nat
<1>1. ASSUME NEW j \in Indices, InUse(j) PROVE Made[j] \in Nat
  <2>1. PICK n \in DOMAIN given : IsValueOf(j, n)
    BY <1>1 DEF Remembered
  <2> QED BY <2>1, LatestIs DEF IsValueOf, Made
<1> QED BY <1>1

(* Each living identity has a handle of its own. *)
OwnHandles(h) ==
    /\ \A t \in Live : identity[t] \in Indices /\ h[identity[t]].set = "identity"
    /\ \A s, t \in Live : identity[s] = identity[t] => s = t

LEMMA OwnHandlesIs ==
    ASSUME HandleTypeOK, Identities
    PROVE  OwnHandles(m_Handles)
  BY DEF HandleTypeOK, Identities, OwnHandles, Live, Indices

(* Links and owned handles stay what they are. *)
LEMMA ChainsStill ==
    ASSUME NEW h, NEW g, NEW ord, ChainsIn(h, ord), OwnHandles(h), SameLinks(g, h),
           \A j \in Indices : /\ g[j].set = "used" <=> h[j].set = "used"
                              /\ g[j].owner = h[j].owner
    PROVE  ChainsIn(g, ord)
<1> SUFFICES ASSUME NEW t \in Live
             PROVE  Chain(g, OwnedIn(g, t), g[identity[t]].ch_prev, g[identity[t]].ch_next, ord)
  BY DEF ChainsIn
<1>1. OwnedIn(g, t) = OwnedIn(h, t) /\ OwnedIn(h, t) \subseteq Indices
  BY DEF OwnedIn
<1>2. PICK S, a, z : S = OwnedIn(h, t) /\ a = h[identity[t]].ch_prev /\ z = h[identity[t]].ch_next
  OBVIOUS
<1>3. a = g[identity[t]].ch_prev /\ z = g[identity[t]].ch_next
  BY <1>2 DEF SameLinks, OwnHandles
<1>4. Chain(h, S, a, z, ord)
  BY <1>2 DEF ChainsIn
<1>5. \A j \in S : g[j].ch_prev = h[j].ch_prev /\ g[j].ch_next = h[j].ch_next /\ ord[j] = ord[j]
  BY <1>1, <1>2 DEF SameLinks
<1>6. Chain(g, S, a, z, ord)
  BY <1>4, <1>5, ChainAgrees
<1> QED BY <1>1, <1>2, <1>3, <1>6

(* Handle i leaves its owner's chain and the other chains are not touched. *)
LEMMA ChainsUnlinked ==
    ASSUME NEW h \in Vectors, NEW g \in Vectors, NEW ord, ChainsIn(h, ord), OwnHandles(h),
           NULL \notin Tokens, NEW i \in Indices, Unlinks(g, h, i), ~mangled',
           h[i].set \in {"used", "freed"}, h[i].set = "used" => h[i].owner \in Live \cup {NULL},
           \A j \in Indices : h[j].set = "used" => ord[j] \in Nat,
           \A j \in Indices : /\ g[j].set = "used" <=> h[j].set = "used" /\ j # i
                              /\ g[j].owner = h[j].owner
    PROVE  ChainsIn(g, ord)
<1>0. PICK id \in IdentityHandle(h[i].owner) :
         Relinked(g, h, i, id) /\ (h[i].set = "freed" /\ ~mangled' => SameLinks(g, h))
  BY DEF Unlinks
<1>1. CASE h[i].set = "freed"
  BY <1>0, <1>1, ChainsStill
<1>2. CASE h[i].set = "used" /\ h[i].owner = NULL
  <2>1. id = 0
    BY <1>0, <1>2 DEF IdentityHandle
  <2>2. SameLinks(g, h)
    BY <1>0, <2>1 DEF Relinked, SameLinks
  <2>3. ASSUME NEW t \in Live
        PROVE  Chain(g, OwnedIn(g, t), g[identity[t]].ch_prev, g[identity[t]].ch_next, ord)
    <3>1. OwnedIn(g, t) = OwnedIn(h, t) /\ OwnedIn(h, t) \subseteq Indices
      BY <1>2 DEF OwnedIn, Live
    <3>2. PICK S, a, z : S = OwnedIn(h, t) /\ a = h[identity[t]].ch_prev /\ z = h[identity[t]].ch_next
      OBVIOUS
    <3>3. a = g[identity[t]].ch_prev /\ z = g[identity[t]].ch_next
      BY <2>2, <3>2 DEF SameLinks, OwnHandles
    <3>4. Chain(h, S, a, z, ord)
      BY <3>2 DEF ChainsIn
    <3>5. \A j \in S : g[j].ch_prev = h[j].ch_prev /\ g[j].ch_next = h[j].ch_next /\ ord[j] = ord[j]
      BY <2>2, <3>1, <3>2 DEF SameLinks
    <3>6. Chain(g, S, a, z, ord)
      BY <3>4, <3>5, ChainAgrees
    <3> QED BY <3>1, <3>2, <3>3, <3>6
  <2> QED BY <2>3 DEF ChainsIn
<1>3. CASE h[i].set = "used" /\ h[i].owner \in Live
  <2>1. PICK o \in Live : o = h[i].owner
    BY <1>3
  <2>2. PICK S : S = OwnedIn(h, o)
    OBVIOUS
  <2>3. o # NULL
    BY DEF Live
  <2>4. id = identity[o] /\ id \in Indices /\ h[id].set = "identity"
    BY <1>0, <2>1, <2>3 DEF IdentityHandle, OwnHandles
  <2>5. S \in SUBSET Indices /\ i \in S /\ id \notin S /\ \A j \in S : h[j].set = "used"
    BY <1>3, <2>1, <2>2, <2>4 DEF OwnedIn
  <2>6. Chain(h, S, h[id].ch_prev, h[id].ch_next, ord)
    BY <2>2, <2>4 DEF ChainsIn
  <2>7. \A j \in S : ord[j] \in Nat
    BY <2>5
  <2>8. /\ Chain(g, S \ {i}, g[id].ch_prev, g[id].ch_next, ord)
        /\ \A j \in Indices : j \notin S /\ j # id =>
              g[j].ch_prev = h[j].ch_prev /\ g[j].ch_next = h[j].ch_next
    <3>1. id \in Indices \ S /\ S \in SUBSET Indices /\ i \in S /\ Relinked(g, h, i, id)
      BY <1>0, <2>4, <2>5
    <3> QED BY <2>6, <2>7, <3>1, ChainUnlink
  <2>9. ASSUME NEW t \in Live
        PROVE  Chain(g, OwnedIn(g, t), g[identity[t]].ch_prev, g[identity[t]].ch_next, ord)
    <3>1. CASE t = o
      <4>1. OwnedIn(g, t) = S \ {i}
        BY <2>2, <3>1 DEF OwnedIn
      <4> QED BY <2>4, <2>8, <3>1, <4>1
    <3>2. CASE t # o
      <4>1. /\ OwnedIn(g, t) = OwnedIn(h, t) /\ OwnedIn(h, t) \subseteq Indices
            /\ OwnedIn(h, t) \cap S = {} /\ id \notin OwnedIn(h, t)
        BY <2>1, <2>2, <2>4, <3>2 DEF OwnedIn
      <4>2. PICK T, a, z : T = OwnedIn(h, t) /\ a = h[identity[t]].ch_prev /\ z = h[identity[t]].ch_next
        OBVIOUS
      <4>3. identity[t] \in Indices /\ identity[t] # id /\ identity[t] \notin S
        BY <2>4, <2>5, <3>2 DEF OwnHandles
      <4>4. a = g[identity[t]].ch_prev /\ z = g[identity[t]].ch_next
        BY <2>8, <4>2, <4>3
      <4>5. Chain(h, T, a, z, ord)
        BY <4>2 DEF ChainsIn
      <4>6. \A j \in T : g[j].ch_prev = h[j].ch_prev /\ g[j].ch_next = h[j].ch_next /\ ord[j] = ord[j]
        BY <2>8, <4>1, <4>2
      <4>7. Chain(g, T, a, z, ord)
        BY <4>5, <4>6, ChainAgrees
      <4> QED BY <4>1, <4>2, <4>4, <4>7
    <3> QED BY <3>1, <3>2
  <2> QED BY <2>9 DEF ChainsIn
<1> QED BY <1>1, <1>2, <1>3

(* The new handle i, made after all others, is at the tail. *)
LEMMA ChainLink ==
    ASSUME NEW f \in Vectors, NEW g \in Vectors, NEW S \in SUBSET Indices, NEW i \in Indices \ S,
           NEW id \in Indices \ S, id # i, NEW ord, NEW n, n = f[id].ch_next,
           Chain(f, S, f[id].ch_prev, n, ord), f[i].ch_prev = 0, f[i].ch_next = 0,
           \A j \in S : ord[j] < ord[i], Linked(g, f, i, id, n)
    PROVE  /\ Chain(g, S \cup {i}, g[id].ch_prev, g[id].ch_next, ord)
           /\ \A j \in Indices : j \notin S /\ j # id /\ j # i =>
                 g[j].ch_prev = f[j].ch_prev /\ g[j].ch_next = f[j].ch_next
<1>0. PICK a : a = f[id].ch_prev
  OBVIOUS
<1>1. Chain(f, S, a, n, ord) /\ id # 0 /\ 0 \notin S /\ i # 0
  BY <1>0 DEF Indices
<1>2. CASE S = {}
  <2>1. a = 0
    BY <1>1, <1>2 DEF Chain
  <2>2. \A j \in Indices : /\ g[j].ch_prev = IF j = id THEN i ELSE f[j].ch_prev
                           /\ g[j].ch_next = IF j = id THEN i ELSE f[j].ch_next
    BY <1>0, <1>1, <2>1 DEF Linked
  <2>3. g[id].ch_prev = i /\ g[id].ch_next = i /\ g[i].ch_prev = 0 /\ g[i].ch_next = 0
    BY <2>2
  <2>4. S \cup {i} = {i}
    BY <1>2
  <2>5. Chain(g, {i}, i, i, ord)
    BY <2>3 DEF Chain
  <2> QED BY <2>2, <2>3, <2>4, <2>5
<1>3. CASE S # {}
  <2>1. /\ a \in S /\ n \in S /\ f[a].ch_prev = 0 /\ f[n].ch_next = 0
        /\ \A j \in S : j # n => /\ f[j].ch_next \in S /\ f[f[j].ch_next].ch_prev = j
                                 /\ ord[j] < ord[f[j].ch_next]
        /\ \A j \in S : j # a => f[j].ch_prev \in S /\ f[f[j].ch_prev].ch_next = j
    BY <1>1, <1>3 DEF Chain
  <2>2. \A j \in Indices : /\ g[j].ch_prev = IF j = i THEN n ELSE f[j].ch_prev
                           /\ g[j].ch_next = IF j = id \/ j = n THEN i ELSE f[j].ch_next
    BY <1>0, <1>1, <2>1 DEF Linked
  <2>3. g[id].ch_prev = a /\ g[id].ch_next = i
    BY <1>0, <2>2
  <2>4. g[i].ch_prev = n /\ g[n].ch_next = i /\ g[i].ch_next = 0 /\ g[a].ch_prev = 0
    BY <2>1, <2>2
  <2>5. ASSUME NEW j \in S \cup {i}, j # i
        PROVE  /\ g[j].ch_next \in S \cup {i} /\ g[g[j].ch_next].ch_prev = j
               /\ ord[j] < ord[g[j].ch_next]
    BY <2>1, <2>2, <2>4, <2>5
  <2>6. ASSUME NEW j \in S \cup {i}, j # a
        PROVE  g[j].ch_prev \in S \cup {i} /\ g[g[j].ch_prev].ch_next = j
    <3>1. CASE j = i
      BY <2>1, <2>4, <3>1
    <3>2. CASE j # i
      <4>1. PICK k : k = f[j].ch_prev
        OBVIOUS
      <4>2. k \in S /\ f[k].ch_next = j /\ g[j].ch_prev = k
        BY <2>1, <2>2, <2>6, <3>2, <4>1
      <4>3. k # n
        BY <1>1, <2>1, <2>6, <3>2, <4>2
      <4> QED BY <2>2, <4>2, <4>3
    <3> QED BY <3>1, <3>2
  <2>7. Chain(g, S \cup {i}, a, i, ord)
    BY <2>1, <2>4, <2>5, <2>6 DEF Chain
  <2>8. \A j \in Indices : j \notin S /\ j # id /\ j # i =>
           g[j].ch_prev = f[j].ch_prev /\ g[j].ch_next = f[j].ch_next
    BY <2>1, <2>2
  <2> QED BY <2>3, <2>7, <2>8
<1> QED BY <1>2, <1>3

LEMMA ChainsAreNext == OwnerChains' <=> ChainsIn(m_Handles, Made)'
  BY ChainsAre, PTL

(* One handle leaves the vector's used ones, or none does. *)
LEMMA ChainsReleased ==
    ASSUME HandleTypeOK, Sound, identity' = identity, given' = given, ~mangled',
           NEW i \in Indices, m_Handles[i].set \in {"used", "freed"},
           NEW R, NEW F, NEW D, NEW m, Changed(m_Handles', m_Handles, R, F, D, m),
           \A j \in Indices : j \in R \/ j \in F <=> j = i,
           Unlinks(m_Handles', m_Handles, i)
    PROVE  OwnerChains'
<1>1. PICK h, g, ord : h = m_Handles /\ g = m_Handles' /\ ord = Made
  OBVIOUS
<1>2. ChainsIn(h, ord) /\ OwnHandles(h) /\ h \in Vectors /\ NULL \notin Tokens
  BY <1>1, ChainsAre, OwnHandlesIs, HandleConstants DEF Sound, HandleTypeOK, Vectors
<1>3. \A j \in Indices : h[j].set = "used" => ord[j] \in Nat
  BY <1>1, MadeIs DEF Sound, InUse
<1>4. h[i].set = "used" => h[i].owner \in Live \cup {NULL}
  BY <1>1 DEF Sound, UnloadReleasesAll
<1>5. /\ g \in Vectors
      /\ \A j \in Indices : /\ g[j].set = "used" <=> h[j].set = "used" /\ j # i
                            /\ g[j].owner = h[j].owner
  BY <1>1 DEF Changed
<1>6. Unlinks(g, h, i) /\ h[i].set \in {"used", "freed"}
  BY <1>1
<1>7. ChainsIn(g, ord)
  BY <1>2, <1>3, <1>4, <1>5, <1>6, ChainsUnlinked
<1>8. Live' = Live /\ Made' = Made
  BY DEF Live, Made, MadeAs
<1>9. ChainsIn(m_Handles, Made)'
  BY <1>1, <1>7, <1>8 DEF ChainsIn
<1> QED BY <1>9, ChainsAreNext

LEMMA ChainsUntouched ==
    ASSUME HandleTypeOK, Sound, identity' = identity, given' = given,
           NEW R, NEW D, NEW m, Changed(m_Handles', m_Handles, R, {}, D, m),
           \A j \in Indices : j \in R => m_Handles[j].set # "used",
           SameLinks(m_Handles', m_Handles)
    PROVE  OwnerChains'
<1>1. PICK h, g, ord : h = m_Handles /\ g = m_Handles' /\ ord = Made
  OBVIOUS
<1>2. ChainsIn(h, ord) /\ OwnHandles(h)
  BY <1>1, ChainsAre, OwnHandlesIs DEF Sound
<1>3. \A j \in Indices : /\ g[j].set = "used" <=> h[j].set = "used"
                         /\ g[j].owner = h[j].owner
  BY <1>1 DEF Changed
<1>4. SameLinks(g, h)
  BY <1>1
<1>5. ChainsIn(g, ord)
  BY <1>2, <1>3, <1>4, ChainsStill
<1>6. Live' = Live /\ Made' = Made
  BY DEF Live, Made, MadeAs
<1>7. ChainsIn(m_Handles, Made)'
  BY <1>1, <1>5, <1>6 DEF ChainsIn
<1> QED BY <1>7, ChainsAreNext

-----------------------------------------------------------------------------
(***************************************************************************)
(* Frames pushed and popped.                                               *)
(***************************************************************************)
LEMMA PushScan ==
    ASSUME HandleTypeOK, NEW x \in Indices, Outermost,
           stack' = Append(stack, Frame("free", x, NULL, "destroy"))
    PROVE  /\ SameScan /\ Outermost' /\ stack' # <<>>
           /\ stack # <<>> => stack'[1] = stack[1]
           /\ stack = <<>> => stack'[1].op = "free"
<1>0. PICK q, n : q = stack' /\ n = Len(stack) + 1
  OBVIOUS
<1>1. PICK b : b = Frame("free", x, NULL, "destroy")
  OBVIOUS
<1>2. b \in Frames /\ b.op = "free"
  BY <1>1, FrameTyped DEF Frame
<1>3. stack \in Seq(Frames) /\ q = Append(stack, b)
  BY <1>0, <1>1 DEF HandleTypeOK
<1>4. /\ q[n] = b /\ n \in DOMAIN q /\ q # <<>>
      /\ \A k \in DOMAIN stack : k \in DOMAIN q /\ q[k] = stack[k]
      /\ \A k \in DOMAIN q : k = n \/ k \in DOMAIN stack
      /\ stack # <<>> => 1 \in DOMAIN stack
  BY <1>0, <1>2, <1>3, PushedIs
<1>5. stack = <<>> => n = 1
  BY <1>0, <1>3, EmptySeq
<1>6. \A k \in DOMAIN q : k # 1 => q[k].op = "free"
  BY <1>2, <1>4 DEF Outermost
<1>7. Outermost'
  BY <1>0, <1>6 DEF Outermost
<1>8. stack' # <<>> /\ (stack # <<>> => stack'[1] = stack[1])
      /\ (stack = <<>> => stack'[1].op = "free")
  BY <1>0, <1>2, <1>4, <1>5
<1>9. SameScan
  BY <1>8 DEF SameScan, Sweep
<1> QED BY <1>7, <1>8, <1>9

LEMMA PopScan ==
    ASSUME HandleTypeOK, Shape, Outermost, stack # <<>>, Top.op = "free", stack' = Popped
    PROVE  SameScan /\ Outermost' /\ (stack' # <<>> => stack'[1] = stack[1])
<1>0. PICK q : q = stack'
  OBVIOUS
<1>1. stack \in Seq(Frames) /\ q = SubSeq(stack, 1, Len(stack) - 1)
  BY <1>0 DEF HandleTypeOK, Popped
<1>2. /\ q \in Seq(Frames) /\ Len(stack) \in Nat \ {0} /\ DOMAIN q = 1..(Len(stack) - 1)
      /\ \A k \in DOMAIN q : k \in DOMAIN stack /\ k # Len(stack) /\ q[k] = stack[k]
      /\ Len(q) = Len(stack) - 1
  BY <1>1, PoppedIs
<1>3. (q # <<>> => 1 \in DOMAIN q) /\ (q = <<>> => Len(stack) = 1)
  BY <1>2, EmptySeq
<1>4. q = <<>> => stack[1].op = "free"
  BY <1>3 DEF Top
<1>5. stack' # <<>> => stack'[1] = stack[1]
  BY <1>0, <1>2, <1>3
<1>6. Outermost'
  BY <1>0, <1>2 DEF Outermost
<1>7. SameScan
  BY <1>0, <1>4, <1>5 DEF SameScan, Sweep
<1> QED BY <1>5, <1>6, <1>7

LEMMA SameStackScan ==
    ASSUME stack' = stack
    PROVE  SameScan /\ (Outermost => Outermost')
  BY DEF SameScan, Sweep, Outermost

LEMMA ScanSame ==
    ASSUME HandleTypeOK, Shape, SameScan, NEW R, NEW F, NEW D, NEW m,
           Changed(m_Handles', m_Handles, R, F, D, m)
    PROVE  \A j \in Indices : /\ Passed(j)' <=> Passed(j)
                              /\ Doomed(j)' <=> Doomed(j)
<1>1. \A j \in Indices : m_Handles'[j].type = m_Handles[j].type
                         /\ m_Handles'[j].clone = m_Handles[j].clone
  BY DEF Changed
<1>2. \A j \in Indices : Passed(j)' <=> Passed(j)
  BY <1>1 DEF Passed, SameScan
<1>3. ASSUME Sweep, stack[1].at = "destroy" PROVE stack[1].i \in Indices
  <2>1. 1 \in DOMAIN stack
    BY <1>3, LenProperties, EmptySeq DEF Sweep, HandleTypeOK
  <2> QED BY <1>3, <2>1 DEF Sweep, Shape
<1>4. ASSUME Sweep, stack[1].at = "destroy" PROVE MasterOf(stack[1].i)' = MasterOf(stack[1].i)
  BY <1>1, <1>3, <1>4 DEF MasterOf, SameScan
<1>5. \A j \in Indices : Doomed(j)' <=> Doomed(j)
  BY <1>4 DEF Doomed, SameScan
<1> QED BY <1>2, <1>5

LEMMA ChangedNot ==
    ASSUME HandleTypeOK, m_Handles' = m_Handles
    PROVE  Changed(m_Handles', m_Handles, {}, {}, {}, 0) /\ SameLinks(m_Handles', m_Handles)
  BY NotZero DEF HandleTypeOK, Changed, SameLinks, Vectors

-----------------------------------------------------------------------------
(***************************************************************************)
(* FreeHandle().                                                           *)
(***************************************************************************)
LEMMA CommonKept ==
    ASSUME HandleTypeOK, Sound, NEW R, NEW F, NEW D, NEW m,
           Changed(m_Handles', m_Handles, R, F, D, m), given' = given, identity' = identity,
           \A j \in Indices : j \in F => m_Handles[j].set = "used",
           \A j \in Indices : j \in R => m_Handles[j].set # "identity",
           stack' # <<>> /\ stack'[1].op = "identity" => stack # <<>> /\ stack'[1] = stack[1]
    PROVE  Kinds' /\ Identities' /\ Remembered' /\ UnloadReleasesAll'
<1>1. Kinds'
  BY KindsKept DEF Sound
<1>2. Identities'
  <2>1. Identities
    BY DEF Sound
  <2>2. \A j \in Indices : j \in R \/ j \in F => m_Handles[j].set # "identity"
    OBVIOUS
  <2>3. (stack' # <<>> /\ stack'[1].op = "identity") => \E t \in Live : identity[t] = stack'[1].i
    BY <2>1 DEF Identities
  <2> QED BY <2>1, <2>2, <2>3, IdentitiesKept
<1>3. Remembered'
  BY RememberedKept DEF Sound
<1>4. UnloadReleasesAll'
  BY OwnersKept DEF Sound
<1> QED BY <1>1, <1>2, <1>3, <1>4

(* What is known of a handle in use that is not an identity's. *)
LEMMA UsedIs ==
    ASSUME HandleTypeOK, Sound, NEW i \in Indices, InUse(i), m_Handles[i].set # "identity"
    PROVE  /\ m_Handles[i].type \in Types
           /\ m_Handles[i].type \notin types => Sweeps(m_Handles[i].type) /\ Sweep
<1>1. m_Handles[i].type \in Types
  BY DEF Sound, Kinds
<1>2. PICK t \in Types : t = m_Handles[i].type
  BY <1>1
<1>3. i \in OfOneType(t) /\ OfOneType(t) \in SUBSET Indices
  BY <1>2 DEF OfOneType
<1>4. opened[t] # 0
  BY <1>3, CountIs DEF Sound, Counted
<1> QED BY <1>1, <1>2, <1>4 DEF Sound, Counted, Sweeps

(* The master of a clone. *)
LEMMA CloneIs ==
    ASSUME HandleTypeOK, Sound, NEW i \in Indices, Clone(i)
    PROVE  LET m == m_Handles[i].clone
           IN  /\ m \in Indices /\ m # i /\ m = MasterOf(i) /\ i \in Clones(m) /\ ~Master(i)
               /\ InUse(i) /\ m_Handles[i].set = "used" /\ ~m_Handles[i].is_destroying
               /\ m_Handles[i].clone # 0 /\ m_Handles[m].clone = 0
               /\ m_Handles[m].type = m_Handles[i].type /\ ~m_Handles[m].is_destroying
               /\ m_Handles[i].type \in Types
               /\ InUse(m) => Master(m)
               /\ ~InUse(m) => Sweep /\ m_Handles[i].type = stack[1].type
               /\ Sweep /\ m_Handles[i].type = stack[1].type => i >= stack[1].i
<1>1. PICK m : m = m_Handles[i].clone
  OBVIOUS
<1>2. m \in Indices /\ m_Handles[i].clone # 0
  <2>1. m_Handles[i].clone # 0 /\ m_Handles[i].clone \in 0..MaxHandles
    BY DEF Clone, HandleTypeOK, QHandles
  <2> QED BY <1>1, <2>1, HandleConstants DEF Indices
<1>3. CloneFits(i, m) /\ InUse(i)
  BY <1>1 DEF Sound, ClonesFit, Clone, InUse
<1>4. m_Handles[i].type \in Types
  BY <1>3 DEF CloneFits, Sound, Kinds
<1>5. InUse(m) => Master(m)
  <2>1. InUse(m) => m_Handles[m].set # "identity"
    BY <1>2, <1>3, <1>4, HandleConstants DEF CloneFits, Sound, Kinds
  <2>2. m_Handles[m].set \in {"none", "used", "freed", "identity"}
    BY <1>2 DEF HandleTypeOK, QHandles
  <2> QED BY <1>3, <2>1, <2>2 DEF InUse, Master, CloneFits
<1>6. i \in Clones(m)
  BY <1>1, <1>3 DEF Clones, InUse
<1> QED BY <1>1, <1>2, <1>3, <1>4, <1>5, <1>6 DEF CloneFits, MasterOf, Master

(* A master counts, unless it is being destroyed. *)
LEMMA MasterCounts ==
    ASSUME HandleTypeOK, Sound, ~crashed, NEW m \in Indices, Master(m),
           ~m_Handles[m].is_destroying, ~Doomed(m)
    PROVE  /\ Counts(m) /\ m_Handles[m].refcount \in Int
           /\ Cardinality(Clones(m)) \in Nat /\ Clones(m) \in SUBSET Indices
           /\ Cardinality(Clones(m)) = 0 <=> Clones(m) = {}
<1>1. Counts(m)
  BY DEF Sound, Refs
<1>2. Clones(m) \in SUBSET Indices
  BY DEF Clones
<1>3. m_Handles[m].refcount \in Int
  BY DEF HandleTypeOK, QHandles
<1> QED BY <1>1, <1>2, <1>3, CountIs

(* The handle RemoveType() waits for, and its master. *)
LEMMA HeldIs ==
    ASSUME HandleTypeOK, Shape, Sound, Sweep, stack[1].at = "destroy"
    PROVE  LET i == stack[1].i  m == MasterOf(stack[1].i)
           IN  /\ i \in Indices /\ m \in Indices /\ HeldBy(i, m) /\ Doomed(m)
               /\ 1 \in DOMAIN stack /\ stack[1].type \in Types \ types
<1>1. 1 \in DOMAIN stack
  BY LenProperties, EmptySeq DEF Sweep, HandleTypeOK
<1>2. stack[1].i \in Indices /\ stack[1].type \in Types \ types
  BY <1>1 DEF Sweep, Shape
<1>3. MasterOf(stack[1].i) \in Indices
  BY <1>2, MasterOfTyped
<1> QED BY <1>1, <1>2, <1>3 DEF Sound, Held, Doomed

(* Until an OnHandleDestroy() frees a clone of what is being destroyed, the
   master of a clone that is freed is in use, and not what RemoveType() holds. *)
LEMMA ReferredIs ==
    ASSUME Base, Sound, NEW i \in Indices, Clone(i), NEW m \in Indices, m = m_Handles[i].clone,
           ~BeyondUse(m)
    PROVE  /\ Master(m) /\ InUse(m) /\ ~Doomed(m)
           /\ Sweep /\ stack[1].at = "destroy" =>
                /\ stack[1].i \in Indices /\ stack[1].i # i
                /\ MasterOf(stack[1].i) # i /\ MasterOf(stack[1].i) # m
<1>1. HandleTypeOK /\ Shape
  BY DEF Base
<1>2. m_Handles[m].refcount \in Int /\ ~(m_Handles[m].refcount <= 0)
  BY <1>1 DEF HandleTypeOK, QHandles, BeyondUse
<1>3. CloneFits(i, m)
  BY DEF Sound, ClonesFit
<1>4. InUse(m)
  BY <1>2, <1>3 DEF CloneFits
<1>5. Master(m) /\ m = MasterOf(i) /\ ~Master(i)
  BY <1>1, <1>4, CloneIs
<1>6. ASSUME Sweep, stack[1].at = "destroy"
      PROVE  /\ stack[1].i \in Indices /\ stack[1].i # i
             /\ MasterOf(stack[1].i) # i /\ MasterOf(stack[1].i) # m
  <2>1. PICK j, x : j = stack[1].i /\ x = MasterOf(j)
    OBVIOUS
  <2>2. j \in Indices /\ HeldBy(j, x)
    BY <1>1, <1>6, <2>1, HeldIs
  <2>3. Master(x) /\ m_Handles[x].refcount <= 0
    BY <2>2 DEF HeldBy
  <2>4. x # m /\ x # i
    BY <1>2, <1>5, <2>3
  <2>5. j # i
    BY <1>5, <2>1, <2>4
  <2> QED BY <2>1, <2>2, <2>4, <2>5
<1>7. ~Doomed(m)
  BY <1>6 DEF Doomed
<1> QED BY <1>4, <1>5, <1>6, <1>7

LEMMA CloneFreedQuietly ==
    ASSUME Base, Sound, ~mangled', ~crashed, NEW i \in Indices, Clone(i),
           NEW m \in Indices, m = m_Handles[i].clone, ~BeyondUse(m), StillHeld(m) \/ Crashes(m),
           Changed(m_Handles', m_Handles, {i}, {}, {}, m), Unlinks(m_Handles', m_Handles, i),
           m_FreeHandles' = Append(m_FreeHandles, i),
           opened' = [opened EXCEPT ![m_Handles[i].type] = @ - 1],
           m_HandleTail' = m_HandleTail, types' = types, identity' = identity, given' = given
    PROVE  Sound'
<1>1. HandleTypeOK /\ Shape
  BY DEF Base
<1>2. /\ m # i /\ i \in Clones(m) /\ ~Master(i) /\ InUse(i) /\ m_Handles[i].set = "used"
      /\ ~m_Handles[i].is_destroying /\ m_Handles[i].clone # 0 /\ m_Handles[m].clone = 0
      /\ ~m_Handles[m].is_destroying /\ m_Handles[i].type \in Types /\ Master(m)
      /\ InUse(m) /\ m_Handles[m].type = m_Handles[i].type /\ m_Handles[m].set # "identity"
  BY <1>1, CloneIs, ReferredIs DEF Master
<1>3. stack' = stack /\ destroyed' = destroyed
  BY DEF StillHeld, Crashes
<1>4. SameScan /\ Outermost'
  BY <1>3, SameStackScan DEF Sound
<1>5. \A j \in Indices : (Passed(j)' <=> Passed(j)) /\ (Doomed(j)' <=> Doomed(j))
  BY <1>1, <1>4, ScanSame
<1>6. /\ \A x : Clones(x)' = Clones(x) \ {i}
      /\ \A j \in Indices : /\ InUse(j)' <=> InUse(j) /\ j # i
                            /\ m_Handles'[j].type = m_Handles[j].type
                            /\ Master(j)' => Master(j) /\ j # i
  BY ClonesLeft
<1>7. Kinds' /\ Identities' /\ Remembered' /\ UnloadReleasesAll'
  BY <1>1, <1>2, <1>3, CommonKept
<1>8. Slots'
  BY <1>1, <1>2, <1>6, SlotsRelease DEF Sound
<1>9. Counted'
  <2>1. SameSweep
    BY <1>4 DEF SameScan, SameSweep
  <2> QED BY <1>1, <1>2, <1>6, <2>1, CountedRelease DEF Sound
<1>10. ClonesFit'
  <2>1. SameSweep
    BY <1>4 DEF SameScan, SameSweep
  <2>2. ASSUME NEW j \in Indices, Clone(j), j \notin {i} PROVE StillFits(j, {i}, {})
    <3>1. m_Handles[j].clone # i
      BY <1>1, <1>2, <2>2, CloneIs
    <3>2. Sweep /\ m_Handles[j].type = stack[1].type => j >= stack'[1].i
      BY <1>1, <1>4, <2>2, CloneIs DEF SameScan
    <3> QED BY <3>1, <3>2 DEF StillFits
  <2>3. ClonesFit /\ \A j \in Indices : j \in {} \/ j \in {} => m_Handles[j].clone = 0
    BY DEF Sound
  <2> QED BY <1>1, <2>1, <2>2, <2>3, ClonesFitKept
<1>11. Framed'
  BY <1>1, <1>2, <1>3, FramedSame DEF Sound
<1>12. Held'
  <2>1. PICK R, F, D : R = {i} /\ F = {} /\ D = {}
    OBVIOUS
  <2>2. /\ Changed(m_Handles', m_Handles, R, F, D, m)
        /\ Sweep /\ stack[1].at = "destroy" =>
             /\ stack[1].i \in Indices /\ stack[1].i \notin R
             /\ MasterOf(stack[1].i) \notin R /\ MasterOf(stack[1].i) \notin D
    BY <2>1, ReferredIs
  <2> QED BY <1>1, <1>4, <2>2, HeldKept DEF Sound
<1>13. Refs'
  <2>1. CASE Crashes(m)
    <3>1. m_Handles[m].type \notin types /\ crashed'
      BY <2>1 DEF Crashes
    <3>2. Sweep
      BY <1>1, <1>2, <3>1, UsedIs
    <3> QED BY <1>4, <3>1, <3>2 DEF Refs, SameScan
  <2>2. CASE StillHeld(m)
    <3>1. crashed' = crashed /\ m_Handles[m].refcount # 1
      BY <2>2 DEF StillHeld
    <3>2. ASSUME NEW x \in Indices, Master(x)', ~m_Handles'[x].is_destroying, ~Doomed(x)'
          PROVE  Counts(x)'
      <4>1. Master(x) /\ x # i /\ ~m_Handles[x].is_destroying /\ ~Doomed(x)
        BY <1>5, <1>6, <3>2 DEF Changed
      <4>2. /\ Counts(x) /\ m_Handles[x].refcount \in Int
            /\ Cardinality(Clones(x)) \in Nat /\ Clones(x) \in SUBSET Indices
        BY <1>1, <4>1, MasterCounts
      <4>3. CASE x = m
        <5>1. Cardinality(Clones(x)') = Cardinality(Clones(x)) - 1
          BY <1>2, <1>6, <4>2, <4>3, CountDrop
        <5>2. m_Handles'[x].refcount = m_Handles[x].refcount - 1
              /\ m_Handles'[x].set = m_Handles[x].set
          BY <1>2, <4>3 DEF Changed
        <5>3. Own(x)' = Own(x) /\ Own(x) \in Int
          BY <1>5, <5>2 DEF Own
        <5> QED BY <3>1, <4>2, <4>3, <5>1, <5>2, <5>3 DEF Counts
      <4>4. CASE x # m
        <5>1. Clones(x) \cap {i} = {}
          BY <4>4 DEF Clones
        <5> QED BY <1>5, <4>1, <4>2, <4>4, <5>1, CountsKept
      <4> QED BY <4>3, <4>4
    <3> QED BY <3>1, <3>2 DEF Refs
  <2> QED BY <2>1, <2>2
<1>14. Gone'
  BY <1>2, <1>3, <1>5, GoneKept DEF Sound
<1>15. OwnerChains'
  BY <1>1, <1>2, ChainsReleased
<1> QED BY <1>4, <1>7, <1>8, <1>9, <1>10, <1>11, <1>12, <1>13, <1>14, <1>15 DEF Sound

LEMMA CloneFreedLast ==
    ASSUME Base, Sound, ~mangled', ~crashed, NEW i \in Indices, Clone(i),
           NEW m \in Indices, m = m_Handles[i].clone, ~BeyondUse(m), LastGone(m),
           Changed(m_Handles', m_Handles, {i}, {}, {m}, m), Unlinks(m_Handles', m_Handles, i),
           m_FreeHandles' = Append(m_FreeHandles, i),
           opened' = [opened EXCEPT ![m_Handles[i].type] = @ - 1],
           m_HandleTail' = m_HandleTail, types' = types, identity' = identity, given' = given
    PROVE  Sound'
<1>1. HandleTypeOK /\ Shape
  BY DEF Base
<1>2. /\ m # i /\ i \in Clones(m) /\ ~Master(i) /\ InUse(i) /\ m_Handles[i].set = "used"
      /\ ~m_Handles[i].is_destroying /\ m_Handles[i].clone # 0 /\ m_Handles[m].clone = 0
      /\ ~m_Handles[m].is_destroying /\ m_Handles[i].type \in Types /\ Master(m)
  BY <1>1, CloneIs, ReferredIs
<1>3. /\ stack' = Append(stack, Frame("free", m, NULL, "destroy")) /\ crashed' = crashed
      /\ destroyed' = [destroyed EXCEPT ![m_Handles[m].object] = @ + 1]
      /\ m_Handles[m].refcount = 1
  BY DEF LastGone
<1>4. /\ SameScan /\ Outermost'
      /\ stack' # <<>> /\ stack'[1].op = "identity" => stack # <<>> /\ stack'[1] = stack[1]
  BY <1>1, <1>3, PushScan DEF Sound
<1>5. \A j \in Indices : (Passed(j)' <=> Passed(j)) /\ (Doomed(j)' <=> Doomed(j))
  BY <1>1, <1>4, ScanSame
<1>6. /\ \A x : Clones(x)' = Clones(x) \ {i}
      /\ \A j \in Indices : /\ InUse(j)' <=> InUse(j) /\ j # i
                            /\ m_Handles'[j].type = m_Handles[j].type
                            /\ Master(j)' => Master(j) /\ j # i
  BY ClonesLeft
<1>7. Kinds' /\ Identities' /\ Remembered' /\ UnloadReleasesAll'
  BY <1>1, <1>2, <1>4, CommonKept
<1>8. Slots'
  BY <1>1, <1>2, <1>6, SlotsRelease DEF Sound
<1>9. Counted'
  <2>1. SameSweep
    BY <1>4 DEF SameScan, SameSweep
  <2> QED BY <1>1, <1>2, <1>6, <2>1, CountedRelease DEF Sound
<1>10. ~Doomed(m) /\ ~Passed(m)
  <2>1. Sweep => stack[1].type \notin types
    <3>1. Sweep => 1 \in DOMAIN stack
      BY <1>1, LenProperties, EmptySeq DEF Sweep, HandleTypeOK
    <3> QED BY <1>1, <3>1 DEF Sweep, Shape
  <2>2. m_Handles[m].type \in types
    BY DEF LastGone
  <2> QED BY <2>1, <2>2, ReferredIs DEF Passed
<1>11. Clones(m) = {i}
  <2>1. /\ Counts(m) /\ Cardinality(Clones(m)) \in Nat /\ Clones(m) \in SUBSET Indices
        /\ Cardinality(Clones(m)) = 0 <=> Clones(m) = {}
    BY <1>1, <1>2, <1>10, MasterCounts
  <2>2. Own(m) \in {0, 1}
    BY <1>10 DEF Own
  <2>3. Cardinality(Clones(m)) = 1
    BY <1>2, <1>3, <2>1, <2>2 DEF Counts
  <2> QED BY <1>2, <2>1, <2>3, CountOne
<1>12. ClonesFit'
  <2>1. SameSweep
    BY <1>4 DEF SameScan, SameSweep
  <2>2. ASSUME NEW j \in Indices, Clone(j), j \notin {i}
        PROVE  StillFits(j, {i}, {m})
    <3>1. j \in Clones(m_Handles[j].clone) /\ m_Handles[j].clone # i
      BY <1>1, <1>2, <2>2, CloneIs
    <3>2. m_Handles[j].clone # m
      BY <1>11, <2>2, <3>1
    <3>3. Sweep /\ m_Handles[j].type = stack[1].type => j >= stack'[1].i
      BY <1>1, <1>4, <2>2, CloneIs DEF SameScan
    <3> QED BY <3>1, <3>2, <3>3 DEF StillFits
  <2>3. PICK R, F, D : R = {i} /\ F = {} /\ D = {m}
    OBVIOUS
  <2>4. /\ ClonesFit /\ \A j \in Indices : j \in F \/ j \in D => m_Handles[j].clone = 0
        /\ \A j \in Indices : Clone(j) /\ j \notin R => StillFits(j, R, D)
        /\ Changed(m_Handles', m_Handles, R, F, D, m)
    BY <1>2, <2>2, <2>3 DEF Sound
  <2> QED BY <1>1, <2>1, <2>4, ClonesFitKept
<1>13. Framed'
  BY <1>1, <1>2, <1>3, FramedPush DEF Sound
<1>14. Held'
  <2>1. PICK R, F, D : R = {i} /\ F = {} /\ D = {m}
    OBVIOUS
  <2>2. /\ Changed(m_Handles', m_Handles, R, F, D, m)
        /\ Sweep /\ stack[1].at = "destroy" =>
             /\ stack[1].i \in Indices /\ stack[1].i \notin R
             /\ MasterOf(stack[1].i) \notin R /\ MasterOf(stack[1].i) \notin D
    BY <2>1, ReferredIs
  <2> QED BY <1>1, <1>4, <2>2, HeldKept DEF Sound
<1>15. Refs'
  <2>1. ASSUME NEW x \in Indices, Master(x)', ~m_Handles'[x].is_destroying, ~Doomed(x)'
        PROVE  Counts(x)'
    <3>1. Master(x) /\ x # i /\ x # m /\ ~m_Handles[x].is_destroying /\ ~Doomed(x)
      BY <1>5, <1>6, <2>1 DEF Changed
    <3>2. Counts(x)
      BY <1>1, <3>1, MasterCounts
    <3>3. Clones(x) \cap {i} = {}
      BY <3>1 DEF Clones
    <3> QED BY <1>5, <3>1, <3>2, <3>3, CountsKept
  <2> QED BY <1>3, <2>1 DEF Refs
<1>16. Gone'
  <2>0. PICK R, D : R = {i} /\ D = {m}
    OBVIOUS
  <2>1. /\ Gone /\ Remembered /\ (\A j \in D : j = m) /\ (m \in D \/ Doomed(m)')
        /\ \A j \in Indices : Master(j) => j \notin R
        /\ Changed(m_Handles', m_Handles, R, {}, D, m)
    BY <1>2, <2>0 DEF Sound
  <2>2. \A j \in Indices : Master(j) /\ j # m => (Doomed(j)' <=> Doomed(j))
    BY <1>5
  <2>3. /\ Master(m) /\ ~m_Handles[m].is_destroying /\ ~Doomed(m)
        /\ destroyed' = [destroyed EXCEPT ![m_Handles[m].object] = @ + 1]
    BY <1>2, <1>3, <1>10
  <2> QED BY <1>1, <2>1, <2>2, <2>3, GoneLast
<1>17. OwnerChains'
  BY <1>1, <1>2, ChainsReleased
<1> QED BY <1>4, <1>7, <1>8, <1>9, <1>12, <1>13, <1>14, <1>15, <1>16, <1>17 DEF Sound

LEMMA MasterMarked ==
    ASSUME Base, Sound, ~mangled', ~crashed, NEW i \in Indices, Master(i),
           m_Handles[i].set = "used", ~m_Handles[i].is_destroying, StillHeld(i),
           NEW id \in IdentityHandle(m_Handles[i].owner), Relinked(m_Handles', m_Handles, i, id),
           Changed(m_Handles', m_Handles, {}, {i}, {}, i),
           m_FreeHandles' = m_FreeHandles, opened' = opened,
           m_HandleTail' = m_HandleTail, types' = types, identity' = identity, given' = given
    PROVE  Sound'
<1>1. HandleTypeOK /\ Shape
  BY DEF Base
<1>2. m_Handles[i].clone = 0 /\ InUse(i)
  BY DEF Master, InUse
<1>3. stack' = stack /\ destroyed' = destroyed /\ crashed' = crashed /\ m_Handles[i].refcount # 1
  BY DEF StillHeld
<1>4. SameScan /\ Outermost'
  BY <1>3, SameStackScan DEF Sound
<1>5. \A j \in Indices : (Passed(j)' <=> Passed(j)) /\ (Doomed(j)' <=> Doomed(j))
  BY <1>1, <1>4, ScanSame
<1>6. PICK R, F, D : R = {} /\ F = {i} /\ D = {}
  OBVIOUS
<1>7. /\ Changed(m_Handles', m_Handles, R, F, D, i) /\ Changed(m_Handles', m_Handles, R, F, {}, i)
      /\ \A j \in Indices : j \in F => m_Handles[j].set = "used" /\ InUse(j)
      /\ \A j \in Indices : j \notin R /\ (j \in F <=> j = i) /\ j \notin D
  BY <1>2, <1>6
<1>8. /\ \A x : Clones(x)' = Clones(x)
      /\ \A j \in Indices : /\ InUse(j)' <=> InUse(j)
                            /\ m_Handles'[j].type = m_Handles[j].type
                            /\ Master(j)' => Master(j)
  <2>1. /\ \A x : Clones(x)' = Clones(x) \ R
        /\ \A j \in Indices : /\ InUse(j)' <=> InUse(j) /\ j \notin R
                              /\ m_Handles'[j].type = m_Handles[j].type
                              /\ Master(j)' => Master(j) /\ j \notin R
    BY <1>7, ClonesLeft
  <2> QED BY <1>6, <2>1
<1>9. Kinds' /\ Identities' /\ Remembered' /\ UnloadReleasesAll'
  BY <1>1, <1>3, <1>7, CommonKept
<1>10. Slots'
  BY <1>1, <1>8, SlotsSame DEF Sound
<1>11. SameSweep /\ (Sweep' <=> Sweep)
  BY <1>4 DEF SameScan, SameSweep
<1>12. Counted'
  BY <1>8, <1>11, CountedSame DEF Sound
<1>13. ClonesFit'
  <2>1. ASSUME NEW j \in Indices, Clone(j), j \notin R PROVE StillFits(j, R, D)
    BY <1>1, <1>4, <1>6, <2>1, CloneIs DEF StillFits, SameScan
  <2>2. /\ ClonesFit /\ \A j \in Indices : j \in F \/ j \in D => m_Handles[j].clone = 0
    BY <1>2, <1>7 DEF Sound
  <2> QED BY <1>1, <1>7, <1>11, <2>1, <2>2, ClonesFitKept
<1>14. Framed'
  BY <1>1, <1>3, <1>7, FramedSame DEF Sound
<1>15. Held'
  BY <1>1, <1>4, <1>7, HeldIs, HeldKept DEF Sound
<1>16. Refs'
  <2>1. ASSUME NEW x \in Indices, Master(x)', ~m_Handles'[x].is_destroying, ~Doomed(x)'
        PROVE  Counts(x)'
    <3>1. Master(x) /\ ~m_Handles[x].is_destroying /\ ~Doomed(x)
      BY <1>5, <1>7, <1>8, <2>1 DEF Changed
    <3>2. /\ Counts(x) /\ m_Handles[x].refcount \in Int /\ Cardinality(Clones(x)) \in Nat
      BY <1>1, <3>1, MasterCounts
    <3>3. CASE x = i
      <4>1. m_Handles'[x].refcount = m_Handles[x].refcount - 1 /\ m_Handles'[x].set = "freed"
        BY <3>3 DEF Changed
      <4>2. Own(x)' = Own(x) - 1 /\ Own(x) \in Int
        BY <1>5, <3>3, <4>1 DEF Own
      <4> QED BY <1>3, <1>8, <3>2, <3>3, <4>1, <4>2 DEF Counts
    <3>4. CASE x # i
      <4>1. Clones(x) \cap R = {} /\ x \notin R /\ x \notin F
        BY <1>6, <3>4
      <4> QED BY <1>5, <1>7, <3>2, <3>4, <4>1, CountsKept
    <3> QED BY <3>3, <3>4
  <2> QED BY <1>3, <2>1 DEF Refs
<1>17. Gone'
  BY <1>3, <1>5, <1>7, GoneKept DEF Sound
<1>18. OwnerChains'
  <2>1. Unlinks(m_Handles', m_Handles, i) /\ \A j \in Indices : j \in R \/ j \in F <=> j = i
    BY <1>7 DEF Unlinks
  <2> QED BY <1>1, <1>7, <2>1, ChainsReleased
<1> QED BY <1>4, <1>9, <1>10, <1>12, <1>13, <1>14, <1>15, <1>16, <1>17, <1>18 DEF Sound

LEMMA MasterLast ==
    ASSUME Base, Sound, ~mangled', ~crashed, NEW i \in Indices, Master(i),
           m_Handles[i].set = "used", ~m_Handles[i].is_destroying, LastGone(i),
           SameLinks(m_Handles', m_Handles), Changed(m_Handles', m_Handles, {}, {}, {i}, i),
           m_FreeHandles' = m_FreeHandles, opened' = opened,
           m_HandleTail' = m_HandleTail, types' = types, identity' = identity, given' = given
    PROVE  Sound'
<1>1. HandleTypeOK /\ Shape
  BY DEF Base
<1>2. m_Handles[i].clone = 0 /\ InUse(i) /\ m_Handles[i].set # "identity"
  BY DEF Master, InUse
<1>3. /\ stack' = Append(stack, Frame("free", i, NULL, "destroy")) /\ crashed' = crashed
      /\ destroyed' = [destroyed EXCEPT ![m_Handles[i].object] = @ + 1]
      /\ m_Handles[i].refcount = 1 /\ m_Handles[i].type \in types
  BY DEF LastGone
<1>4. /\ SameScan /\ Outermost'
      /\ stack' # <<>> /\ stack'[1].op = "identity" => stack # <<>> /\ stack'[1] = stack[1]
  BY <1>1, <1>3, PushScan DEF Sound
<1>5. \A j \in Indices : (Passed(j)' <=> Passed(j)) /\ (Doomed(j)' <=> Doomed(j))
  BY <1>1, <1>4, ScanSame
<1>6. PICK R, F, D : R = {} /\ F = {} /\ D = {i}
  OBVIOUS
<1>7. /\ Changed(m_Handles', m_Handles, R, F, D, i) /\ Changed(m_Handles', m_Handles, R, {}, D, i)
      /\ Changed(m_Handles', m_Handles, R, {}, {i}, i)
      /\ \A j \in Indices : j \notin R /\ j \notin F /\ (j \in D <=> j = i)
  BY <1>6
<1>8. /\ \A x : Clones(x)' = Clones(x)
      /\ \A j \in Indices : /\ InUse(j)' <=> InUse(j)
                            /\ m_Handles'[j].type = m_Handles[j].type
                            /\ Master(j)' => Master(j)
  <2>1. /\ \A x : Clones(x)' = Clones(x) \ R
        /\ \A j \in Indices : /\ InUse(j)' <=> InUse(j) /\ j \notin R
                              /\ m_Handles'[j].type = m_Handles[j].type
                              /\ Master(j)' => Master(j) /\ j \notin R
    BY <1>7, ClonesLeft
  <2> QED BY <1>6, <2>1
<1>9. Kinds' /\ Identities' /\ Remembered' /\ UnloadReleasesAll'
  BY <1>1, <1>4, <1>7, CommonKept
<1>10. Slots'
  BY <1>1, <1>8, SlotsSame DEF Sound
<1>11. SameSweep /\ (Sweep' <=> Sweep)
  BY <1>4 DEF SameScan, SameSweep
<1>12. Counted'
  BY <1>8, <1>11, CountedSame DEF Sound
<1>13. ~Doomed(i) /\ ~Passed(i)
  <2>1. ASSUME Doomed(i) PROVE FALSE
    <3>1. m_Handles[i].refcount <= 0
      BY <1>1, <2>1, HeldIs DEF Doomed, HeldBy
    <3> QED BY <1>3, <3>1
  <2>2. ASSUME Passed(i) PROVE FALSE
    <3>1. 1 \in DOMAIN stack
      BY <1>1, <2>2, LenProperties, EmptySeq DEF Passed, Sweep, HandleTypeOK
    <3>2. stack[1].type \notin types
      BY <1>1, <2>2, <3>1 DEF Passed, Sweep, Shape
    <3> QED BY <1>3, <2>2, <3>2 DEF Passed
  <2> QED BY <2>1, <2>2
<1>14. Clones(i) = {}
  <2>1. /\ Counts(i) /\ Cardinality(Clones(i)) \in Nat
        /\ Cardinality(Clones(i)) = 0 <=> Clones(i) = {}
    BY <1>1, <1>13, MasterCounts
  <2>2. Own(i) = 1
    BY <1>13 DEF Own
  <2>3. Cardinality(Clones(i)) = 0
    BY <1>3, <2>1, <2>2 DEF Counts
  <2> QED BY <2>1, <2>3
<1>15. ClonesFit'
  <2>1. ASSUME NEW j \in Indices, Clone(j), j \notin R PROVE StillFits(j, R, D)
    <3>1. j \in Clones(m_Handles[j].clone)
      BY <1>1, <2>1, CloneIs
    <3>2. m_Handles[j].clone # i
      BY <1>14, <3>1
    <3> QED BY <1>1, <1>4, <1>6, <2>1, <3>2, CloneIs DEF StillFits, SameScan
  <2>2. /\ ClonesFit /\ \A j \in Indices : j \in F \/ j \in D => m_Handles[j].clone = 0
    BY <1>2, <1>7 DEF Sound
  <2> QED BY <1>1, <1>7, <1>11, <2>1, <2>2, ClonesFitKept
<1>16. Framed'
  <2>1. Framed /\ i \notin R /\ \A j \in Indices : j \in R => ~m_Handles[j].is_destroying
    BY <1>7 DEF Sound
  <2> QED BY <1>1, <1>3, <1>7, <2>1, FramedPush
<1>17. Held'
  <2>1. Sweep /\ stack[1].at = "destroy" =>
           /\ stack[1].i \in Indices /\ stack[1].i \notin R
           /\ MasterOf(stack[1].i) \notin R /\ MasterOf(stack[1].i) \notin D
    BY <1>1, <1>7, <1>13, HeldIs
  <2> QED BY <1>1, <1>4, <1>7, <2>1, HeldKept DEF Sound
<1>18. Refs'
  <2>1. ASSUME NEW x \in Indices, Master(x)', ~m_Handles'[x].is_destroying, ~Doomed(x)'
        PROVE  Counts(x)'
    <3>1. Master(x) /\ x # i /\ ~m_Handles[x].is_destroying /\ ~Doomed(x)
      BY <1>5, <1>7, <1>8, <2>1 DEF Changed
    <3>2. Counts(x)
      BY <1>1, <3>1, MasterCounts
    <3>3. Clones(x) \cap R = {} /\ x \notin R /\ x \notin F
      BY <1>6
    <3>4. \A j \in Indices : j \in F => m_Handles[j].set = "used"
      BY <1>7
    <3> QED BY <1>5, <1>7, <3>1, <3>2, <3>3, <3>4, CountsKept
  <2> QED BY <1>3, <2>1 DEF Refs
<1>19. Gone'
  <2>1. /\ Gone /\ Remembered /\ (\A j \in D : j = i) /\ (i \in D \/ Doomed(i)')
        /\ \A j \in Indices : Master(j) => j \notin R
        /\ \A j \in Indices : Master(j) /\ j # i => (Doomed(j)' <=> Doomed(j))
    BY <1>5, <1>6 DEF Sound
  <2> QED BY <1>1, <1>3, <1>7, <1>13, <2>1, GoneLast
<1>20. OwnerChains'
  <2>1. \A j \in Indices : j \in R => m_Handles[j].set # "used"
    BY <1>7
  <2> QED BY <1>1, <1>7, <2>1, ChainsUntouched
<1> QED BY <1>4, <1>9, <1>10, <1>12, <1>15, <1>16, <1>17, <1>18, <1>19, <1>20 DEF Sound

LEMMA MasterCrashes ==
    ASSUME Base, Sound, ~mangled', ~crashed, NEW i \in Indices, Master(i), Crashes(i),
           SameLinks(m_Handles', m_Handles), Changed(m_Handles', m_Handles, {}, {}, {}, i),
           m_FreeHandles' = m_FreeHandles, opened' = opened,
           m_HandleTail' = m_HandleTail, types' = types, identity' = identity, given' = given
    PROVE  Sound'
<1>1. HandleTypeOK /\ Shape
  BY DEF Base
<1>2. m_Handles[i].clone = 0 /\ InUse(i) /\ m_Handles[i].set # "identity"
  BY DEF Master, InUse
<1>3. /\ stack' = stack /\ crashed' = TRUE /\ destroyed' = destroyed
      /\ m_Handles[i].type \notin types
  BY DEF Crashes
<1>4. SameScan /\ Outermost'
  BY <1>3, SameStackScan DEF Sound
<1>5. \A j \in Indices : (Passed(j)' <=> Passed(j)) /\ (Doomed(j)' <=> Doomed(j))
  BY <1>1, <1>4, ScanSame
<1>6. PICK R : R = {}
  OBVIOUS
<1>7. /\ Changed(m_Handles', m_Handles, R, R, R, i) /\ Changed(m_Handles', m_Handles, R, R, {}, i)
      /\ Changed(m_Handles', m_Handles, R, {}, R, i)
      /\ \A j \in Indices : j \notin R
  BY <1>6
<1>8. \A j \in Indices : /\ InUse(j)' <=> InUse(j)
                         /\ m_Handles'[j].type = m_Handles[j].type
  <2>1. \A j \in Indices : /\ InUse(j)' <=> InUse(j) /\ j \notin R
                           /\ m_Handles'[j].type = m_Handles[j].type
    BY <1>7, ClonesLeft
  <2> QED BY <1>6, <2>1
<1>9. Kinds' /\ Identities' /\ Remembered' /\ UnloadReleasesAll'
  BY <1>1, <1>3, <1>7, CommonKept
<1>10. Slots'
  BY <1>1, <1>8, SlotsSame DEF Sound
<1>11. SameSweep /\ (Sweep' <=> Sweep)
  BY <1>4 DEF SameScan, SameSweep
<1>12. Counted'
  BY <1>8, <1>11, CountedSame DEF Sound
<1>13. ClonesFit'
  <2>1. ASSUME NEW j \in Indices, Clone(j), j \notin R PROVE StillFits(j, R, R)
    BY <1>1, <1>4, <1>6, <2>1, CloneIs DEF StillFits, SameScan
  <2>2. /\ ClonesFit /\ \A j \in Indices : j \in R \/ j \in R => m_Handles[j].clone = 0
    BY <1>2, <1>7 DEF Sound
  <2> QED BY <1>1, <1>7, <1>11, <2>1, <2>2, ClonesFitKept
<1>14. Framed'
  BY <1>1, <1>3, <1>7, FramedSame DEF Sound
<1>15. Held'
  BY <1>1, <1>4, <1>7, HeldIs, HeldKept DEF Sound
<1>16. Refs'
  <2>1. Sweep
    BY <1>1, <1>2, <1>3, UsedIs
  <2> QED BY <1>3, <1>11, <2>1 DEF Refs
<1>17. Gone'
  BY <1>3, <1>5, <1>7, GoneKept DEF Sound
<1>18. OwnerChains'
  BY <1>1, <1>7, ChainsUntouched
<1> QED BY <1>4, <1>9, <1>10, <1>12, <1>13, <1>14, <1>15, <1>16, <1>17, <1>18 DEF Sound

(* A handle is freed by its owner, an OnHandleDestroy() or its identity's end. *)
LEMMA FreedKept ==
    ASSUME Base, Sound, ~mangled', ~crashed, NEW i \in Indices, m_Handles[i].set = "used",
           ~m_Handles[i].is_destroying, FreeAt(i),
           m_HandleTail' = m_HandleTail, types' = types, identity' = identity, given' = given
    PROVE  Sound'
<1>1. HandleTypeOK /\ Shape
  BY DEF Base
<1>2. CASE FreeClone(i)
  <2>1. CloneGone(i)
    BY <1>1, <1>2, FreeCloneIs
  <2>2. PICK m : m = m_Handles[i].clone
    OBVIOUS
  <2>3. /\ m \in Indices /\ Unlinks(m_Handles', m_Handles, i)
        /\ \/ StillHeld(m) /\ Changed(m_Handles', m_Handles, {i}, {}, {}, m)
           \/ LastGone(m) /\ Changed(m_Handles', m_Handles, {i}, {}, {m}, m)
           \/ Crashes(m) /\ Changed(m_Handles', m_Handles, {i}, {}, {}, m)
        /\ m_FreeHandles' = Append(m_FreeHandles, i)
        /\ opened' = [opened EXCEPT ![m_Handles[i].type] = @ - 1]
        /\ ~BeyondUse(m)
    BY <2>1, <2>2 DEF CloneGone
  <2>4. Clone(i)
    BY <2>2, <2>3, NotZero DEF Clone
  <2>5. CASE StillHeld(m) \/ Crashes(m)
    <3>1. Changed(m_Handles', m_Handles, {i}, {}, {}, m)
      BY <2>3, <2>5 DEF StillHeld, Crashes, LastGone
    <3> QED BY <2>2, <2>3, <2>4, <2>5, <3>1, CloneFreedQuietly
  <2>6. CASE LastGone(m) /\ Changed(m_Handles', m_Handles, {i}, {}, {m}, m)
    BY <2>2, <2>3, <2>4, <2>6, CloneFreedLast
  <2> QED BY <2>3, <2>5, <2>6
<1>3. CASE FreeMaster(i)
  <2>1. MasterGone(i)
    BY <1>1, <1>3, FreeMasterIs
  <2>2. Master(i)
    BY <2>1 DEF MasterGone, Master
  <2>3. m_FreeHandles' = m_FreeHandles /\ opened' = opened
    BY <2>1 DEF MasterGone
  <2>4. CASE /\ StillHeld(i) /\ Changed(m_Handles', m_Handles, {}, {i}, {}, i)
             /\ \E id \in IdentityHandle(m_Handles[i].owner) : Relinked(m_Handles', m_Handles, i, id)
    BY <2>2, <2>3, <2>4, MasterMarked
  <2>5. CASE /\ LastGone(i) /\ Changed(m_Handles', m_Handles, {}, {}, {i}, i)
             /\ SameLinks(m_Handles', m_Handles)
    BY <2>2, <2>3, <2>5, MasterLast
  <2>6. CASE /\ Crashes(i) /\ Changed(m_Handles', m_Handles, {}, {}, {}, i)
             /\ SameLinks(m_Handles', m_Handles)
    BY <2>2, <2>3, <2>6, MasterCrashes
  <2> QED BY <2>1, <2>4, <2>5, <2>6 DEF MasterGone
<1>4. ~FreeIdentity(i)
  BY DEF FreeIdentity
<1> QED BY <1>2, <1>3, <1>4 DEF FreeAt

LEMMA FreeHandleKept ==
    ASSUME Base, Sound, ~mangled', NEW i \in Indices, FreeHandle(i)
    PROVE  Sound'
<1>1. /\ ~crashed /\ m_Handles[i].set = "used" /\ ~m_Handles[i].is_destroying /\ FreeAt(i)
      /\ m_HandleTail' = m_HandleTail /\ types' = types /\ identity' = identity /\ given' = given
  BY DEF FreeHandle, Idle, InDestroy
<1> QED BY <1>1, FreedKept

(* Where an identity's release has come to. *)
LEMMA ReleasingIs ==
    ASSUME Base, Sound, At("identity", "look")
    PROVE  /\ Len(stack) = 1 /\ stack # <<>> /\ DOMAIN stack = 1..1 /\ Top = stack[1]
           /\ ~Sweep /\ ~crashed /\ stack[1].op = "identity" /\ Top.i \in Indices
           /\ \E t \in Live : identity[t] = Top.i
           /\ \A j \in Indices : InUse(j) => ~m_Handles[j].is_destroying
<1>1. HandleTypeOK /\ Shape /\ stack # <<>> /\ Top.op = "identity" /\ ~crashed
  BY DEF Base, At
<1>2. /\ Len(stack) \in Nat \ {0} /\ DOMAIN stack = 1..Len(stack) /\ Len(stack) \in DOMAIN stack
      /\ Top = stack[Len(stack)] /\ Top.i \in Indices
  BY <1>1, TopTyped
<1>3. Len(stack) = 1
  BY <1>1, <1>2 DEF Sound, Outermost
<1>4. stack[1].op = "identity" /\ DOMAIN stack = 1..1 /\ Top = stack[1]
  BY <1>1, <1>2, <1>3
<1>5. \E t \in Live : identity[t] = Top.i
  BY <1>1, <1>4 DEF Sound, Identities
<1>6. \A j \in Indices : InUse(j) => ~m_Handles[j].is_destroying
  BY <1>4 DEF Sound, Framed
<1> QED BY <1>1, <1>2, <1>3, <1>4, <1>5, <1>6 DEF Sweep

LEMMA FreeOwnedKept ==
    ASSUME Base, Sound, ~mangled', FreeOwned
    PROVE  Sound'
<1>1. /\ ~Sweep /\ ~crashed /\ Top.i \in Indices /\ \E t \in Live : identity[t] = Top.i
      /\ \A j \in Indices : InUse(j) => ~m_Handles[j].is_destroying
  BY ReleasingIs DEF FreeOwned
<1>2. PICK i : i = m_Handles[Top.i].ch_next
  OBVIOUS
<1>3. /\ i # 0 /\ FreeAt(i)
      /\ m_HandleTail' = m_HandleTail /\ types' = types /\ identity' = identity /\ given' = given
  BY <1>2 DEF FreeOwned
<1>4. PICK t \in Live : identity[t] = Top.i
  BY <1>1
<1>5. i \in Owned(t)
  BY <1>2, <1>3, <1>4 DEF Sound, OwnerChains
<1>6. i \in Indices /\ m_Handles[i].set = "used"
  BY <1>5 DEF Owned
<1>7. ~m_Handles[i].is_destroying
  BY <1>1, <1>6 DEF InUse
<1> QED BY <1>1, <1>3, <1>6, <1>7, FreedKept

LEMMA DestroyReturnsKept ==
    ASSUME Base, Sound, ~mangled', DestroyReturns
    PROVE  Sound'
<1>1. /\ HandleTypeOK /\ Shape /\ stack # <<>> /\ Top.op = "free" /\ stack' = Popped /\ ~crashed
      /\ m_HandleTail' = m_HandleTail /\ types' = types /\ identity' = identity /\ given' = given
      /\ destroyed' = destroyed /\ crashed' = crashed
  BY DEF Base, DestroyReturns, At
<1>2. PICK i \in Indices : i = Top.i
  BY <1>1, TopTyped
<1>3. /\ Changed(m_Handles', m_Handles, {i}, {}, {}, 0) /\ Unlinks(m_Handles', m_Handles, i)
      /\ m_FreeHandles' = Append(m_FreeHandles, i)
      /\ opened' = [opened EXCEPT ![m_Handles[i].type] = @ - 1]
  BY <1>1, <1>2, DestroyReturnsIs DEF OneReleased
<1>4. Master(i) /\ m_Handles[i].is_destroying
  <2>1. Len(stack) \in DOMAIN stack /\ Top = stack[Len(stack)]
    BY <1>1, TopTyped
  <2> QED BY <1>1, <1>2, <2>1 DEF Sound, Framed
<1>5. /\ m_Handles[i].clone = 0 /\ InUse(i) /\ m_Handles[i].set \in {"used", "freed"}
      /\ m_Handles[i].set # "identity"
  BY <1>4 DEF Master, InUse
<1>6. m_Handles[i].type \in Types
  BY <1>1, <1>5, UsedIs
<1>7. SameScan /\ Outermost' /\ (stack' # <<>> => stack'[1] = stack[1])
  BY <1>1, PopScan DEF Sound
<1>8. \A j \in Indices : (Passed(j)' <=> Passed(j)) /\ (Doomed(j)' <=> Doomed(j))
  BY <1>1, <1>3, <1>7, ScanSame
<1>9. PICK R, F, D : R = {i} /\ F = {} /\ D = {}
  OBVIOUS
<1>10. /\ Changed(m_Handles', m_Handles, R, F, D, 0) /\ Changed(m_Handles', m_Handles, R, F, {}, 0)
       /\ \A j \in Indices : (j \in R <=> j = i) /\ j \notin F /\ j \notin D
       /\ \A j \in Indices : j \in F => m_Handles[j].set = "used"
  BY <1>3, <1>9
<1>11. \A j \in Indices : /\ InUse(j)' <=> InUse(j) /\ j # i
                          /\ m_Handles'[j].type = m_Handles[j].type
                          /\ Master(j)' => Master(j) /\ j # i
  <2>1. \A j \in Indices : /\ InUse(j)' <=> InUse(j) /\ j \notin R
                           /\ m_Handles'[j].type = m_Handles[j].type
                           /\ Master(j)' => Master(j) /\ j \notin R
    BY <1>10, ClonesLeft
  <2> QED BY <1>9, <2>1
<1>12. Kinds' /\ Identities' /\ Remembered' /\ UnloadReleasesAll'
  <2>1. \A j \in Indices : j \in R => m_Handles[j].set # "identity"
    BY <1>5, <1>10
  <2>2. stack' # <<>> /\ stack'[1].op = "identity" => stack # <<>> /\ stack'[1] = stack[1]
    BY <1>1, <1>7
  <2> QED BY <1>1, <1>10, <2>1, <2>2, CommonKept
<1>13. Slots'
  BY <1>1, <1>3, <1>5, <1>11, SlotsRelease DEF Sound
<1>14. SameSweep
  BY <1>7 DEF SameScan, SameSweep
<1>15. Counted'
  BY <1>1, <1>3, <1>5, <1>6, <1>11, <1>14, CountedRelease DEF Sound
<1>16. ClonesFit'
  <2>1. ASSUME NEW j \in Indices, Clone(j), j \notin R PROVE StillFits(j, R, D)
    <3>1. m_Handles[j].clone # i
      BY <1>1, <1>4, <2>1, CloneIs
    <3> QED BY <1>1, <1>7, <1>9, <2>1, <3>1, CloneIs DEF StillFits, SameScan
  <2>2. /\ ClonesFit /\ \A j \in Indices : j \in F \/ j \in D => m_Handles[j].clone = 0
    BY <1>10 DEF Sound
  <2> QED BY <1>1, <1>10, <1>14, <2>1, <2>2, ClonesFitKept
<1>17. Framed'
  BY <1>1, <1>2, <1>3, FramedPop DEF Sound
<1>18. Held'
  <2>1. ASSUME Sweep, stack[1].at = "destroy"
        PROVE  /\ stack[1].i \in Indices /\ stack[1].i \notin R
               /\ MasterOf(stack[1].i) \notin R /\ MasterOf(stack[1].i) \notin D
    <3>1. PICK k, m : k = stack[1].i /\ m = MasterOf(k)
      OBVIOUS
    <3>2. k \in Indices /\ m \in Indices /\ HeldBy(k, m)
      BY <1>1, <2>1, <3>1, HeldIs
    <3>3. m # i
      BY <1>4, <3>2 DEF HeldBy
    <3>4. k # i
      BY <1>5, <3>1, <3>3 DEF MasterOf
    <3> QED BY <1>10, <3>1, <3>2, <3>3, <3>4
  <2> QED BY <1>1, <1>7, <1>10, <2>1, HeldKept DEF Sound
<1>19. Refs'
  <2>1. ASSUME NEW x \in Indices, Master(x)', ~m_Handles'[x].is_destroying, ~Doomed(x)'
        PROVE  Counts(x)'
    <3>1. Master(x) /\ x # i /\ ~m_Handles[x].is_destroying /\ ~Doomed(x)
      BY <1>3, <1>8, <1>11, <2>1 DEF Changed
    <3>2. Counts(x)
      BY <1>1, <3>1, MasterCounts
    <3>3. Clones(x) \cap R = {} /\ x \notin R /\ x \notin F /\ x # 0
      BY <1>5, <1>9, <3>1, NotZero DEF Clones
    <3> QED BY <1>8, <1>10, <3>2, <3>3, CountsKept
  <2> QED BY <1>1, <2>1 DEF Refs
<1>20. Gone'
  <2>1. /\ Gone
        /\ \A j \in Indices : Master(j) /\ j \notin R => (Doomed(j)' <=> Doomed(j))
        /\ \A j \in Indices : Master(j) /\ j \in R => m_Handles[j].is_destroying \/ Doomed(j)
    BY <1>4, <1>8, <1>10 DEF Sound
  <2> QED BY <1>1, <1>10, <2>1, GoneKept
<1>21. OwnerChains'
  <2>1. \A j \in Indices : j \in R \/ j \in F <=> j = i
    BY <1>10
  <2> QED BY <1>1, <1>3, <1>5, <1>10, <2>1, ChainsReleased
<1> QED BY <1>7, <1>12, <1>13, <1>15, <1>16, <1>17, <1>18, <1>19, <1>20, <1>21 DEF Sound

-----------------------------------------------------------------------------
(***************************************************************************)
(* The end of an identity.                                                 *)
(***************************************************************************)
(* The identity owns nothing more: its chain would have a tail. *)
LEMMA IdentityReleasedKept ==
    ASSUME Base, Sound, ~mangled', IdentityReleased
    PROVE  Sound'
<1>1. /\ HandleTypeOK /\ Shape /\ stack # <<>> /\ stack' = Popped
      /\ m_HandleTail' = m_HandleTail /\ types' = types /\ opened' = opened /\ given' = given
      /\ destroyed' = destroyed /\ crashed' = crashed
  BY DEF Base, IdentityReleased, At
<1>2. /\ Len(stack) = 1 /\ DOMAIN stack = 1..1 /\ Top = stack[1]
      /\ ~Sweep /\ ~crashed /\ stack[1].op = "identity" /\ Top.i \in Indices
      /\ \E t \in Live : identity[t] = Top.i
      /\ \A j \in Indices : InUse(j) => ~m_Handles[j].is_destroying
  BY ReleasingIs DEF IdentityReleased
<1>3. PICK i \in Indices : i = Top.i
  BY <1>2
<1>4. PICK t \in Live : identity[t] = i
  BY <1>2, <1>3
<1>5. /\ m_Handles' = [m_Handles EXCEPT ![i].set = "none"]
      /\ m_FreeHandles' = Append(m_FreeHandles, i) /\ m_Handles[i].ch_next = 0
      /\ identity' = [s \in Tokens |-> IF identity[s] = i THEN -1 ELSE identity[s]]
  BY <1>3 DEF IdentityReleased
<1>6. Changed(m_Handles', m_Handles, {i}, {}, {}, 0) /\ SameLinks(m_Handles', m_Handles)
  BY <1>1, <1>5, ClearedChanges DEF HandleTypeOK, Vectors
<1>7. m_Handles[i].set = "identity" /\ InUse(i)
  BY <1>4 DEF Sound, Identities, InUse
<1>8. m_Handles[i].clone = 0 /\ m_Handles[i].type = NULL
  BY <1>7 DEF Sound, Kinds
<1>9. stack' = <<>>
  <2>1. stack \in Seq(Frames) /\ stack' = SubSeq(stack, 1, Len(stack) - 1)
    BY <1>1 DEF HandleTypeOK, Popped
  <2>2. stack' \in Seq(Frames) /\ Len(stack') = 0
    BY <1>1, <1>2, <2>1, PoppedIs
  <2> QED BY <2>2, EmptySeq
<1>10. ~Sweep' /\ Outermost' /\ SameScan
  BY <1>2, <1>9 DEF Sweep, Outermost, SameScan
<1>11. PICK R, F, D : R = {i} /\ F = {} /\ D = {}
  OBVIOUS
<1>12. /\ Changed(m_Handles', m_Handles, R, F, D, 0) /\ Changed(m_Handles', m_Handles, R, F, {}, 0)
       /\ \A j \in Indices : (j \in R <=> j = i) /\ j \notin F /\ j \notin D
       /\ \A j \in Indices : j \in F => m_Handles[j].set = "used" /\ InUse(j)
  BY <1>6, <1>11
<1>13. \A j \in Indices : /\ InUse(j)' <=> InUse(j) /\ j # i
                          /\ m_Handles'[j].type = m_Handles[j].type
                          /\ Master(j)' => Master(j) /\ j # i
  <2>1. \A j \in Indices : /\ InUse(j)' <=> InUse(j) /\ j \notin R
                           /\ m_Handles'[j].type = m_Handles[j].type
                           /\ Master(j)' => Master(j) /\ j \notin R
    BY <1>12, ClonesLeft
  <2> QED BY <1>11, <2>1
<1>14. Live' = Live \ {t} /\ \A s \in Live' : identity'[s] = identity[s] /\ identity[s] # i
  <2>1. \A s \in Live : s # t => identity[s] # i
    BY <1>4 DEF Sound, Identities
  <2>2. \A s \in Tokens : identity'[s] = IF identity[s] = i THEN -1 ELSE identity[s]
    BY <1>5
  <2>3. i > 0 /\ t \in Tokens /\ \A s \in Tokens : identity[s] \in Int
    BY <1>1 DEF Live, Indices, HandleTypeOK
  <2> QED BY <1>4, <2>1, <2>2, <2>3 DEF Live
<1>15. Owned(t) = {}
  <2>1. m_Handles[identity[t]].ch_next = 0 /\ 0 \notin Owned(t)
    BY <1>4, <1>5 DEF Owned, Indices
  <2> QED BY <2>1 DEF Sound, OwnerChains
<1>16. Kinds' /\ Remembered'
  BY <1>1, <1>12, KindsKept, RememberedKept DEF Sound
<1>17. Identities'
  <2>1. \A s \in Live' : m_Handles'[identity'[s]].set = "identity"
    <3>1. \A j \in Indices : j # i => m_Handles'[j].set = m_Handles[j].set
      BY <1>6 DEF Changed
    <3>2. \A s \in Live' : s \in Live /\ identity[s] \in Indices /\ identity[s] # i
      BY <1>1, <1>14, OwnHandlesIs DEF OwnHandles, Sound
    <3> QED BY <1>14, <3>1, <3>2 DEF Sound, Identities
  <2>2. \A r, s \in Live' : identity'[r] = identity'[s] => r = s
    BY <1>14 DEF Sound, Identities
  <2> QED BY <1>9, <2>1, <2>2 DEF Identities
<1>18. UnloadReleasesAll'
  <2>1. ASSUME NEW j \in Indices, m_Handles'[j].set = "used"
        PROVE  m_Handles'[j].owner \in Live' \cup {NULL}
    <3>1. m_Handles[j].set = "used" /\ m_Handles'[j].owner = m_Handles[j].owner
      BY <1>6, <2>1 DEF Changed
    <3>2. m_Handles[j].owner # t
      BY <1>15, <3>1 DEF Owned
    <3> QED BY <1>14, <3>1, <3>2 DEF Sound, UnloadReleasesAll
  <2> QED BY <2>1 DEF UnloadReleasesAll
<1>19. Slots'
  BY <1>1, <1>5, <1>7, <1>13, SlotsRelease DEF Sound
<1>20. Counted'
  <2>1. \A type \in Types : OfOneType(type)' = OfOneType(type)
    BY <1>8, <1>13, HandleConstants DEF OfOneType
  <2>2. \A type : ~Sweeps(type) /\ ~Sweeps(type)'
    BY <1>2, <1>10 DEF Sweeps
  <2> QED BY <1>1, <2>1, <2>2 DEF Counted, Sound
<1>21. ClonesFit'
  <2>1. ASSUME NEW j \in Indices, Clone(j), j \notin R PROVE StillFits(j, R, D)
    <3>1. m_Handles[j].clone # i
      BY <1>1, <1>8, <2>1, CloneIs, HandleConstants
    <3> QED BY <1>2, <1>11, <3>1 DEF StillFits
  <2>2. /\ ClonesFit /\ \A j \in Indices : j \in F \/ j \in D => m_Handles[j].clone = 0
        /\ SameSweep
    BY <1>2, <1>10, <1>12 DEF Sound, SameSweep
  <2> QED BY <1>1, <1>12, <2>1, <2>2, ClonesFitKept
<1>22. Framed'
  <2>1. Framed /\ (\A k \in DOMAIN stack : stack[k].op # "free")
    BY <1>2 DEF Sound
  <2>2. \A k \in DOMAIN stack' : stack'[k].op # "free"
    BY <1>9
  <2> QED BY <1>12, <2>1, <2>2, FramedNone
<1>23. Held'
  BY <1>10 DEF Held
<1>24. Refs'
  <2>1. ASSUME NEW x \in Indices, Master(x)', ~m_Handles'[x].is_destroying, ~Doomed(x)'
        PROVE  Counts(x)'
    <3>1. Master(x) /\ x # i /\ ~m_Handles[x].is_destroying /\ ~Doomed(x)
      BY <1>2, <1>6, <1>13, <2>1 DEF Changed, Doomed
    <3>2. Counts(x) /\ ~Passed(x) /\ ~Passed(x)'
      BY <1>1, <1>2, <1>10, <3>1, MasterCounts DEF Passed
    <3>3. Clones(x) \cap R = {} /\ x \notin R /\ x \notin F /\ x # 0
      BY <1>8, <1>11, <3>1, NotZero DEF Clones
    <3> QED BY <1>12, <3>2, <3>3, CountsKept
  <2> QED BY <1>1, <1>2, <2>1 DEF Refs
<1>25. Gone'
  <2>1. /\ Gone
        /\ \A j \in Indices : Master(j) /\ j \notin R => (Doomed(j)' <=> Doomed(j))
        /\ \A j \in Indices : Master(j) /\ j \in R => m_Handles[j].is_destroying \/ Doomed(j)
    BY <1>2, <1>7, <1>10, <1>12 DEF Sound, Doomed, Master
  <2> QED BY <1>1, <1>12, <2>1, GoneKept
<1>26. OwnerChains'
  <2>1. PICK h, g, ord : h = m_Handles /\ g = m_Handles' /\ ord = Made
    OBVIOUS
  <2>2. ChainsIn(h, ord) /\ OwnHandles(h)
    BY <1>1, <2>1, ChainsAre, OwnHandlesIs DEF Sound
  <2>3. \A j \in Indices : /\ g[j].set = "used" <=> h[j].set = "used"
                           /\ g[j].owner = h[j].owner
    BY <1>6, <1>7, <2>1 DEF Changed
  <2>4. SameLinks(g, h)
    BY <1>6, <2>1
  <2>5. ChainsIn(g, ord)
    BY <2>2, <2>3, <2>4, ChainsStill
  <2>6. Made' = Made
    BY <1>1 DEF Made, MadeAs
  <2>7. ChainsIn(m_Handles, Made)'
    BY <1>14, <2>1, <2>5, <2>6 DEF ChainsIn
  <2> QED BY <2>7, ChainsAreNext
<1> QED BY <1>10, <1>16, <1>17, <1>18, <1>19, <1>20, <1>21, <1>22, <1>23, <1>24, <1>25, <1>26 DEF Sound

LEMMA VectorSame ==
    ASSUME HandleTypeOK, Sound, m_Handles' = m_Handles, m_FreeHandles' = m_FreeHandles,
           m_HandleTail' = m_HandleTail, identity' = identity, given' = given,
           destroyed' = destroyed,
           \A k \in DOMAIN stack : stack[k].op # "free",
           \A k \in DOMAIN stack' : stack'[k].op # "free",
           (stack' # <<>> /\ stack'[1].op = "identity") =>
              \E t \in Live : identity[t] = stack'[1].i,
           \A j \in Indices : ~Doomed(j) /\ ~Doomed(j)'
    PROVE  /\ Slots' /\ Kinds' /\ Framed' /\ Identities' /\ Remembered' /\ Gone'
           /\ UnloadReleasesAll' /\ OwnerChains'
           /\ \A j \in Indices : /\ Clones(j)' = Clones(j) /\ (InUse(j)' <=> InUse(j))
                                 /\ (Master(j)' <=> Master(j)) /\ (Clone(j)' <=> Clone(j))
<1>1. PICK R : R = {}
  OBVIOUS
<1>2. /\ Changed(m_Handles', m_Handles, R, R, R, 0) /\ Changed(m_Handles', m_Handles, R, R, {}, 0)
      /\ Changed(m_Handles', m_Handles, R, {}, R, 0) /\ SameLinks(m_Handles', m_Handles)
  BY <1>1, ChangedNot
<1>3. \A j : j \notin R
  BY <1>1
<1>4. Kinds' /\ Remembered' /\ UnloadReleasesAll' /\ Identities'
  BY <1>2, <1>3, KindsKept, RememberedKept, OwnersKept, IdentitiesKept DEF Sound
<1>5. \A j \in Indices : /\ Clones(j)' = Clones(j) /\ (InUse(j)' <=> InUse(j))
                         /\ (Master(j)' <=> Master(j)) /\ (Clone(j)' <=> Clone(j))
  BY DEF Clones, InUse, Master, Clone
<1>6. Slots'
  BY <1>5, SlotsSame DEF Sound
<1>7. Framed'
  BY <1>2, <1>3, FramedNone DEF Sound
<1>8. Gone'
  BY <1>2, <1>3, GoneKept DEF Sound
<1>9. OwnerChains'
  BY <1>2, <1>3, ChainsUntouched
<1> QED BY <1>4, <1>5, <1>6, <1>7, <1>8, <1>9

(* Clones fit as well when only the stack has changed, if their masters are in
   use and RemoveType() has not come past them. *)
LEMMA FitsStill ==
    ASSUME HandleTypeOK, ClonesFit, m_Handles' = m_Handles,
           \A j \in Indices : Clone(j) => InUse(m_Handles[j].clone),
           \A j \in Indices : Clone(j) =>
              (Sweep' /\ m_Handles[j].type = stack'[1].type => j >= stack'[1].i)
    PROVE  ClonesFit'
<1> SUFFICES ASSUME NEW j \in Indices, Clone(j)'
             PROVE  CloneFits(j, m_Handles[j].clone)' /\ m_Handles'[j].clone = m_Handles[j].clone
  BY DEF ClonesFit
<1>1. Clone(j)
  BY DEF Clone
<1>2. PICK x : x = m_Handles[j].clone
  OBVIOUS
<1>3. CloneFits(j, x) /\ InUse(x)
  BY <1>1, <1>2 DEF ClonesFit
<1>4. Sweep' /\ m_Handles[j].type = stack'[1].type => j >= stack'[1].i
  BY <1>1
<1>5. InUse(x)'
  BY <1>3 DEF InUse
<1>6. CloneFits(j, x)'
  BY <1>3, <1>4, <1>5 DEF CloneFits
<1> QED BY <1>2, <1>6

LEMMA MastersInUse ==
    ASSUME ClonesFit, ~Sweep
    PROVE  \A j \in Indices : Clone(j) => InUse(m_Handles[j].clone)
  BY DEF ClonesFit, CloneFits

LEMMA DestroyIdentityKept ==
    ASSUME Base, Sound, ~mangled', NEW t \in Tokens, DestroyIdentity(t)
    PROVE  Sound'
<1>1. /\ HandleTypeOK /\ Shape /\ ~crashed /\ stack = <<>> /\ t \in Live /\ FreeAt(identity[t])
      /\ m_HandleTail' = m_HandleTail /\ types' = types /\ identity' = identity /\ given' = given
  BY DEF Base, DestroyIdentity, Idle
<1>2. PICK i \in Indices : i = identity[t]
  BY <1>1, OwnHandlesIs DEF OwnHandles, Sound
<1>3. m_Handles[i].set = "identity" /\ InUse(i) /\ m_Handles[i].clone = 0
  BY <1>1, <1>2 DEF Sound, Identities, Kinds, InUse
<1>4. FreeIdentity(i)
  <2>1. m_Handles \in Vectors
    BY <1>1 DEF HandleTypeOK, Vectors
  <2>2. ~FreeClone(i)
    BY <1>3 DEF FreeClone
  <2>3. ~FreeMaster(i)
    BY <1>1, <1>3, FreeMasterIs DEF MasterGone
  <2> QED BY <1>1, <1>2, <2>2, <2>3 DEF FreeAt
<1>5. PICK b : b = Frame("identity", i, NULL, "look")
  OBVIOUS
<1>6. /\ stack' = Append(stack, b) /\ m_Handles' = m_Handles /\ m_FreeHandles' = m_FreeHandles
      /\ opened' = opened /\ destroyed' = destroyed /\ crashed' = crashed
  BY <1>4, <1>5 DEF FreeIdentity
<1>7. b \in Frames /\ b.op = "identity" /\ b.i = i
  BY <1>5, FrameTyped
<1>8. DOMAIN stack' = {1} /\ stack'[1] = b /\ stack' # <<>> /\ DOMAIN stack = {}
  <2>1. stack \in Seq(Frames) /\ Len(stack) = 0
    BY <1>1 DEF HandleTypeOK
  <2>2. DOMAIN stack' = 1..(0 + 1) /\ stack'[0 + 1] = b /\ stack' # <<>> /\ DOMAIN stack = 1..0
    BY <1>6, <1>7, <2>1, PushedIs
  <2> QED BY <2>2
<1>9. ~Sweep /\ ~Sweep' /\ Outermost'
  BY <1>1, <1>7, <1>8 DEF Sweep, Outermost
<1>10. \A j \in Indices : ~Doomed(j) /\ ~Doomed(j)' /\ ~Passed(j) /\ ~Passed(j)'
  BY <1>9 DEF Doomed, Passed
<1>11. /\ Slots' /\ Kinds' /\ Framed' /\ Identities' /\ Remembered' /\ Gone'
       /\ UnloadReleasesAll' /\ OwnerChains'
       /\ \A j \in Indices : /\ Clones(j)' = Clones(j) /\ (InUse(j)' <=> InUse(j))
                             /\ (Master(j)' <=> Master(j)) /\ (Clone(j)' <=> Clone(j))
  <2>1. (\A k \in DOMAIN stack : stack[k].op # "free")
        /\ (\A k \in DOMAIN stack' : stack'[k].op # "free")
    BY <1>7, <1>8
  <2>2. (stack' # <<>> /\ stack'[1].op = "identity") => \E s \in Live : identity[s] = stack'[1].i
    BY <1>1, <1>2, <1>7, <1>8
  <2> QED BY <1>1, <1>6, <1>10, <2>1, <2>2, VectorSame
<1>12. ClonesFit'
  BY <1>1, <1>6, <1>9, FitsStill, MastersInUse DEF Sound
<1>13. Held'
  BY <1>9 DEF Held
<1>14. Refs'
  BY <1>1, <1>6, <1>10, <1>11 DEF Sound, Refs, Counts, Own
<1>15. Counted'
  <2>1. SameSweep
    BY <1>9 DEF SameSweep
  <2>2. \A j \in Indices : (InUse(j)' <=> InUse(j)) /\ m_Handles'[j].type = m_Handles[j].type
    BY <1>6, <1>11
  <2> QED BY <1>1, <1>6, <2>1, <2>2, CountedSame DEF Sound
<1> QED BY <1>9, <1>11, <1>12, <1>13, <1>14, <1>15 DEF Sound

-----------------------------------------------------------------------------
(***************************************************************************)
(* Types, and RemoveType().                                                *)
(***************************************************************************)
LEMMA CreateTypeKept ==
    ASSUME Base, Sound, ~mangled', NEW type \in Types, CreateType(type)
    PROVE  Sound'
<1>1. /\ HandleTypeOK /\ Shape /\ ~crashed /\ stack = <<>> /\ type \notin types
      /\ types' = types \cup {type} /\ opened' = [opened EXCEPT ![type] = 0]
      /\ m_Handles' = m_Handles /\ m_FreeHandles' = m_FreeHandles /\ m_HandleTail' = m_HandleTail
      /\ identity' = identity /\ stack' = stack /\ given' = given /\ destroyed' = destroyed
      /\ crashed' = crashed
  BY DEF Base, CreateType, Idle
<1>2. ~Sweep /\ ~Sweep' /\ Outermost' /\ DOMAIN stack = {} /\ DOMAIN stack' = {}
  BY <1>1 DEF Sweep, Outermost
<1>3. \A j \in Indices : ~Doomed(j) /\ ~Doomed(j)' /\ ~Passed(j) /\ ~Passed(j)'
  BY <1>2 DEF Doomed, Passed
<1>4. /\ Slots' /\ Kinds' /\ Framed' /\ Identities' /\ Remembered' /\ Gone'
      /\ UnloadReleasesAll' /\ OwnerChains'
      /\ \A j \in Indices : /\ Clones(j)' = Clones(j) /\ (InUse(j)' <=> InUse(j))
                            /\ (Master(j)' <=> Master(j)) /\ (Clone(j)' <=> Clone(j))
  BY <1>1, <1>2, <1>3, VectorSame
<1>5. ClonesFit'
  BY <1>1, <1>2, FitsStill, MastersInUse DEF Sound
<1>6. Held'
  BY <1>2 DEF Held
<1>7. Refs'
  BY <1>1, <1>3, <1>4 DEF Sound, Refs, Counts, Own
<1>8. Counted'
  <2>1. \A s \in Types : OfOneType(s)' = OfOneType(s)
    BY <1>1, <1>4 DEF OfOneType
  <2>2. \A s : ~Sweeps(s) /\ ~Sweeps(s)'
    BY <1>2 DEF Sweeps
  <2>3. opened[type] = 0
    BY <1>1, <2>2 DEF Sound, Counted
  <2>4. opened' = opened
    BY <1>1, <2>3 DEF HandleTypeOK
  <2> QED BY <1>1, <2>1, <2>2, <2>3, <2>4 DEF Sound, Counted
<1> QED BY <1>2, <1>4, <1>5, <1>6, <1>7, <1>8 DEF Sound

LEMMA RemoveTypeKept ==
    ASSUME Base, Sound, ~mangled', NEW type \in Types, RemoveType(type)
    PROVE  Sound'
<1>1. /\ HandleTypeOK /\ Shape /\ ~crashed /\ stack = <<>> /\ type \in types
      /\ types' = types \ {type} /\ opened' = opened
      /\ stack' = IF opened[type] = 0 THEN stack ELSE <<Frame("type", 1, type, "look")>>
      /\ m_Handles' = m_Handles /\ m_FreeHandles' = m_FreeHandles /\ m_HandleTail' = m_HandleTail
      /\ identity' = identity /\ given' = given /\ destroyed' = destroyed /\ crashed' = crashed
  BY DEF Base, RemoveType, Idle
<1>2. PICK b : b = Frame("type", 1, type, "look")
  OBVIOUS
<1>3. b.op = "type" /\ b.i = 1 /\ b.type = type /\ b.at = "look"
  BY <1>2 DEF Frame
<1>4. /\ opened[type] = 0 => stack' = <<>>
      /\ opened[type] # 0 => stack' # <<>> /\ DOMAIN stack' = {1} /\ stack'[1] = b
  BY <1>1, <1>2
<1>5. /\ ~Sweep /\ (Sweep' <=> opened[type] # 0) /\ (Sweep' => stack'[1] = b)
      /\ DOMAIN stack = {} /\ \A k \in DOMAIN stack' : k = 1 /\ stack'[k] = b
  BY <1>1, <1>3, <1>4 DEF Sweep
<1>6. Outermost'
  BY <1>5 DEF Outermost
<1>7. \A j \in Indices : ~Doomed(j) /\ ~Doomed(j)' /\ ~Passed(j) /\ ~Passed(j)'
  <2>1. \A j \in Indices : ~(j < 1)
    BY DEF Indices
  <2> QED BY <1>3, <1>5, <2>1 DEF Doomed, Passed
<1>8. /\ Slots' /\ Kinds' /\ Framed' /\ Identities' /\ Remembered' /\ Gone'
      /\ UnloadReleasesAll' /\ OwnerChains'
      /\ \A j \in Indices : /\ Clones(j)' = Clones(j) /\ (InUse(j)' <=> InUse(j))
                            /\ (Master(j)' <=> Master(j)) /\ (Clone(j)' <=> Clone(j))
  <2>1. /\ \A k \in DOMAIN stack : stack[k].op # "free"
        /\ \A k \in DOMAIN stack' : stack'[k].op # "free"
    BY <1>3, <1>5
  <2>2. ~(stack' # <<>> /\ stack'[1].op = "identity")
    BY <1>3, <1>4
  <2> QED BY <1>1, <1>7, <2>1, <2>2, VectorSame
<1>9. ClonesFit'
  <2>1. \A j \in Indices : Sweep' => j >= stack'[1].i
    BY <1>3, <1>5 DEF Indices
  <2> QED BY <1>1, <1>5, <2>1, FitsStill, MastersInUse DEF Sound
<1>10. Held'
  BY <1>3, <1>5 DEF Held
<1>11. Refs'
  BY <1>1, <1>7, <1>8 DEF Sound, Refs, Counts, Own
<1>12. Counted'
  <2>1. \A s \in Types : OfOneType(s)' = OfOneType(s)
    BY <1>1, <1>8 DEF OfOneType
  <2>2. /\ \A s : ~Sweeps(s)
        /\ opened[type] # 0 => Sweeps(type)'
    BY <1>3, <1>5 DEF Sweeps
  <2> QED BY <1>1, <2>1, <2>2 DEF Sound, Counted
<1> QED BY <1>6, <1>8, <1>9, <1>10, <1>11, <1>12 DEF Sound

(* RemoveType() looks for its next handle: nothing else is under way. *)
Looking ==
    /\ Len(stack) = 1 /\ DOMAIN stack = {1} /\ stack # <<>> /\ Top = stack[1] /\ Sweep
    /\ stack[1].op = "type" /\ stack[1].at = "look" /\ stack[1].type \in Types \ types
    /\ stack[1].i \in Nat
    /\ \A j \in Indices : ~Doomed(j)
    /\ \A k \in DOMAIN stack : stack[k].op # "free"
    /\ \A j \in Indices : InUse(j) => ~m_Handles[j].is_destroying
    /\ \A j \in Indices : InUse(j) /\ m_Handles[j].type = stack[1].type /\ ~Passed(j) =>
          j \in OfType

LEMMA LookingIs ==
    ASSUME Base, Sound, At("type", "look")
    PROVE  Looking
<1>1. HandleTypeOK /\ Shape /\ stack # <<>> /\ Top.op = "type" /\ Top.at = "look"
  BY DEF Base, At
<1>2. Len(stack) = 1 /\ DOMAIN stack = {1} /\ Top = stack[1] /\ Top \in Frames
  <2>1. Len(stack) = 1 /\ DOMAIN stack = 1..Len(stack) /\ Top = stack[Len(stack)] /\ Top \in Frames
    BY <1>1, TopTyped
  <2> QED BY <2>1
<1>3. stack[1].op = "type" /\ stack[1].at = "look" /\ Sweep /\ stack[1].type \in Types \ types
  BY <1>1, <1>2 DEF Sweep, Shape
<1>4. stack[1].i \in Nat
  BY <1>2, HandleConstants DEF Frames
<1>5. \A k \in DOMAIN stack : stack[k].op # "free"
  BY <1>2, <1>3
<1>6. \A j \in Indices : InUse(j) => ~m_Handles[j].is_destroying
  BY <1>5 DEF Sound, Framed
<1>7. \A j \in Indices : ~Doomed(j)
  BY <1>3 DEF Doomed
<1>8. ASSUME NEW j \in Indices, InUse(j), m_Handles[j].type = stack[1].type, ~Passed(j)
      PROVE  j \in OfType
  <2>1. j >= stack[1].i
    BY <1>3, <1>4, <1>8 DEF Passed, Indices
  <2>2. j <= m_HandleTail
    BY <1>1, <1>8, HandleConstants DEF Sound, Slots, HandleTypeOK, Indices
  <2>3. j \in Top.i..m_HandleTail
    BY <1>1, <1>2, <1>4, <2>1, <2>2, HandleConstants DEF HandleTypeOK, Indices
  <2> QED BY <1>2, <1>8, <2>3 DEF OfType, InUse
<1> QED BY <1>1, <1>2, <1>3, <1>4, <1>5, <1>6, <1>7, <1>8 DEF Looking

(* Those of its type that RemoveType() has passed are masters with clones it has
   still to come to. *)
LEMMA PassedIs ==
    ASSUME HandleTypeOK, Sound, ~crashed, Looking, NEW j \in Indices, InUse(j), Passed(j)
    PROVE  \E c \in OfType : Clone(c) /\ m_Handles[c].clone = j
<1>1. m_Handles[j].type = stack[1].type /\ j < stack[1].i /\ stack[1].i \in Nat /\ j \in Nat
  BY DEF Looking, Passed, Indices
<1>2. Master(j)
  <2>1. ~Clone(j)
    BY <1>1, CloneIs DEF Looking
  <2>2. m_Handles[j].set # "identity"
    BY <1>1, HandleConstants DEF Sound, Kinds, Looking
  <2>3. m_Handles[j].set \in {"none", "used", "freed", "identity"}
    BY DEF HandleTypeOK, QHandles
  <2> QED BY <2>1, <2>2, <2>3 DEF Clone, Master, InUse
<1>3. ~m_Handles[j].is_destroying /\ ~Doomed(j)
  BY DEF Looking
<1>4. /\ Counts(j) /\ m_Handles[j].refcount \in Int /\ Cardinality(Clones(j)) \in Nat
      /\ Cardinality(Clones(j)) = 0 <=> Clones(j) = {}
  BY <1>2, <1>3, MasterCounts
<1>5. Own(j) \in {0, -1}
  BY DEF Own
<1>6. Clones(j) # {}
  BY <1>4, <1>5 DEF Counts
<1>7. PICK c \in Indices : m_Handles[c].set # "none" /\ m_Handles[c].clone = j
  BY <1>6 DEF Clones
<1>8. Clone(c) /\ InUse(c)
  BY <1>7, NotZero DEF Clone, InUse
<1>9. m_Handles[c].type = stack[1].type /\ c >= stack[1].i
  BY <1>1, <1>7, <1>8, CloneIs DEF Looking
<1>10. c \in OfType
  BY <1>1, <1>8, <1>9 DEF Looking, Passed, Indices
<1> QED BY <1>7, <1>8, <1>10

LEMMA RemoveDoneKept ==
    ASSUME Base, Sound, ~mangled', RemoveDone
    PROVE  Sound'
<1>1. /\ HandleTypeOK /\ Shape /\ ~crashed /\ stack # <<>> /\ At("type", "look")
      /\ types' = types /\ opened' = opened /\ stack' = Popped
      /\ m_Handles' = m_Handles /\ m_FreeHandles' = m_FreeHandles /\ m_HandleTail' = m_HandleTail
      /\ identity' = identity /\ given' = given /\ destroyed' = destroyed /\ crashed' = crashed
      /\ opened[Top.type] = 0 \/ OfType = {}
  BY DEF Base, RemoveDone, At
<1>2. Looking
  BY <1>1, LookingIs
<1>3. stack' = <<>>
  <2>1. stack \in Seq(Frames) /\ Len(stack) = 1 /\ stack' = SubSeq(stack, 1, Len(stack) - 1)
    BY <1>1, <1>2 DEF HandleTypeOK, Popped, Looking
  <2> QED BY <1>1, <2>1, PoppedIs
<1>4. PICK type \in Types : type = stack[1].type /\ type = Top.type /\ Sweeps(type)
  BY <1>2 DEF Looking, Sweeps
<1>5. OfOneType(type) = {}
  <2>1. CASE opened[type] = 0
    <3>1. OfOneType(type) \in SUBSET Indices /\ Cardinality(OfOneType(type)) = 0
      BY <2>1 DEF Sound, Counted, OfOneType
    <3> QED BY <3>1, CountIs
  <2>2. CASE OfType = {}
    <3>1. \A j \in Indices : InUse(j) => ~Passed(j)
      BY <1>1, <1>2, <2>2, PassedIs
    <3> QED BY <1>2, <1>4, <2>2, <3>1 DEF Looking, OfOneType
  <2> QED BY <1>1, <1>4, <2>1, <2>2
<1>6. \A j \in Indices : InUse(j) => m_Handles[j].type # stack[1].type
  BY <1>4, <1>5 DEF OfOneType
<1>7. ~Sweep' /\ Outermost' /\ DOMAIN stack' = {}
  BY <1>3 DEF Sweep, Outermost
<1>8. \A j \in Indices : ~Doomed(j) /\ ~Doomed(j)' /\ ~Passed(j)' /\ (InUse(j) => ~Passed(j))
  BY <1>2, <1>6, <1>7 DEF Doomed, Passed, Looking
<1>9. /\ Slots' /\ Kinds' /\ Framed' /\ Identities' /\ Remembered' /\ Gone'
      /\ UnloadReleasesAll' /\ OwnerChains'
      /\ \A j \in Indices : /\ Clones(j)' = Clones(j) /\ (InUse(j)' <=> InUse(j))
                            /\ (Master(j)' <=> Master(j)) /\ (Clone(j)' <=> Clone(j))
  <2>1. (\A k \in DOMAIN stack : stack[k].op # "free")
        /\ (\A k \in DOMAIN stack' : stack'[k].op # "free")
    BY <1>2, <1>7 DEF Looking
  <2> QED BY <1>1, <1>3, <1>8, <2>1, VectorSame
<1>10. ClonesFit'
  <2>1. ASSUME NEW j \in Indices, Clone(j) PROVE InUse(m_Handles[j].clone)
    BY <1>1, <1>6, <2>1, CloneIs
  <2> QED BY <1>1, <1>7, <2>1, FitsStill DEF Sound
<1>11. Held'
  BY <1>7 DEF Held
<1>12. Refs'
  <2>1. ASSUME NEW x \in Indices, Master(x)', ~m_Handles'[x].is_destroying PROVE Counts(x)'
    <3>1. Master(x) /\ InUse(x) /\ ~m_Handles[x].is_destroying /\ ~Doomed(x)
      BY <1>1, <1>8, <1>9, <2>1 DEF Master, InUse
    <3>2. Counts(x)
      BY <1>1, <3>1, MasterCounts
    <3>3. Own(x)' = Own(x)
      BY <1>1, <1>8, <3>1 DEF Own
    <3> QED BY <1>1, <1>9, <3>2, <3>3 DEF Counts
  <2> QED BY <1>1, <2>1 DEF Refs
<1>13. Counted'
  <2>1. \A s \in Types : OfOneType(s)' = OfOneType(s)
    BY <1>1, <1>9 DEF OfOneType
  <2>2. \A s : s # type => ~Sweeps(s)
    BY <1>4 DEF Sweeps
  <2>3. opened[type] = 0
    BY <1>5, CountIs DEF Sound, Counted
  <2> QED BY <1>1, <2>1, <2>2, <2>3 DEF Sound, Counted
<1> QED BY <1>7, <1>9, <1>10, <1>11, <1>12, <1>13 DEF Sound

(* What is known of the handle RemoveType() has come to, and of the others of
   its type. *)
LEMMA SightedIs ==
    ASSUME HandleTypeOK, Sound, Looking, NEW i \in Indices, Sighted(i)
    PROVE  /\ InUse(i) /\ m_Handles[i].type = stack[1].type /\ m_Handles[i].set # "identity"
           /\ i \in Nat /\ i >= stack[1].i /\ ~Passed(i) /\ ~m_Handles[i].is_destroying
           /\ m_Handles[i].clone = 0 => Master(i) /\ MasterOf(i) = i
           /\ m_Handles[i].clone # 0 => Clone(i)
           /\ \A j \in Indices : InUse(j) /\ m_Handles[j].type = stack[1].type =>
                 Passed(j) \/ i <= j
           /\ \A j \in Indices : Clone(j) /\ m_Handles[j].type = stack[1].type => i <= j
<1>1. InUse(i) /\ m_Handles[i].type = stack[1].type /\ i >= stack[1].i /\ \A j \in OfType : i <= j
  <2>1. Top = stack[1] /\ stack[1].i \in Nat /\ m_HandleTail \in Nat
    BY HandleConstants DEF Looking, HandleTypeOK
  <2>2. /\ i \in Top.i..m_HandleTail /\ m_Handles[i].set # "none" /\ m_Handles[i].type = Top.type
        /\ \A j \in OfType : i <= j
    BY DEF Sighted, OfType
  <2> QED BY <2>1, <2>2 DEF InUse
<1>2. i \in Nat /\ stack[1].i \in Nat /\ ~Passed(i) /\ ~m_Handles[i].is_destroying
  BY <1>1 DEF Indices, Passed, Looking
<1>3. m_Handles[i].set # "identity"
  BY <1>1, HandleConstants DEF Sound, Kinds, Looking
<1>4. m_Handles[i].set \in {"none", "used", "freed", "identity"}
  BY DEF HandleTypeOK, QHandles
<1>5. m_Handles[i].clone = 0 => Master(i) /\ MasterOf(i) = i
  BY <1>1, <1>3, <1>4 DEF Master, MasterOf, InUse
<1>6. m_Handles[i].clone # 0 => Clone(i)
  BY <1>1 DEF Clone, InUse
<1>7. \A j \in Indices : InUse(j) /\ m_Handles[j].type = stack[1].type => Passed(j) \/ i <= j
  BY <1>1 DEF Looking
<1>8. ASSUME NEW j \in Indices, Clone(j), m_Handles[j].type = stack[1].type PROVE i <= j
  <2>1. InUse(j) /\ j >= stack[1].i
    BY <1>8, CloneIs DEF Looking
  <2>2. ~Passed(j)
    BY <1>2, <2>1 DEF Passed, Indices
  <2> QED BY <1>7, <1>8, <2>1, <2>2
<1> QED BY <1>1, <1>2, <1>3, <1>5, <1>6, <1>7, <1>8

(* The frame of RemoveType() has moved to k: what it has passed then. *)
LEMMA MovedPasses ==
    ASSUME Sweep, NEW k, NEW at, MovedTo(k, at),
           \A j \in Indices : m_Handles'[j].type = m_Handles[j].type
    PROVE  /\ Sweep' /\ SameSweep /\ Outermost' /\ stack' # <<>> /\ stack'[1].op = "type"
           /\ stack'[1].i = k /\ stack'[1].at = at /\ stack'[1].type = stack[1].type
           /\ \A n \in DOMAIN stack' : stack'[n].op # "free"
           /\ \A j \in Indices : Passed(j)' <=> (m_Handles[j].type = stack[1].type /\ j < k)
<1>1. /\ DOMAIN stack' = {1} /\ stack' # <<>> /\ stack'[1].op = "type"
      /\ stack'[1].type = stack[1].type /\ stack'[1].i = k /\ stack'[1].at = at
  BY DEF MovedTo
<1>2. Sweep' /\ Sweep /\ SameSweep
  BY <1>1 DEF Sweep, SameSweep
<1>3. Outermost'
  BY <1>1 DEF Outermost
<1>4. \A j \in Indices : Passed(j)' <=> (m_Handles[j].type = stack[1].type /\ j < k)
  BY <1>1, <1>2 DEF Passed
<1> QED BY <1>1, <1>2, <1>3, <1>4

LEMMA RemoveNextDestroyed ==
    ASSUME Base, Sound, ~mangled', ~crashed, Looking, NEW i \in Indices, Sighted(i),
           NEW m \in Indices, m = MasterOf(i), NextDestroyed(i, m),
           m_HandleTail' = m_HandleTail, types' = types, identity' = identity, given' = given,
           crashed' = crashed
    PROVE  Sound'
<1>1. HandleTypeOK /\ Shape /\ stack # <<>> /\ Top.op = "type"
  BY DEF Base, Looking
<1>2. /\ InUse(i) /\ m_Handles[i].type = stack[1].type /\ i \in Nat /\ i >= stack[1].i
      /\ \A j \in Indices : InUse(j) /\ m_Handles[j].type = stack[1].type => Passed(j) \/ i <= j
      /\ \A j \in Indices : Clone(j) /\ m_Handles[j].type = stack[1].type => i <= j
  BY <1>1, SightedIs
<1>3. PICK R : R = {}
  OBVIOUS
<1>4. /\ Changed(m_Handles', m_Handles, R, R, R, m) /\ Changed(m_Handles', m_Handles, R, R, {}, m)
      /\ Changed(m_Handles', m_Handles, R, {}, R, m) /\ SameLinks(m_Handles', m_Handles)
      /\ \A j : j \notin R
  BY <1>3 DEF NextDestroyed
<1>5. /\ m_Handles[m].refcount = 1 /\ opened' = opened /\ m_FreeHandles' = m_FreeHandles
      /\ destroyed' = [destroyed EXCEPT ![m_Handles[m].object] = @ + 1]
      /\ stack' = [stack EXCEPT ![Len(stack)].i = i, ![Len(stack)].at = "destroy"]
  BY DEF NextDestroyed
<1>6. Master(m) /\ ~m_Handles[m].is_destroying /\ ~Doomed(m)
  <2>1. CASE m_Handles[i].clone = 0
    BY <1>1, <2>1, SightedIs DEF Looking
  <2>2. CASE m_Handles[i].clone # 0
    <3>1. Clone(i) /\ m = m_Handles[i].clone
      BY <1>1, <2>2, SightedIs DEF MasterOf
    <3>2. InUse(m)
      BY <1>5, <3>1 DEF Sound, ClonesFit, CloneFits
    <3> QED BY <1>1, <3>1, <3>2, CloneIs DEF Looking
  <2> QED BY <2>1, <2>2
<1>7. MovedTo(i, "destroy")
  <2>1. i \in 1..(MaxHandles + 1)
    BY HandleConstants DEF Indices
  <2> QED BY <1>1, <1>5, <2>1, MovedIs
<1>8. /\ \A x : Clones(x)' = Clones(x)
      /\ \A j \in Indices : /\ InUse(j)' <=> InUse(j)
                            /\ MasterOf(j)' = MasterOf(j)
                            /\ m_Handles'[j].type = m_Handles[j].type
                            /\ Master(j)' => Master(j)
  <2>1. /\ \A x : Clones(x)' = Clones(x) \ R
        /\ \A j \in Indices : /\ InUse(j)' <=> InUse(j) /\ j \notin R
                              /\ MasterOf(j)' = MasterOf(j)
                              /\ m_Handles'[j].type = m_Handles[j].type
                              /\ Master(j)' => Master(j) /\ j \notin R
    BY <1>4, ClonesLeft
  <2> QED BY <1>3, <2>1
<1>9. /\ Sweep' /\ SameSweep /\ Outermost' /\ stack' # <<>> /\ stack'[1].op = "type"
      /\ stack'[1].i = i /\ stack'[1].at = "destroy" /\ stack'[1].type = stack[1].type
      /\ \A n \in DOMAIN stack' : stack'[n].op # "free"
      /\ \A j \in Indices : Passed(j)' <=> (m_Handles[j].type = stack[1].type /\ j < i)
  BY <1>7, <1>8, MovedPasses DEF Looking
<1>10. /\ \A j \in Indices : InUse(j) => (Passed(j)' <=> Passed(j))
       /\ \A j \in Indices : Doomed(j)' <=> j = m
  <2>1. \A j \in Indices : InUse(j) => (Passed(j)' <=> Passed(j))
    BY <1>2, <1>9 DEF Passed, Indices, Looking
  <2>2. \A j \in Indices : Doomed(j)' <=> j = m
    BY <1>8, <1>9 DEF Doomed
  <2> QED BY <2>1, <2>2
<1>11. Kinds' /\ Identities' /\ Remembered' /\ UnloadReleasesAll'
  BY <1>1, <1>4, <1>9, CommonKept
<1>12. Slots'
  BY <1>1, <1>5, <1>8, SlotsSame DEF Sound
<1>13. Counted'
  BY <1>5, <1>8, <1>9, CountedSame DEF Sound
<1>14. ClonesFit'
  <2>1. ASSUME NEW j \in Indices, Clone(j), j \notin R PROVE StillFits(j, R, R)
    BY <1>2, <1>4, <1>9, <2>1 DEF StillFits, Indices
  <2> QED BY <1>1, <1>4, <1>9, <2>1, ClonesFitKept DEF Sound
<1>15. Framed'
  BY <1>4, <1>9, FramedNone DEF Sound, Looking
<1>16. Held'
  <2>1. m_Handles'[m].refcount = 0 /\ m_Handles'[m].is_destroying = m_Handles[m].is_destroying
    BY <1>4, <1>5 DEF Changed
  <2>2. Master(m)'
    BY <1>4, <1>6 DEF Changed, Master
  <2>3. HeldBy(i, m)'
    BY <1>2, <1>6, <1>8, <1>9, <2>1, <2>2 DEF HeldBy
  <2> QED BY <1>8, <1>9, <2>3 DEF Held
<1>17. Refs'
  <2>1. ASSUME NEW x \in Indices, Master(x)', ~m_Handles'[x].is_destroying, ~Doomed(x)'
        PROVE  Counts(x)'
    <3>1. Master(x) /\ InUse(x) /\ x # m /\ ~m_Handles[x].is_destroying /\ ~Doomed(x)
      BY <1>4, <1>8, <1>10, <2>1 DEF Changed, Looking, Master, InUse
    <3>2. Counts(x)
      BY <1>1, <3>1, MasterCounts
    <3>3. Clones(x) \cap R = {}
      BY <1>3
    <3> QED BY <1>4, <1>10, <3>1, <3>2, <3>3, CountsKept
  <2> QED BY <2>1 DEF Refs
<1>18. Gone'
  <2>1. /\ Gone /\ Remembered /\ (\A j \in R : j = m) /\ (m \in R \/ Doomed(m)')
        /\ \A j \in Indices : Master(j) => j \notin R
        /\ \A j \in Indices : Master(j) /\ j # m => (Doomed(j)' <=> Doomed(j))
    BY <1>4, <1>10 DEF Sound, Looking
  <2> QED BY <1>1, <1>4, <1>5, <1>6, <2>1, GoneLast
<1>19. OwnerChains'
  BY <1>1, <1>4, ChainsUntouched
<1> QED BY <1>9, <1>11, <1>12, <1>13, <1>14, <1>15, <1>16, <1>17, <1>18, <1>19 DEF Sound

LEMMA ScannedIs ==
    ASSUME HandleTypeOK, Shape, stack # <<>>, Top.op = "type", NEW i \in Indices,
           stack' = Scanned(i)
    PROVE  MovedTo(i + 1, "look")
<1>1. PICK k : k = i + 1
  OBVIOUS
<1>2. k \in 1..(MaxHandles + 1)
  BY <1>1, HandleConstants DEF Indices
<1>3. stack' = [stack EXCEPT ![Len(stack)].i = k, ![Len(stack)].at = "look"]
  BY <1>1 DEF Scanned
<1> QED BY <1>1, <1>2, <1>3, MovedIs

LEMMA RemoveNextMaster ==
    ASSUME Base, Sound, ~mangled', ~crashed, Looking, NEW i \in Indices, Sighted(i),
           MasterOf(i) = i, NextMaster(i, i),
           m_HandleTail' = m_HandleTail, types' = types, identity' = identity, given' = given,
           crashed' = crashed
    PROVE  Sound'
<1>1. HandleTypeOK /\ Shape /\ stack # <<>> /\ Top.op = "type"
  BY DEF Base, Looking
<1>2. /\ InUse(i) /\ m_Handles[i].type = stack[1].type /\ i \in Nat /\ i >= stack[1].i /\ ~Passed(i)
      /\ \A j \in Indices : InUse(j) /\ m_Handles[j].type = stack[1].type => Passed(j) \/ i <= j
      /\ \A j \in Indices : Clone(j) /\ m_Handles[j].type = stack[1].type => i <= j
  BY <1>1, SightedIs
<1>3. PICK R : R = {}
  OBVIOUS
<1>4. /\ Changed(m_Handles', m_Handles, R, R, R, i) /\ Changed(m_Handles', m_Handles, R, R, {}, i)
      /\ Changed(m_Handles', m_Handles, R, {}, R, i) /\ SameLinks(m_Handles', m_Handles)
      /\ \A j : j \notin R
  BY <1>3 DEF NextMaster
<1>5. /\ m_Handles[i].refcount # 1 /\ opened' = opened /\ m_FreeHandles' = m_FreeHandles
      /\ destroyed' = destroyed /\ stack' = Scanned(i)
  BY DEF NextMaster
<1>6. Master(i) /\ ~m_Handles[i].is_destroying /\ ~Doomed(i)
  <2>1. CASE m_Handles[i].clone = 0
    BY <1>1, <2>1, SightedIs DEF Looking
  <2>2. CASE m_Handles[i].clone # 0
    BY <1>1, <2>2, SightedIs, CloneIs
  <2> QED BY <2>1, <2>2
<1>7. MovedTo(i + 1, "look")
  BY <1>1, <1>5, ScannedIs
<1>8. /\ \A x : Clones(x)' = Clones(x)
      /\ \A j \in Indices : /\ InUse(j)' <=> InUse(j)
                            /\ m_Handles'[j].type = m_Handles[j].type
                            /\ Master(j)' => Master(j)
  <2>1. /\ \A x : Clones(x)' = Clones(x) \ R
        /\ \A j \in Indices : /\ InUse(j)' <=> InUse(j) /\ j \notin R
                              /\ m_Handles'[j].type = m_Handles[j].type
                              /\ Master(j)' => Master(j) /\ j \notin R
    BY <1>4, ClonesLeft
  <2> QED BY <1>3, <2>1
<1>9. /\ Sweep' /\ SameSweep /\ Outermost' /\ stack' # <<>> /\ stack'[1].op = "type"
      /\ stack'[1].i = i + 1 /\ stack'[1].at = "look" /\ stack'[1].type = stack[1].type
      /\ \A n \in DOMAIN stack' : stack'[n].op # "free"
      /\ \A j \in Indices : Passed(j)' <=> (m_Handles[j].type = stack[1].type /\ j < i + 1)
  BY <1>7, <1>8, MovedPasses DEF Looking
<1>10. /\ \A j \in Indices : InUse(j) /\ j # i => (Passed(j)' <=> Passed(j))
       /\ Passed(i)'
       /\ \A j \in Indices : ~Doomed(j)'
  <2>1. \A j \in Indices : InUse(j) /\ j # i => (Passed(j)' <=> Passed(j))
    BY <1>2, <1>9 DEF Passed, Indices, Looking
  <2>2. \A j \in Indices : ~Doomed(j)'
    BY <1>9 DEF Doomed
  <2>3. Passed(i)'
    <3>1. i < i + 1
      BY <1>2
    <3> QED BY <1>2, <1>9, <3>1
  <2> QED BY <2>1, <2>2, <2>3
<1>11. Kinds' /\ Identities' /\ Remembered' /\ UnloadReleasesAll'
  BY <1>1, <1>4, <1>9, CommonKept
<1>12. Slots'
  BY <1>1, <1>5, <1>8, SlotsSame DEF Sound
<1>13. Counted'
  BY <1>5, <1>8, <1>9, CountedSame DEF Sound
<1>14. ClonesFit'
  <2>1. ASSUME NEW j \in Indices, Clone(j), j \notin R PROVE StillFits(j, R, R)
    <3>1. j # i /\ j \in Nat
      BY <1>6, <2>1 DEF Master, Clone, Indices
    <3> QED BY <1>2, <1>4, <1>9, <2>1, <3>1 DEF StillFits
  <2> QED BY <1>1, <1>4, <1>9, <2>1, ClonesFitKept DEF Sound
<1>15. Framed'
  BY <1>4, <1>9, FramedNone DEF Sound, Looking
<1>16. Held'
  BY <1>9 DEF Held
<1>17. Refs'
  <2>1. ASSUME NEW x \in Indices, Master(x)', ~m_Handles'[x].is_destroying
        PROVE  Counts(x)'
    <3>1. Master(x) /\ InUse(x) /\ ~m_Handles[x].is_destroying /\ ~Doomed(x)
      BY <1>4, <1>8, <2>1 DEF Changed, Looking, Master, InUse
    <3>2. Counts(x) /\ m_Handles[x].refcount \in Int /\ Cardinality(Clones(x)) \in Nat
      BY <1>1, <3>1, MasterCounts
    <3>3. CASE x = i
      <4>1. m_Handles'[x].refcount = m_Handles[x].refcount - 1 /\ m_Handles'[x].set = m_Handles[x].set
        BY <1>4, <3>3 DEF Changed
      <4>2. Own(x)' = Own(x) - 1 /\ Own(x) \in Int
        BY <1>2, <1>10, <3>3, <4>1 DEF Own
      <4> QED BY <1>5, <1>8, <3>2, <3>3, <4>1, <4>2 DEF Counts
    <3>4. CASE x # i
      <4>1. Clones(x) \cap R = {}
        BY <1>3
      <4> QED BY <1>4, <1>10, <3>1, <3>2, <3>4, <4>1, CountsKept
    <3> QED BY <3>3, <3>4
  <2> QED BY <2>1 DEF Refs
<1>18. Gone'
  <2>1. /\ Gone
        /\ \A j \in Indices : Master(j) /\ j \notin R => (Doomed(j)' <=> Doomed(j))
        /\ \A j \in Indices : Master(j) /\ j \in R => m_Handles[j].is_destroying \/ Doomed(j)
    BY <1>4, <1>10 DEF Sound, Looking
  <2> QED BY <1>4, <1>5, <2>1, GoneKept
<1>19. OwnerChains'
  BY <1>1, <1>4, ChainsUntouched
<1> QED BY <1>9, <1>11, <1>12, <1>13, <1>14, <1>15, <1>16, <1>17, <1>18, <1>19 DEF Sound

(* A clone whose master has gone before it is released all the same. *)
LEMMA RemoveNextClone ==
    ASSUME Base, Sound, ~mangled', ~crashed, Looking, NEW i \in Indices, Sighted(i),
           NEW m \in Indices, m = MasterOf(i), NextClone(i, m),
           m_HandleTail' = m_HandleTail, types' = types, identity' = identity, given' = given,
           crashed' = crashed
    PROVE  Sound'
<1>1. HandleTypeOK /\ Shape /\ stack # <<>> /\ Top = stack[1] /\ Top.op = "type"
  BY DEF Base, Looking
<1>2. /\ InUse(i) /\ m_Handles[i].type = stack[1].type /\ i \in Nat /\ i >= stack[1].i
      /\ \A j \in Indices : InUse(j) /\ m_Handles[j].type = stack[1].type => Passed(j) \/ i <= j
      /\ \A j \in Indices : Clone(j) /\ m_Handles[j].type = stack[1].type => i <= j
  BY <1>1, SightedIs
<1>3. PICK R, F, D : R = {i} /\ F = {} /\ D = {}
  OBVIOUS
<1>4. /\ Changed(m_Handles', m_Handles, R, F, D, m) /\ Changed(m_Handles', m_Handles, R, F, {}, m)
      /\ \A j \in Indices : (j \in R <=> j = i) /\ j \notin F /\ j \notin D
      /\ \A j \in Indices : j \in F => m_Handles[j].set = "used" /\ InUse(j)
      /\ Unlinks(m_Handles', m_Handles, i)
  BY <1>3 DEF NextClone
<1>5. /\ m_Handles[m].refcount # 1 /\ m # i /\ m_FreeHandles' = Append(m_FreeHandles, i)
      /\ opened' = [opened EXCEPT ![m_Handles[i].type] = @ - 1]
      /\ destroyed' = destroyed /\ stack' = Scanned(i)
  BY <1>1, <1>2 DEF NextClone
<1>6. Clone(i) /\ m = m_Handles[i].clone
  BY <1>1, <1>5, SightedIs DEF MasterOf
<1>7. /\ i \in Clones(m) /\ ~Master(i) /\ m_Handles[i].set = "used" /\ ~m_Handles[i].is_destroying
      /\ m_Handles[i].clone # 0 /\ m_Handles[m].clone = 0 /\ m_Handles[i].type \in Types
  BY <1>1, <1>6, CloneIs
<1>8. MovedTo(i + 1, "look")
  BY <1>1, <1>5, ScannedIs
<1>9. /\ \A x : Clones(x)' = Clones(x) \ R
      /\ \A j \in Indices : /\ InUse(j)' <=> InUse(j) /\ j # i
                            /\ m_Handles'[j].type = m_Handles[j].type
                            /\ Master(j)' => Master(j) /\ j # i
  <2>1. /\ \A x : Clones(x)' = Clones(x) \ R
        /\ \A j \in Indices : /\ InUse(j)' <=> InUse(j) /\ j \notin R
                              /\ m_Handles'[j].type = m_Handles[j].type
                              /\ Master(j)' => Master(j) /\ j \notin R
    BY <1>4, ClonesLeft
  <2> QED BY <1>3, <2>1
<1>10. /\ Sweep' /\ SameSweep /\ Outermost' /\ stack' # <<>> /\ stack'[1].op = "type"
       /\ stack'[1].i = i + 1 /\ stack'[1].at = "look" /\ stack'[1].type = stack[1].type
       /\ \A n \in DOMAIN stack' : stack'[n].op # "free"
       /\ \A j \in Indices : Passed(j)' <=> (m_Handles[j].type = stack[1].type /\ j < i + 1)
  BY <1>8, <1>9, MovedPasses DEF Looking
<1>11. /\ \A j \in Indices : InUse(j) /\ j # i => (Passed(j)' <=> Passed(j))
       /\ \A j \in Indices : ~Doomed(j)'
  <2>1. \A j \in Indices : InUse(j) /\ j # i => (Passed(j)' <=> Passed(j))
    BY <1>2, <1>10 DEF Passed, Indices, Looking
  <2>2. \A j \in Indices : ~Doomed(j)'
    BY <1>10 DEF Doomed
  <2> QED BY <2>1, <2>2
<1>12. Kinds' /\ Identities' /\ Remembered' /\ UnloadReleasesAll'
  <2>1. \A j \in Indices : j \in R => m_Handles[j].set # "identity"
    BY <1>4, <1>7
  <2> QED BY <1>1, <1>4, <1>10, <2>1, CommonKept
<1>13. Slots'
  BY <1>1, <1>2, <1>5, <1>9, SlotsRelease DEF Sound
<1>14. Counted'
  BY <1>1, <1>2, <1>5, <1>7, <1>9, <1>10, CountedRelease DEF Sound
<1>15. ClonesFit'
  <2>1. ASSUME NEW j \in Indices, Clone(j), j \notin R PROVE StillFits(j, R, D)
    <3>1. j # i /\ j \in Nat /\ m_Handles[j].clone # i /\ m_Handles[j].clone \in Indices
      BY <1>1, <1>4, <1>7, <2>1, CloneIs DEF Indices
    <3>2. m_Handles[j].clone \notin R /\ m_Handles[j].clone \notin D
      BY <1>4, <3>1
    <3>3. Sweep /\ m_Handles[j].type = stack[1].type => j >= stack'[1].i
      BY <1>2, <1>10, <2>1, <3>1
    <3> QED BY <3>2, <3>3 DEF StillFits
  <2>2. ClonesFit /\ \A j \in Indices : j \in F \/ j \in D => m_Handles[j].clone = 0
    BY <1>4 DEF Sound
  <2> QED BY <1>1, <1>4, <1>10, <2>1, <2>2, ClonesFitKept
<1>16. Framed'
  BY <1>4, <1>10, FramedNone DEF Sound, Looking
<1>17. Held'
  BY <1>10 DEF Held
<1>18. Refs'
  <2>1. ASSUME NEW x \in Indices, Master(x)', ~m_Handles'[x].is_destroying
        PROVE  Counts(x)'
    <3>1. Master(x) /\ InUse(x) /\ x # i /\ ~m_Handles[x].is_destroying /\ ~Doomed(x)
      BY <1>4, <1>9, <2>1 DEF Changed, Looking, Master, InUse
    <3>2. /\ Counts(x) /\ m_Handles[x].refcount \in Int
          /\ Cardinality(Clones(x)) \in Nat /\ Clones(x) \in SUBSET Indices
      BY <1>1, <3>1, MasterCounts
    <3>3. CASE x = m
      <4>1. Cardinality(Clones(x)') = Cardinality(Clones(x)) - 1
        BY <1>3, <1>7, <1>9, <3>2, <3>3, CountDrop
      <4>2. m_Handles'[x].refcount = m_Handles[x].refcount - 1 /\ m_Handles'[x].set = m_Handles[x].set
        BY <1>4, <1>5, <3>3 DEF Changed
      <4>3. Own(x)' = Own(x) /\ Own(x) \in Int
        BY <1>11, <3>1, <4>2 DEF Own
      <4> QED BY <1>5, <3>2, <3>3, <4>1, <4>2, <4>3 DEF Counts
    <3>4. CASE x # m
      <4>1. Clones(x) \cap R = {} /\ x \notin R /\ x \notin F
        BY <1>3, <1>4, <1>6, <3>1, <3>4 DEF Clones
      <4> QED BY <1>4, <1>11, <3>1, <3>2, <3>4, <4>1, CountsKept
    <3> QED BY <3>3, <3>4
  <2> QED BY <2>1 DEF Refs
<1>19. Gone'
  <2>1. /\ Gone
        /\ \A j \in Indices : Master(j) /\ j \notin R => (Doomed(j)' <=> Doomed(j))
        /\ \A j \in Indices : Master(j) /\ j \in R => m_Handles[j].is_destroying \/ Doomed(j)
    BY <1>4, <1>7, <1>11 DEF Sound, Looking
  <2> QED BY <1>4, <1>5, <2>1, GoneKept
<1>20. OwnerChains'
  <2>1. m_Handles[i].set \in {"used", "freed"} /\ \A j \in Indices : j \in R \/ j \in F <=> j = i
    BY <1>4, <1>7
  <2> QED BY <1>1, <1>4, <2>1, ChainsReleased
<1> QED BY <1>10, <1>12, <1>13, <1>14, <1>15, <1>16, <1>17, <1>18, <1>19, <1>20 DEF Sound

LEMMA RemoveNextKept ==
    ASSUME Base, Sound, ~mangled', RemoveNext
    PROVE  Sound'
<1>1. /\ HandleTypeOK /\ ~crashed /\ At("type", "look")
      /\ m_HandleTail' = m_HandleTail /\ types' = types /\ identity' = identity /\ given' = given
      /\ crashed' = crashed
  BY DEF Base, RemoveNext, At
<1>2. Looking
  BY <1>1, LookingIs
<1>3. PICK i \in Indices : /\ Sighted(i)
                           /\ \/ NextDestroyed(i, MasterOf(i)) \/ NextMaster(i, MasterOf(i))
                              \/ NextClone(i, MasterOf(i))
  BY <1>1, RemoveNextIs
<1>4. PICK m \in Indices : m = MasterOf(i)
  BY <1>1, MasterOfTyped
<1>5. CASE NextDestroyed(i, m)
  BY <1>1, <1>2, <1>3, <1>4, <1>5, RemoveNextDestroyed
<1>6. CASE NextMaster(i, m)
  <2>1. m = i
    BY <1>6 DEF NextMaster
  <2>2. MasterOf(i) = i /\ NextMaster(i, i)
    BY <1>4, <1>6, <2>1
  <2> QED BY <1>1, <1>2, <1>3, <2>2, RemoveNextMaster
<1>7. CASE NextClone(i, m)
  BY <1>1, <1>2, <1>3, <1>4, <1>7, RemoveNextClone
<1> QED BY <1>3, <1>4, <1>5, <1>6, <1>7

(* OnHandleDestroy() that RemoveType() called returns: the handle i it had come
   to and that one's master m. *)
Waiting(i, m) ==
    /\ i \in Indices /\ m \in Indices /\ i \in Nat
    /\ stack # <<>> /\ Top = stack[1] /\ Top.op = "type" /\ Sweep /\ stack[1].i = i
    /\ stack[1].type \in Types \ types /\ MasterOf(i) = m
    /\ InUse(i) /\ Master(m) /\ InUse(m) /\ m_Handles[m].refcount <= 0
    /\ m_Handles[i].type = stack[1].type
    /\ \A j \in Indices : Doomed(j) <=> j = m
    /\ \A k \in DOMAIN stack : stack[k].op # "free"
    /\ \A j \in Indices : InUse(j) => ~m_Handles[j].is_destroying

LEMMA WaitingIs ==
    ASSUME Base, Sound, At("type", "destroy")
    PROVE  Waiting(Top.i, MasterOf(Top.i))
<1>1. HandleTypeOK /\ Shape /\ stack # <<>> /\ Top.op = "type" /\ Top.at = "destroy"
  BY DEF Base, At
<1>2. Len(stack) = 1 /\ DOMAIN stack = {1} /\ Top = stack[1]
  <2>1. Len(stack) = 1 /\ DOMAIN stack = 1..Len(stack) /\ Top = stack[Len(stack)]
    BY <1>1, TopTyped
  <2> QED BY <2>1
<1>3. stack[1].op = "type" /\ stack[1].at = "destroy" /\ Sweep
  BY <1>1, <1>2 DEF Sweep
<1>4. PICK i, m : i = Top.i /\ m = MasterOf(i)
  OBVIOUS
<1>5. /\ i \in Indices /\ m \in Indices /\ HeldBy(i, m) /\ stack[1].type \in Types \ types
  BY <1>1, <1>2, <1>3, <1>4, HeldIs
<1>6. /\ InUse(i) /\ Master(m) /\ InUse(m) /\ m_Handles[m].refcount <= 0
      /\ m_Handles[i].type = stack[1].type
  BY <1>5 DEF HeldBy, Master, InUse
<1>7. \A j \in Indices : Doomed(j) <=> j = m
  BY <1>2, <1>3, <1>4 DEF Doomed
<1>8. \A k \in DOMAIN stack : stack[k].op # "free"
  BY <1>2, <1>3
<1>9. \A j \in Indices : InUse(j) => ~m_Handles[j].is_destroying
  BY <1>8 DEF Sound, Framed
<1>10. i \in Nat
  BY <1>5 DEF Indices
<1> QED BY <1>1, <1>2, <1>3, <1>4, <1>5, <1>6, <1>7, <1>8, <1>9, <1>10 DEF Waiting

(* A master may be released before its clones; RemoveType() comes to them. *)
LEMMA RemoveReturnsOne ==
    ASSUME Base, Sound, ~mangled', ~crashed, NEW i \in Indices, Waiting(i, i), OneReleased(i),
           stack' = Scanned(i), destroyed' = destroyed,
           m_HandleTail' = m_HandleTail, types' = types, identity' = identity, given' = given,
           crashed' = crashed
    PROVE  Sound'
<1>1. HandleTypeOK /\ Shape /\ stack # <<>> /\ Top.op = "type" /\ Sweep
  BY DEF Base, Waiting
<1>2. /\ InUse(i) /\ Master(i) /\ m_Handles[i].type = stack[1].type /\ i \in Nat
      /\ i = stack[1].i /\ m_Handles[i].refcount <= 0 /\ m_Handles[i].type \in Types
      /\ \A j \in Indices : Doomed(j) <=> j = i
      /\ \A k \in DOMAIN stack : stack[k].op # "free"
  BY DEF Waiting
<1>3. PICK R, F, D : R = {i} /\ F = {} /\ D = {}
  OBVIOUS
<1>4. /\ Changed(m_Handles', m_Handles, R, F, D, 0) /\ Changed(m_Handles', m_Handles, R, F, {}, 0)
      /\ \A j \in Indices : (j \in R <=> j = i) /\ j \notin F /\ j \notin D
      /\ \A j \in Indices : j \in F => m_Handles[j].set = "used" /\ InUse(j)
      /\ Unlinks(m_Handles', m_Handles, i)
  BY <1>3 DEF OneReleased
<1>5. /\ m_FreeHandles' = Append(m_FreeHandles, i)
      /\ opened' = [opened EXCEPT ![m_Handles[i].type] = @ - 1]
  BY DEF OneReleased
<1>6. m_Handles[i].clone = 0 /\ m_Handles[i].set \in {"used", "freed"} /\ m_Handles[i].set # "identity"
  BY <1>2 DEF Master
<1>7. MovedTo(i + 1, "look")
  BY <1>1, ScannedIs
<1>8. \A j \in Indices : /\ InUse(j)' <=> InUse(j) /\ j # i
                         /\ m_Handles'[j].type = m_Handles[j].type
                         /\ Master(j)' => Master(j) /\ j # i
  <2>1. \A j \in Indices : /\ InUse(j)' <=> InUse(j) /\ j \notin R
                           /\ m_Handles'[j].type = m_Handles[j].type
                           /\ Master(j)' => Master(j) /\ j \notin R
    BY <1>4, ClonesLeft
  <2> QED BY <1>3, <2>1
<1>9. /\ Sweep' /\ SameSweep /\ Outermost' /\ stack' # <<>> /\ stack'[1].op = "type"
      /\ stack'[1].i = i + 1 /\ stack'[1].at = "look" /\ stack'[1].type = stack[1].type
      /\ \A n \in DOMAIN stack' : stack'[n].op # "free"
      /\ \A j \in Indices : Passed(j)' <=> (m_Handles[j].type = stack[1].type /\ j < i + 1)
  BY <1>1, <1>7, <1>8, MovedPasses
<1>10. /\ \A j \in Indices : j # i => (Passed(j)' <=> Passed(j))
       /\ \A j \in Indices : ~Doomed(j)'
  <2>1. \A j \in Indices : j # i => (Passed(j)' <=> Passed(j))
    BY <1>1, <1>2, <1>9 DEF Passed, Indices
  <2>2. \A j \in Indices : ~Doomed(j)'
    BY <1>9 DEF Doomed
  <2> QED BY <2>1, <2>2
<1>11. Kinds' /\ Identities' /\ Remembered' /\ UnloadReleasesAll'
  <2>1. \A j \in Indices : j \in R => m_Handles[j].set # "identity"
    BY <1>4, <1>6
  <2> QED BY <1>1, <1>4, <1>9, <2>1, CommonKept
<1>12. Slots'
  BY <1>1, <1>2, <1>5, <1>8, SlotsRelease DEF Sound
<1>13. Counted'
  BY <1>1, <1>2, <1>5, <1>8, <1>9, CountedRelease DEF Sound
<1>14. ClonesFit'
  <2>1. ASSUME NEW j \in Indices, Clone(j), j \notin R PROVE StillFits(j, R, D)
    <3>1. PICK x : x = m_Handles[j].clone
      OBVIOUS
    <3>2. /\ j # i /\ j \in Nat /\ x \in Indices /\ m_Handles[x].type = m_Handles[j].type
          /\ Sweep /\ m_Handles[j].type = stack[1].type => j >= stack[1].i
      BY <1>1, <1>4, <2>1, <3>1, CloneIs DEF Indices
    <3>3. x \in R => m_Handles[j].type = stack[1].type /\ m_Handles'[x].refcount <= 0
      BY <1>2, <1>4, <3>2, NotZero DEF Changed
    <3>4. Sweep /\ m_Handles[j].type = stack[1].type => j >= stack'[1].i
      BY <1>2, <1>9, <3>2
    <3>5. x \notin D
      BY <1>4, <3>2
    <3> QED BY <1>1, <3>1, <3>3, <3>4, <3>5 DEF StillFits
  <2>2. ClonesFit /\ \A j \in Indices : j \in F \/ j \in D => m_Handles[j].clone = 0
    BY <1>4 DEF Sound
  <2> QED BY <1>1, <1>4, <1>9, <2>1, <2>2, ClonesFitKept
<1>15. Framed'
  BY <1>2, <1>4, <1>9, FramedNone DEF Sound
<1>16. Held'
  BY <1>9 DEF Held
<1>17. Refs'
  <2>1. ASSUME NEW x \in Indices, Master(x)', ~m_Handles'[x].is_destroying
        PROVE  Counts(x)'
    <3>1. Master(x) /\ x # i /\ ~m_Handles[x].is_destroying /\ ~Doomed(x)
      BY <1>2, <1>4, <1>8, <2>1 DEF Changed
    <3>2. Counts(x)
      BY <1>1, <3>1, MasterCounts
    <3>3. Clones(x) \cap R = {} /\ x \notin R /\ x \notin F /\ x # 0
      BY <1>3, <1>4, <1>6, <3>1, NotZero DEF Clones
    <3> QED BY <1>4, <1>10, <3>1, <3>2, <3>3, CountsKept
  <2> QED BY <2>1 DEF Refs
<1>18. Gone'
  <2>1. /\ Gone
        /\ \A j \in Indices : Master(j) /\ j \notin R => (Doomed(j)' <=> Doomed(j))
        /\ \A j \in Indices : Master(j) /\ j \in R => m_Handles[j].is_destroying \/ Doomed(j)
    BY <1>2, <1>4, <1>10 DEF Sound
  <2> QED BY <1>4, <2>1, GoneKept
<1>19. OwnerChains'
  <2>1. \A j \in Indices : j \in R \/ j \in F <=> j = i
    BY <1>4
  <2> QED BY <1>1, <1>4, <1>6, <2>1, ChainsReleased
<1> QED BY <1>9, <1>11, <1>12, <1>13, <1>14, <1>15, <1>16, <1>17, <1>18, <1>19 DEF Sound

(* Two handles leave their chains one after the other. *)
LEMMA ChainsTwo ==
    ASSUME HandleTypeOK, Sound, identity' = identity, given' = given, ~mangled',
           NEW i \in Indices, NEW m \in Indices, m # i, Master(m), m_Handles[i].set = "used",
           NEW f, Changed(f, m_Handles, {m}, {}, {}, 0), Unlinks(f, m_Handles, m),
           Changed(m_Handles', f, {i}, {}, {}, 0), Unlinks(m_Handles', f, i)
    PROVE  OwnerChains'
<1>1. PICK h, g, ord : h = m_Handles /\ g = m_Handles' /\ ord = Made
  OBVIOUS
<1>2. ChainsIn(h, ord) /\ OwnHandles(h) /\ h \in Vectors /\ NULL \notin Tokens
  BY <1>1, ChainsAre, OwnHandlesIs, HandleConstants DEF Sound, HandleTypeOK, Vectors
<1>3. \A j \in Indices : h[j].set = "used" => ord[j] \in Nat /\ h[j].owner \in Live \cup {NULL}
  BY <1>1, MadeIs DEF Sound, InUse, UnloadReleasesAll
<1>4. /\ f \in Vectors /\ f[m].set = "none"
      /\ \A j \in Indices : /\ f[j].set = "used" <=> h[j].set = "used" /\ j # m
                            /\ f[j].owner = h[j].owner
                            /\ j # m => f[j].set = h[j].set
  BY <1>1 DEF Changed
<1>5. Unlinks(f, h, m) /\ h[m].set \in {"used", "freed"} /\ h[m].set # "identity"
  BY <1>1 DEF Master
<1>6. ChainsIn(f, ord)
  BY <1>2, <1>3, <1>4, <1>5, ChainsUnlinked
<1>7. OwnHandles(f)
  BY <1>2, <1>4, <1>5 DEF OwnHandles
<1>8. /\ g \in Vectors
      /\ \A j \in Indices : /\ g[j].set = "used" <=> f[j].set = "used" /\ j # i
                            /\ g[j].owner = f[j].owner
  BY <1>1 DEF Changed
<1>9. /\ Unlinks(g, f, i) /\ f[i].set = "used" /\ f[i].set \in {"used", "freed"}
      /\ f[i].owner \in Live \cup {NULL}
      /\ \A j \in Indices : f[j].set = "used" => ord[j] \in Nat
  BY <1>1, <1>3, <1>4
<1>10. ChainsIn(g, ord)
  BY <1>2, <1>4, <1>6, <1>7, <1>8, <1>9, ChainsUnlinked
<1>11. Live' = Live /\ Made' = Made
  BY DEF Live, Made, MadeAs
<1>12. ChainsIn(m_Handles, Made)'
  BY <1>1, <1>10, <1>11 DEF ChainsIn
<1> QED BY <1>12, ChainsAreNext

LEMMA RemoveReturnsTwo ==
    ASSUME Base, Sound, ~mangled', ~crashed, NEW i \in Indices, NEW m \in Indices, m # i,
           Waiting(i, m), NEW f, TwoReleased(f, i, m),
           stack' = Scanned(i), destroyed' = destroyed,
           m_HandleTail' = m_HandleTail, types' = types, identity' = identity, given' = given,
           crashed' = crashed
    PROVE  Sound'
<1>1. HandleTypeOK /\ Shape /\ stack # <<>> /\ Top.op = "type" /\ Sweep
  BY DEF Base, Waiting
<1>2. /\ InUse(i) /\ Master(m) /\ InUse(m) /\ m_Handles[i].type = stack[1].type /\ i \in Nat
      /\ i = stack[1].i /\ m_Handles[m].refcount <= 0 /\ stack[1].type \in Types
      /\ \A j \in Indices : Doomed(j) <=> j = m
      /\ \A k \in DOMAIN stack : stack[k].op # "free"
      /\ MasterOf(i) = m
  BY DEF Waiting
<1>3. Clone(i) /\ m_Handles[i].clone = m
  BY <1>2 DEF Clone, MasterOf, InUse
<1>4. /\ m_Handles[i].set = "used" /\ ~Master(i) /\ m_Handles[m].type = m_Handles[i].type
      /\ m_Handles[m].clone = 0 /\ m_Handles[i].clone # 0
      /\ m_Handles[m].set # "identity" /\ m_Handles[i].set # "identity"
  BY <1>1, <1>2, <1>3, CloneIs DEF Master
<1>5. PICK R, F, D : R = {m, i} /\ F = {} /\ D = {}
  OBVIOUS
<1>6. /\ Changed(m_Handles', m_Handles, R, F, D, 0) /\ Changed(m_Handles', m_Handles, R, F, {}, 0)
      /\ \A j \in Indices : (j \in R <=> j = i \/ j = m) /\ j \notin F /\ j \notin D
      /\ \A j \in Indices : j \in F => m_Handles[j].set = "used" /\ InUse(j)
  BY <1>5, ThenSecond DEF TwoReleased
<1>7. MovedTo(i + 1, "look")
  BY <1>1, ScannedIs
<1>8. \A j \in Indices : /\ InUse(j)' <=> InUse(j) /\ j # i /\ j # m
                         /\ m_Handles'[j].type = m_Handles[j].type
                         /\ Master(j)' => Master(j) /\ j # i /\ j # m
  <2>1. \A j \in Indices : /\ InUse(j)' <=> InUse(j) /\ j \notin R
                           /\ m_Handles'[j].type = m_Handles[j].type
                           /\ Master(j)' => Master(j) /\ j \notin R
    BY <1>6, ClonesLeft
  <2> QED BY <1>5, <2>1
<1>9. /\ Sweep' /\ SameSweep /\ Outermost' /\ stack' # <<>> /\ stack'[1].op = "type"
      /\ stack'[1].i = i + 1 /\ stack'[1].at = "look" /\ stack'[1].type = stack[1].type
      /\ \A n \in DOMAIN stack' : stack'[n].op # "free"
      /\ \A j \in Indices : Passed(j)' <=> (m_Handles[j].type = stack[1].type /\ j < i + 1)
  BY <1>1, <1>7, <1>8, MovedPasses
<1>10. /\ \A j \in Indices : j # i => (Passed(j)' <=> Passed(j))
       /\ \A j \in Indices : ~Doomed(j)'
  <2>1. \A j \in Indices : j # i => (Passed(j)' <=> Passed(j))
    BY <1>1, <1>2, <1>9 DEF Passed, Indices
  <2>2. \A j \in Indices : ~Doomed(j)'
    BY <1>9 DEF Doomed
  <2> QED BY <2>1, <2>2
<1>11. Kinds' /\ Identities' /\ Remembered' /\ UnloadReleasesAll'
  <2>1. \A j \in Indices : j \in R => m_Handles[j].set # "identity"
    BY <1>4, <1>6
  <2> QED BY <1>1, <1>6, <1>9, <2>1, CommonKept
<1>12. Slots'
  <2>1. m_FreeHandles' = Append(Append(m_FreeHandles, m), i)
    BY DEF TwoReleased
  <2> QED BY <1>1, <1>2, <1>8, <2>1, SlotsReleaseTwo DEF Sound
<1>13. Counted'
  <2>1. PICK t \in Types : t = stack[1].type
    BY <1>2
  <2>2. m_Handles[i].type = t /\ m_Handles[m].type = t /\ Sweeps(t)
    BY <1>1, <1>2, <1>4, <2>1 DEF Sweeps
  <2>3. PICK o : o = [opened EXCEPT ![t] = @ - 1] /\ opened' = [o EXCEPT ![t] = @ - 1]
    BY <2>2 DEF TwoReleased
  <2> QED BY <1>1, <1>2, <1>8, <1>9, <2>2, <2>3, CountedReleaseTwo DEF Sound
<1>14. ClonesFit'
  <2>1. ASSUME NEW j \in Indices, Clone(j), j \notin R PROVE StillFits(j, R, D)
    <3>1. PICK x : x = m_Handles[j].clone
      OBVIOUS
    <3>2. /\ j # i /\ j \in Nat /\ x \in Indices /\ m_Handles[x].type = m_Handles[j].type
          /\ m_Handles[x].clone = 0
          /\ Sweep /\ m_Handles[j].type = stack[1].type => j >= stack[1].i
      BY <1>1, <1>6, <2>1, <3>1, CloneIs DEF Indices
    <3>3. x \in R => x = m
      BY <1>4, <1>6, <3>2
    <3>4. x \in R => m_Handles[j].type = stack[1].type /\ m_Handles'[x].refcount <= 0
      BY <1>2, <1>4, <1>6, <3>2, <3>3, NotZero DEF Changed
    <3>5. Sweep /\ m_Handles[j].type = stack[1].type => j >= stack'[1].i
      BY <1>2, <1>9, <3>2
    <3>6. x \notin D
      BY <1>6, <3>2
    <3> QED BY <1>1, <3>1, <3>4, <3>5, <3>6 DEF StillFits
  <2>2. ClonesFit /\ \A j \in Indices : j \in F \/ j \in D => m_Handles[j].clone = 0
    BY <1>6 DEF Sound
  <2> QED BY <1>1, <1>6, <1>9, <2>1, <2>2, ClonesFitKept
<1>15. Framed'
  BY <1>2, <1>6, <1>9, FramedNone DEF Sound
<1>16. Held'
  BY <1>9 DEF Held
<1>17. Refs'
  <2>1. ASSUME NEW x \in Indices, Master(x)', ~m_Handles'[x].is_destroying
        PROVE  Counts(x)'
    <3>1. Master(x) /\ x # i /\ x # m /\ ~m_Handles[x].is_destroying /\ ~Doomed(x)
      BY <1>2, <1>6, <1>8, <2>1 DEF Changed
    <3>2. Counts(x)
      BY <1>1, <3>1, MasterCounts
    <3>3. Clones(x) \cap R = {} /\ x \notin R /\ x \notin F /\ x # 0
      BY <1>3, <1>4, <1>5, <1>6, <3>1, NotZero DEF Clones
    <3> QED BY <1>6, <1>10, <3>1, <3>2, <3>3, CountsKept
  <2> QED BY <2>1 DEF Refs
<1>18. Gone'
  <2>1. /\ Gone
        /\ \A j \in Indices : Master(j) /\ j \notin R => (Doomed(j)' <=> Doomed(j))
        /\ \A j \in Indices : Master(j) /\ j \in R => m_Handles[j].is_destroying \/ Doomed(j)
    BY <1>2, <1>4, <1>6, <1>10 DEF Sound
  <2> QED BY <1>6, <2>1, GoneKept
<1>19. OwnerChains'
  BY <1>1, <1>2, <1>4, ChainsTwo DEF TwoReleased
<1> QED BY <1>9, <1>11, <1>12, <1>13, <1>14, <1>15, <1>16, <1>17, <1>18, <1>19 DEF Sound

LEMMA RemoveReturnsKept ==
    ASSUME Base, Sound, ~mangled', RemoveReturns
    PROVE  Sound'
<1>1. /\ HandleTypeOK /\ Shape /\ ~crashed /\ At("type", "destroy") /\ destroyed' = destroyed
      /\ m_HandleTail' = m_HandleTail /\ types' = types /\ identity' = identity /\ given' = given
      /\ crashed' = crashed
  BY DEF Base, RemoveReturns, At
<1>2. PICK i, m : i = Top.i /\ m = MasterOf(i)
  OBVIOUS
<1>3. /\ i \in Indices /\ m \in Indices /\ stack' = Scanned(i)
      /\ m = i => OneReleased(i)
      /\ m # i => \E f : TwoReleased(f, i, m)
  BY <1>1, <1>2, RemoveReturnsIs
<1>4. Waiting(i, m)
  BY <1>1, <1>2, WaitingIs
<1>5. CASE m = i
  BY <1>1, <1>3, <1>4, <1>5, RemoveReturnsOne
<1>6. CASE m # i
  BY <1>1, <1>3, <1>4, <1>6, RemoveReturnsTwo
<1> QED BY <1>5, <1>6

-----------------------------------------------------------------------------
(***************************************************************************)
(* MakePrimHandle().                                                       *)
(***************************************************************************)
(* The vector with the new handle at i; its master has one reference more. *)
NewVector(i, set, type, object, owner, clone) ==
    /\ m_Handles' \in Vectors
    /\ \A j \in Indices : j # i =>
         /\ m_Handles'[j].set = m_Handles[j].set /\ m_Handles'[j].type = m_Handles[j].type
         /\ m_Handles'[j].object = m_Handles[j].object /\ m_Handles'[j].owner = m_Handles[j].owner
         /\ m_Handles'[j].serial = m_Handles[j].serial /\ m_Handles'[j].clone = m_Handles[j].clone
         /\ m_Handles'[j].is_destroying = m_Handles[j].is_destroying
         /\ m_Handles'[j].refcount =
               IF j = clone THEN m_Handles[j].refcount + 1 ELSE m_Handles[j].refcount
    /\ m_Handles'[i].set = set /\ m_Handles'[i].type = type /\ m_Handles'[i].object = object
    /\ m_Handles'[i].owner = owner /\ m_Handles'[i].clone = clone
    /\ m_Handles'[i].serial = NextSerial /\ m_Handles'[i].refcount = 1
    /\ m_Handles'[i].is_destroying = FALSE

(* The value n that is given out for index i and object v. *)
NewValue(i, n, v) ==
    /\ n = Len(given) + 1 /\ n \in 1..MaxMade /\ Len(given) \in Nat /\ Len(given') = n
    /\ n \in DOMAIN given' /\ n \notin DOMAIN given
    /\ \A k \in DOMAIN given : k \in Nat /\ k < n /\ k \in DOMAIN given' /\ given'[k] = given[k]
    /\ \A k \in DOMAIN given' : k = n \/ k \in DOMAIN given
    /\ given'[n].index = i /\ given'[n].serial = NextSerial /\ given'[n].object = v

LEMMA SlotTaken ==
    ASSUME HandleTypeOK, Slots, CanAlloc, NEW i, i = TryAllocHandle
    PROVE  ~InUse(i) /\ i \in Indices
<1>1. i \in Indices
  BY AllocTyped
<1>2. CASE m_FreeHandles = <<>>
  <2>1. i = m_HandleTail + 1 /\ m_HandleTail \in Nat
    BY <1>2, HandleConstants DEF TryAllocHandle, HandleTypeOK
  <2>2. i \in (m_HandleTail + 1)..MaxHandles
    BY <1>1, <2>1, HandleConstants DEF Indices
  <2> QED BY <1>1, <2>2 DEF Slots
<1>3. CASE m_FreeHandles # <<>>
  <2>1. Len(m_FreeHandles) \in DOMAIN m_FreeHandles /\ i = m_FreeHandles[Len(m_FreeHandles)]
    BY <1>3, LenProperties, EmptySeq DEF HandleTypeOK, TryAllocHandle
  <2>2. i \in ToSet(m_FreeHandles)
    BY <2>1 DEF ToSet
  <2> QED BY <1>1, <2>2 DEF Slots
<1> QED BY <1>2, <1>3

LEMMA SlotsMade ==
    ASSUME HandleTypeOK, Slots, CanAlloc, NEW i, i = TryAllocHandle,
           m_FreeHandles' = IF m_FreeHandles = <<>> THEN <<>>
                            ELSE SubSeq(m_FreeHandles, 1, Len(m_FreeHandles) - 1),
           m_HandleTail' = IF m_FreeHandles = <<>> THEN i ELSE m_HandleTail,
           \A j \in Indices : InUse(j)' <=> InUse(j) \/ j = i
    PROVE  Slots'
<1>1. i \in Indices /\ ~InUse(i) /\ i \in Nat
  BY SlotTaken DEF Indices
<1>2. m_HandleTail \in Nat /\ m_HandleTail <= MaxHandles
  BY HandleConstants DEF HandleTypeOK
<1>3. CASE m_FreeHandles = <<>>
  <2>1. i = m_HandleTail + 1 /\ m_FreeHandles' = <<>> /\ m_HandleTail' = i
    BY <1>3 DEF TryAllocHandle
  <2>2. \A j \in 1..m_HandleTail : InUse(j)
    BY <1>3, EmptyIs DEF Slots
  <2>3. \A j \in 1..i : j = i \/ (j \in 1..m_HandleTail /\ j \in Indices)
    BY <1>1, <1>2, <2>1, HandleConstants DEF Indices
  <2>4. \A j \in 1..i : InUse(j)'
    BY <1>1, <2>2, <2>3
  <2>5. \A j \in (i + 1)..MaxHandles : j \in (m_HandleTail + 1)..MaxHandles /\ j \in Indices /\ j # i
    BY <1>1, <1>2, <2>1, HandleConstants DEF Indices
  <2>6. \A j \in (i + 1)..MaxHandles : ~InUse(j)'
    BY <2>5 DEF Slots
  <2>7. {j \in 1..m_HandleTail : ~InUse(j)}' = {}
    BY <2>1, <2>4
  <2> QED BY <2>1, <2>6, <2>7, EmptyIs DEF Slots
<1>4. CASE m_FreeHandles # <<>>
  <2>1. PICK s, q : s = m_FreeHandles /\ q = m_FreeHandles'
    OBVIOUS
  <2>2. /\ s \in Seq(Indices) /\ s # <<>> /\ q = SubSeq(s, 1, Len(s) - 1) /\ i = s[Len(s)]
        /\ m_HandleTail' = m_HandleTail
    BY <1>4, <2>1 DEF HandleTypeOK, TryAllocHandle
  <2>3. /\ DOMAIN s = 1..Len(s) /\ DOMAIN q = 1..(Len(s) - 1) /\ Len(s) \in Nat \ {0}
        /\ \A k \in DOMAIN q : k \in DOMAIN s /\ k # Len(s) /\ q[k] = s[k]
    BY <2>2, PoppedIs
  <2>4. IsInjective(s) /\ ToSet(s) = {j \in 1..m_HandleTail : ~InUse(j)}
    BY <2>1 DEF Slots
  <2>5. \A a, b \in DOMAIN s : s[a] = s[b] => a = b
    BY <2>4 DEF IsInjective
  <2>6. IsInjective(q)
    BY <2>3, <2>5 DEF IsInjective
  <2>7. \A k \in DOMAIN s : k = Len(s) \/ k \in DOMAIN q
    BY <2>3
  <2>8. ToSet(q) = ToSet(s) \ {i}
    <3>1. ASSUME NEW x \in ToSet(q) PROVE x \in ToSet(s) /\ x # i
      <4>1. PICK k \in DOMAIN q : x = q[k]
        BY <3>1 DEF ToSet
      <4>2. k \in DOMAIN s /\ x = s[k] /\ k # Len(s) /\ Len(s) \in DOMAIN s
        BY <2>3, <4>1
      <4> QED BY <2>2, <2>5, <4>2 DEF ToSet
    <3>2. ASSUME NEW x \in ToSet(s), x # i PROVE x \in ToSet(q)
      <4>1. PICK k \in DOMAIN s : x = s[k]
        BY <3>2 DEF ToSet
      <4>2. k \in DOMAIN q /\ x = q[k]
        BY <2>2, <2>3, <2>7, <3>2, <4>1
      <4> QED BY <4>2 DEF ToSet
    <3> QED BY <3>1, <3>2
  <2>9. 1..m_HandleTail \subseteq Indices /\ (m_HandleTail + 1)..MaxHandles \subseteq Indices
    BY <1>2, HandleConstants DEF Indices
  <2>10. {j \in 1..m_HandleTail : ~InUse(j)}' = {j \in 1..m_HandleTail : ~InUse(j)} \ {i}
    BY <2>2, <2>9
  <2>11. i \in 1..m_HandleTail
    <3>1. Len(s) \in DOMAIN s
      BY <2>3
    <3>2. i \in ToSet(s)
      BY <2>2, <3>1 DEF ToSet
    <3> QED BY <2>4, <3>2
  <2>12. \A j \in (m_HandleTail + 1)..MaxHandles : ~InUse(j)'
    BY <1>2, <2>9, <2>11 DEF Slots
  <2> QED BY <2>1, <2>2, <2>4, <2>6, <2>8, <2>10, <2>12 DEF Slots
<1> QED BY <1>3, <1>4

(* The vector the caller has prepared: clone has one reference more. *)
Prepared(h, clone) ==
    /\ h \in Vectors /\ SameLinks(h, m_Handles)
    /\ \A j \in Indices :
         /\ h[j].set = m_Handles[j].set /\ h[j].type = m_Handles[j].type
         /\ h[j].object = m_Handles[j].object /\ h[j].owner = m_Handles[j].owner
         /\ h[j].serial = m_Handles[j].serial /\ h[j].clone = m_Handles[j].clone
         /\ h[j].is_destroying = m_Handles[j].is_destroying
         /\ h[j].refcount = IF j = clone THEN m_Handles[j].refcount + 1 ELSE m_Handles[j].refcount

(* Whose chain the new handle joins, and which object its value stands for. *)
OwnersHandle(set, owner, id) ==
    id = IF set = "identity" \/ owner = NULL THEN 0 ELSE identity[owner]
NewObject(h, clone, object, v) == v = IF clone = 0 THEN object ELSE h[clone].object

(* What MakePrimHandle() does when its index was not mangled. *)
LEMMA MakeEffect ==
    ASSUME HandleTypeOK, Sound, ~GivenOutTwice, NEW set \in {"used", "identity"},
           NEW type \in Types \cup {NULL}, NEW object \in 0..MaxMade,
           NEW owner \in Live \cup {NULL}, NEW clone \in Links, NEW h, Prepared(h, clone),
           MakePrimHandle(h, set, type, object, owner, clone), NEW i, i = TryAllocHandle,
           NEW v, NewObject(h, clone, object, v)
    PROVE  /\ i \in Indices /\ ~InUse(i) /\ Clones(i) = {} /\ ~crashed /\ Slots'
           /\ NewVector(i, set, type, object, owner, clone)
           /\ NewValue(i, Len(given) + 1, v)
<1>0. h \in Vectors
  BY DEF Prepared
<1>1. i \in Indices /\ ~InUse(i)
  BY SlotTaken DEF MakePrimHandle, Sound
<1>2. ~crashed /\ Clones(i) = {} /\ Len(given) < MaxMade /\ CanAlloc
  BY DEF MakePrimHandle, GivenOutTwice
<1>3. NewVector(i, set, type, object, owner, clone)
  <2>1. MadeAt(i, m_Handles', h, set, type, object, owner, clone)
    BY <1>0, MakeIs
  <2>2. \A j \in Indices : j # i => SameBook(m_Handles'[j], h[j])
    BY <2>1 DEF MadeAt
  <2>3. ASSUME NEW j \in Indices, j # i
        PROVE /\ m_Handles'[j].set = m_Handles[j].set /\ m_Handles'[j].type = m_Handles[j].type
              /\ m_Handles'[j].object = m_Handles[j].object /\ m_Handles'[j].owner = m_Handles[j].owner
              /\ m_Handles'[j].serial = m_Handles[j].serial /\ m_Handles'[j].clone = m_Handles[j].clone
              /\ m_Handles'[j].is_destroying = m_Handles[j].is_destroying
              /\ m_Handles'[j].refcount =
                    IF j = clone THEN m_Handles[j].refcount + 1 ELSE m_Handles[j].refcount
    BY <2>2, <2>3 DEF SameBook, Prepared
  <2> QED BY <2>1, <2>3 DEF MadeAt, NewVector
<1>4. Slots'
  <2>1. \A j \in Indices : InUse(j)' <=> InUse(j) \/ j = i
    BY <1>3 DEF NewVector, InUse
  <2>2. /\ m_FreeHandles' = IF m_FreeHandles = <<>> THEN <<>>
                            ELSE SubSeq(m_FreeHandles, 1, Len(m_FreeHandles) - 1)
        /\ m_HandleTail' = IF m_FreeHandles = <<>> THEN i ELSE m_HandleTail
    BY DEF MakePrimHandle
  <2> QED BY <1>2, <2>1, <2>2, SlotsMade DEF Sound
<1>5. NewValue(i, Len(given) + 1, v)
  <2>1. PICK w : w = [index |-> i, serial |-> NextSerial, object |-> v]
    OBVIOUS
  <2>2. w.index = i /\ w.serial = NextSerial /\ w.object = v
    BY <2>1
  <2>3. v \in 0..MaxMade
    <3>1. clone # 0 => clone \in Indices
      BY DEF Links, Indices
    <3> QED BY <1>0, <3>1 DEF Vectors, QHandles, NewObject
  <2>4. w \in Values
    BY <1>1, <2>1, <2>3, NextSerialTyped DEF Values
  <2>5. given \in Seq(Values) /\ given' = Append(given, w)
    BY <2>1 DEF HandleTypeOK, MakePrimHandle, NewObject
  <2>6. PICK q : q = given'
    OBVIOUS
  <2>7. /\ Len(q) = Len(given) + 1 /\ Len(given) \in Nat /\ DOMAIN given = 1..Len(given)
        /\ DOMAIN q = 1..(Len(given) + 1) /\ q[Len(given) + 1] = w
        /\ \A k \in DOMAIN given : k \in DOMAIN q /\ q[k] = given[k]
        /\ \A k \in DOMAIN q : k = Len(given) + 1 \/ k \in DOMAIN given
    BY <2>4, <2>5, <2>6, PushedIs
  <2>8. Len(given) + 1 \in 1..MaxMade
    BY <1>2, <2>7, HandleConstants
  <2>9. Len(given) + 1 \in DOMAIN q /\ Len(given) + 1 \notin DOMAIN given
        /\ \A k \in DOMAIN given : k \in Nat /\ k < Len(given) + 1
    BY <2>7
  <2> QED BY <2>2, <2>6, <2>7, <2>8, <2>9 DEF NewValue
<1> QED BY <1>1, <1>2, <1>3, <1>4, <1>5

(* What the callers of MakePrimHandle() make: an identity, a master with a new
   object n, or a clone of a master. *)
NewFits(set, type, object, owner, clone, n) ==
    /\ set \in {"used", "identity"} /\ owner \in Live \cup {NULL}
    /\ set = "identity" => type = NULL /\ object = 0 /\ clone = 0
    /\ set = "used" => type \in types
    /\ set = "used" /\ clone = 0 => object = n
    /\ clone # 0 => /\ set = "used" /\ clone \in Indices /\ Master(clone)
                    /\ m_Handles[clone].type = type /\ ~BeyondUse(clone)

(* The other handles are in use, or clones of whom, as they were. *)
Others(i, clone) ==
    /\ i # 0 /\ i # clone
    /\ \A x : x # clone => Clones(x)' = Clones(x)
    /\ clone # 0 => Clones(clone)' = Clones(clone) \cup {i} /\ i \notin Clones(clone)
    /\ \A j \in Indices : j # i => /\ InUse(j)' <=> InUse(j)
                                   /\ Master(j)' <=> Master(j)
                                   /\ Clone(j)' <=> Clone(j)
                                   /\ MasterOf(j)' = MasterOf(j)
    /\ \A j \in Indices : InUse(j) => /\ j # i /\ MasterOf(j) # i /\ MasterOf(j) \in Indices
                                      /\ ObjectAt(j)' = ObjectAt(j)

LEMMA OthersAre ==
    ASSUME HandleTypeOK, NEW i \in Indices, ~InUse(i), Clones(i) = {}, NEW n,
           NEW set, NEW type, NEW object, NEW owner, NEW clone,
           NewFits(set, type, object, owner, clone, n),
           NewVector(i, set, type, object, owner, clone)
    PROVE  Others(i, clone)
<1>1. i # 0 /\ i # clone /\ m_Handles[i].set = "none" /\ set # "none"
  BY NotZero DEF NewFits, Master, InUse
<1>2. \A j \in Indices : j # i =>
         m_Handles'[j].set = m_Handles[j].set /\ m_Handles'[j].clone = m_Handles[j].clone
         /\ m_Handles'[j].object = m_Handles[j].object
  BY DEF NewVector
<1>3. m_Handles'[i].set = set /\ m_Handles'[i].clone = clone
  BY DEF NewVector
<1>4. \A x : x # clone => Clones(x)' = Clones(x)
  BY <1>1, <1>2, <1>3 DEF Clones
<1>5. Clones(clone)' = Clones(clone) \cup {i} /\ i \notin Clones(clone)
  BY <1>1, <1>2, <1>3 DEF Clones
<1>6. \A j \in Indices : j # i => /\ InUse(j)' <=> InUse(j)
                                  /\ Master(j)' <=> Master(j)
                                  /\ Clone(j)' <=> Clone(j)
                                  /\ MasterOf(j)' = MasterOf(j)
  BY <1>2 DEF InUse, Master, Clone, MasterOf
<1>7. ASSUME NEW j \in Indices, InUse(j)
      PROVE  j # i /\ MasterOf(j) # i /\ MasterOf(j) \in Indices /\ ObjectAt(j)' = ObjectAt(j)
  <2>1. j # i
    BY <1>7
  <2>2. m_Handles[j].clone # i
    BY <1>7 DEF Clones, InUse
  <2>3. MasterOf(j) # i /\ MasterOf(j) \in Indices
    BY <2>1, <2>2, MasterOfTyped DEF MasterOf
  <2> QED BY <1>2, <1>6, <2>1, <2>3 DEF ObjectAt
<1> QED BY <1>1, <1>4, <1>5, <1>6, <1>7 DEF Others

LEMMA MadeKinds ==
    ASSUME HandleTypeOK, Shape, Sound, NEW i \in Indices, NEW n,
           NEW set, NEW type, NEW object, NEW owner, NEW clone,
           NewFits(set, type, object, owner, clone, n),
           NewVector(i, set, type, object, owner, clone), Others(i, clone),
           stack' = stack, Live \subseteq Live'
    PROVE  Kinds' /\ ClonesFit' /\ Framed' /\ Held' /\ UnloadReleasesAll' /\ Outermost'
<1>1. /\ m_Handles'[i].set = set /\ m_Handles'[i].type = type /\ m_Handles'[i].object = object
      /\ m_Handles'[i].clone = clone /\ m_Handles'[i].owner = owner
      /\ ~m_Handles'[i].is_destroying
  BY DEF NewVector
<1>2. \A j \in Indices : j # i =>
         /\ m_Handles'[j].set = m_Handles[j].set /\ m_Handles'[j].type = m_Handles[j].type
         /\ m_Handles'[j].object = m_Handles[j].object /\ m_Handles'[j].owner = m_Handles[j].owner
         /\ m_Handles'[j].clone = m_Handles[j].clone
         /\ m_Handles'[j].is_destroying = m_Handles[j].is_destroying
         /\ j # clone => m_Handles'[j].refcount = m_Handles[j].refcount
  BY DEF NewVector
<1>3. Kinds'
  <2>1. \A j \in Indices : j # i /\ InUse(j)' =>
           /\ m_Handles'[j].set = "identity" => m_Handles'[j].type = NULL
                                                /\ m_Handles'[j].clone = 0 /\ m_Handles'[j].object = 0
           /\ m_Handles'[j].set # "identity" => m_Handles'[j].type \in Types
    BY <1>2 DEF Sound, Kinds, Others
  <2>2. /\ m_Handles'[i].set = "identity" => m_Handles'[i].type = NULL
                                             /\ m_Handles'[i].clone = 0 /\ m_Handles'[i].object = 0
        /\ m_Handles'[i].set # "identity" => m_Handles'[i].type \in Types
    BY <1>1 DEF NewFits, HandleTypeOK
  <2> QED BY <2>1, <2>2 DEF Kinds
<1>4. UnloadReleasesAll'
  <2>1. \A j \in Indices : m_Handles'[j].set = "used" => m_Handles'[j].owner \in Live \cup {NULL}
    BY <1>1, <1>2 DEF Sound, UnloadReleasesAll, NewFits
  <2> QED BY <2>1 DEF UnloadReleasesAll
<1>5. (Sweep' <=> Sweep) /\ Outermost'
  BY DEF Sweep, Sound, Outermost
<1>6. ClonesFit'
  <2> SUFFICES ASSUME NEW j \in Indices, Clone(j)'
               PROVE  CloneFits(j, m_Handles[j].clone)'
    BY DEF ClonesFit
  <2>0. PICK x : x = m_Handles'[j].clone
    OBVIOUS
  <2>1. CASE j # i
    <3>1. Clone(j) /\ x = m_Handles[j].clone /\ InUse(j)
      BY <1>2, <2>0, <2>1 DEF Others, Clone, InUse
    <3>2. x = MasterOf(j) /\ x \in Indices /\ x # i /\ CloneFits(j, x)
      BY <3>1 DEF Others, MasterOf, Clone, Sound, ClonesFit
    <3>3. InUse(x)' <=> InUse(x)
      BY <3>2 DEF Others
    <3>4. ~InUse(x) => x # clone
      BY <3>2, NotZero DEF NewFits, Master, InUse
    <3>5. CloneFits(j, x)'
      BY <1>2, <1>5, <2>1, <3>2, <3>3, <3>4 DEF CloneFits
    <3> QED BY <2>0, <3>5
  <2>2. CASE j = i
    <3>1. /\ x = clone /\ clone # 0 /\ clone \in Indices /\ clone # i /\ Master(clone)
          /\ m_Handles[clone].type = type /\ ~BeyondUse(clone) /\ set = "used"
          /\ type \in types
      BY <1>1, <2>0, <2>2 DEF Clone, NewFits, Others
    <3>2. InUse(x) /\ m_Handles[x].clone = 0
      BY <3>1 DEF Master, InUse
    <3>3. ~m_Handles[x].is_destroying
      BY <3>1 DEF BeyondUse
    <3>4. InUse(x)' /\ ~(Sweep' /\ type = stack'[1].type)
      <4>1. Sweep => 1 \in DOMAIN stack
        BY LenProperties, EmptySeq DEF Sweep, HandleTypeOK
      <4>2. Sweep => stack[1].type \notin types
        BY <4>1 DEF Sweep, Shape
      <4> QED BY <1>5, <3>1, <3>2, <4>2 DEF Others
    <3>5. CloneFits(j, x)'
      BY <1>1, <1>2, <2>2, <3>1, <3>2, <3>3, <3>4 DEF CloneFits
    <3> QED BY <2>0, <3>5
  <2> QED BY <2>1, <2>2
<1>7. Framed'
  <2>1. \A k \in DOMAIN stack : stack[k].op = "free" =>
           stack[k].i \in Indices /\ Master(stack[k].i) /\ m_Handles[stack[k].i].is_destroying
    BY DEF Sound, Framed, Shape
  <2>2. \A j \in Indices : Master(j) => j # i /\ Master(j)'
    BY DEF Others, Master, InUse
  <2>3. \A k \in DOMAIN stack : stack[k].op = "free" =>
           Master(stack[k].i)' /\ m_Handles'[stack[k].i].is_destroying
    BY <1>2, <2>1, <2>2
  <2>4. \A j \in Indices : InUse(j)' /\ m_Handles'[j].is_destroying =>
           \E k \in DOMAIN stack : stack[k].op = "free" /\ stack[k].i = j
    BY <1>1, <1>2 DEF Others, Sound, Framed
  <2>5. \A j, k \in DOMAIN stack : stack[j].op = "free" /\ stack[k].op = "free"
                                   /\ stack[j].i = stack[k].i => j = k
    BY DEF Sound, Framed
  <2> QED BY <2>3, <2>4, <2>5 DEF Framed
<1>8. Held'
  <2> SUFFICES ASSUME Sweep', stack'[1].at = "destroy"
               PROVE  HeldBy(stack[1].i, MasterOf(stack[1].i))'
    BY DEF Held
  <2>1. PICK j, m : j = stack[1].i /\ m = MasterOf(j)
    OBVIOUS
  <2>2. j \in Indices /\ m \in Indices /\ HeldBy(j, m)
    BY <1>5, <2>1, HeldIs
  <2>3. j # i /\ m # i /\ InUse(j)' /\ Master(m)' /\ MasterOf(j)' = m
    BY <2>1, <2>2 DEF HeldBy, Others, Master, InUse
  <2>4. m # clone
    BY <2>2, NotZero DEF HeldBy, NewFits, BeyondUse
  <2>5. HeldBy(j, m)'
    BY <1>2, <2>2, <2>3, <2>4 DEF HeldBy
  <2>6. j = stack'[1].i /\ m = MasterOf(j)'
    BY <2>1, <2>3
  <2> QED BY <2>1, <2>3, <2>5, <2>6
<1> QED BY <1>3, <1>4, <1>5, <1>6, <1>7, <1>8

LEMMA MadeRefs ==
    ASSUME HandleTypeOK, Shape, Sound, ~crashed, NEW i \in Indices, NEW n,
           NEW set, NEW type, NEW object, NEW owner, NEW clone,
           NewFits(set, type, object, owner, clone, n), Clones(i) = {},
           NewVector(i, set, type, object, owner, clone), Others(i, clone),
           stack' = stack, crashed' = crashed
    PROVE  /\ Refs'
           /\ \A j \in Indices : Master(j) => (Doomed(j)' <=> Doomed(j))
           /\ Master(i)' => ~Doomed(i)'
<1>1. /\ m_Handles'[i].set = set /\ m_Handles'[i].type = type /\ m_Handles'[i].clone = clone
      /\ m_Handles'[i].refcount = 1 /\ ~m_Handles'[i].is_destroying
  BY DEF NewVector
<1>2. \A j \in Indices : j # i =>
         /\ m_Handles'[j].set = m_Handles[j].set /\ m_Handles'[j].type = m_Handles[j].type
         /\ m_Handles'[j].is_destroying = m_Handles[j].is_destroying
         /\ m_Handles'[j].refcount =
               IF j = clone THEN m_Handles[j].refcount + 1 ELSE m_Handles[j].refcount
  BY DEF NewVector
<1>3. Sweep' <=> Sweep
  BY DEF Sweep
<1>4. \A j \in Indices : j # i => (Passed(j)' <=> Passed(j))
  BY <1>2, <1>3 DEF Passed
<1>5. ASSUME Sweep, stack[1].at = "destroy"
      PROVE  MasterOf(stack[1].i)' = MasterOf(stack[1].i) /\ MasterOf(stack[1].i) # i
  <2>1. PICK j : j = stack[1].i
    OBVIOUS
  <2>2. j \in Indices /\ InUse(j)
    BY <1>5, <2>1, HeldIs DEF HeldBy
  <2>3. MasterOf(j)' = MasterOf(j) /\ MasterOf(j) # i
    BY <2>2 DEF Others
  <2> QED BY <2>1, <2>3
<1>6. \A j \in Indices : (Doomed(j)' <=> Doomed(j)) /\ ~Doomed(i)'
  BY <1>3, <1>5 DEF Doomed
<1>7. ~Passed(i)'
  <2>1. Sweep => stack[1].type \in Types \ types
    <3>1. Sweep => 1 \in DOMAIN stack
      BY LenProperties, EmptySeq DEF Sweep, HandleTypeOK
    <3> QED BY <3>1 DEF Sweep, Shape
  <2> QED BY <1>1, <1>3, <2>1, HandleConstants DEF Passed, NewFits
<1>8. ASSUME NEW x \in Indices, Master(x)', ~m_Handles'[x].is_destroying, ~Doomed(x)'
      PROVE  Counts(x)'
  <2>1. CASE x = i
    <3>1. clone = 0 /\ set = "used"
      BY <1>1, <1>8, <2>1 DEF Master, NewFits
    <3>2. Clones(i)' = {}
      BY DEF Others
    <3>3. Own(i)' = 1
      BY <1>1, <1>7, <3>1 DEF Own
    <3>4. Cardinality(Clones(i)') = 0
      BY <3>2, CountIs
    <3> QED BY <1>1, <2>1, <3>3, <3>4 DEF Counts
  <2>2. CASE x # i
    <3>1. Master(x) /\ ~m_Handles[x].is_destroying /\ ~Doomed(x)
      BY <1>2, <1>6, <1>8, <2>2 DEF Others
    <3>2. /\ Counts(x) /\ m_Handles[x].refcount \in Int /\ Cardinality(Clones(x)) \in Nat
          /\ Clones(x) \in SUBSET Indices
      BY <3>1, MasterCounts
    <3>3. Own(x)' = Own(x) /\ Own(x) \in Int
      BY <1>2, <1>4, <2>2 DEF Own
    <3>4. CASE x = clone
      <4>1. Clones(x)' = Clones(x) \cup {i} /\ i \notin Clones(x)
        BY <3>4, NotZero DEF Others
      <4>2. Cardinality(Clones(x)') = Cardinality(Clones(x)) + 1
        BY <3>2, <4>1, CountAdd
      <4>3. m_Handles'[x].refcount = m_Handles[x].refcount + 1
        BY <1>2, <2>2, <3>4
      <4> QED BY <3>2, <3>3, <4>2, <4>3 DEF Counts
    <3>5. CASE x # clone
      <4>1. Clones(x)' = Clones(x)
        BY <3>5 DEF Others
      <4>2. m_Handles'[x].refcount = m_Handles[x].refcount
        BY <1>2, <2>2, <3>5
      <4> QED BY <3>2, <3>3, <4>1, <4>2 DEF Counts
    <3> QED BY <3>4, <3>5
  <2> QED BY <2>1, <2>2
<1>9. Refs'
  BY <1>8 DEF Refs
<1> QED BY <1>6, <1>9

LEMMA MadeCounted ==
    ASSUME HandleTypeOK, Sound, NEW i \in Indices, NEW n, ~InUse(i),
           NEW set, NEW type, NEW object, NEW owner, NEW clone,
           NewFits(set, type, object, owner, clone, n),
           NewVector(i, set, type, object, owner, clone), Others(i, clone),
           stack' = stack, types' = types,
           set = "used" => opened' = [opened EXCEPT ![type] = @ + 1],
           set = "identity" => opened' = opened
    PROVE  Counted'
<1>1. m_Handles'[i].set # "none" /\ m_Handles'[i].type = type
  BY DEF NewVector, NewFits
<1>2. \A j \in Indices : j # i =>
         (InUse(j)' <=> InUse(j)) /\ m_Handles'[j].type = m_Handles[j].type
  BY DEF NewVector, Others
<1>3. \A s : Sweeps(s)' <=> Sweeps(s)
  BY DEF Sweeps, Sweep
<1>4. \A s \in Types : s # type => OfOneType(s)' = OfOneType(s)
  BY <1>1, <1>2 DEF OfOneType
<1>5. \A s \in Types : s # type => opened'[s] = opened[s]
  BY DEF HandleTypeOK, NewFits
<1>6. CASE set = "identity"
  <2>1. type \notin Types
    BY <1>6, HandleConstants DEF NewFits
  <2> QED BY <1>3, <1>4, <1>5, <2>1 DEF Sound, Counted
<1>7. CASE set = "used"
  <2>1. type \in types /\ type \in Types
    BY <1>7 DEF NewFits, HandleTypeOK
  <2>2. /\ OfOneType(type)' = OfOneType(type) \cup {i} /\ i \notin OfOneType(type)
        /\ OfOneType(type) \in SUBSET Indices
    BY <1>1, <1>2 DEF OfOneType, InUse
  <2>3. Cardinality(OfOneType(type)') = Cardinality(OfOneType(type)) + 1
    BY <2>2, CountAdd
  <2>4. opened'[type] = opened[type] + 1
    BY <1>7, <2>1 DEF HandleTypeOK
  <2> QED BY <1>3, <1>4, <1>5, <2>1, <2>3, <2>4 DEF Sound, Counted
<1> QED BY <1>6, <1>7 DEF NewFits

LEMMA MadeRemembered ==
    ASSUME HandleTypeOK, Sound, NEW i \in Indices, NEW n,
           NEW set, NEW type, NEW object, NEW owner, NEW clone,
           NewFits(set, type, object, owner, clone, n),
           NewVector(i, set, type, object, owner, clone), Others(i, clone),
           NEW v, v = IF clone = 0 THEN object ELSE m_Handles[clone].object,
           NewValue(i, n, v)
    PROVE  /\ Remembered' /\ Latest(i, n)'
           /\ \A j \in Indices : \A k : InUse(j) /\ Latest(j, k) => Latest(j, k)'
<1>1. /\ m_Handles'[i].set = set /\ m_Handles'[i].clone = clone /\ m_Handles'[i].object = object
      /\ m_Handles'[i].serial = NextSerial
  BY DEF NewVector
<1>2. /\ n \in DOMAIN given' /\ n \in Nat /\ given'[n].index = i /\ given'[n].serial = NextSerial
      /\ given'[n].object = v
      /\ \A k \in DOMAIN given : k \in Nat /\ k < n /\ k \in DOMAIN given' /\ given'[k] = given[k]
      /\ \A k \in DOMAIN given' : k = n \/ k \in DOMAIN given
  BY DEF NewValue
<1>3. Latest(i, n)'
  BY <1>2 DEF Latest
<1>4. \A j \in Indices : \A k : InUse(j) /\ Latest(j, k) => Latest(j, k)'
  BY <1>2 DEF Latest, Others
<1>5. ASSUME NEW j \in Indices, InUse(j)' PROVE \E k \in DOMAIN given' : IsValueOf(j, k)'
  <2>1. CASE j = i
    <3>1. set # "identity" => ObjectAt(i)' = v
      <4>1. CASE clone = 0
        BY <1>1, <4>1 DEF ObjectAt, MasterOf
      <4>2. CASE clone # 0
        <5>1. MasterOf(i)' = clone /\ clone \in Indices /\ clone # i
          BY <1>1, <4>2 DEF MasterOf, NewFits, Others
        <5>2. m_Handles'[clone].object = m_Handles[clone].object
          BY <5>1 DEF NewVector
        <5> QED BY <4>2, <5>1, <5>2 DEF ObjectAt
      <4> QED BY <4>1, <4>2
    <3>2. Master(i)' => m_Handles'[i].object = n
      BY <1>1 DEF Master, NewFits
    <3>3. IsValueOf(i, n)'
      BY <1>1, <1>2, <1>3, <3>1, <3>2 DEF IsValueOf
    <3> QED BY <1>2, <2>1, <3>3
  <2>2. CASE j # i
    <3>1. InUse(j)
      BY <1>5, <2>2 DEF Others
    <3>2. PICK k \in DOMAIN given : IsValueOf(j, k)
      BY <3>1 DEF Sound, Remembered
    <3>3. Latest(j, k)'
      BY <1>4, <3>1, <3>2 DEF IsValueOf
    <3>4. ObjectAt(j)' = ObjectAt(j) /\ (Master(j)' <=> Master(j))
      BY <2>2, <3>1 DEF Others
    <3>5. /\ m_Handles'[j].set = m_Handles[j].set /\ m_Handles'[j].serial = m_Handles[j].serial
          /\ m_Handles'[j].object = m_Handles[j].object
      BY <2>2 DEF NewVector
    <3>6. IsValueOf(j, k)'
      BY <1>2, <3>2, <3>3, <3>4, <3>5 DEF IsValueOf
    <3> QED BY <1>2, <3>2, <3>6
  <2> QED BY <2>1, <2>2
<1>6. ASSUME NEW k \in DOMAIN given', given'[k].object # 0
      PROVE  given'[k].object \in DOMAIN given' /\ given'[given'[k].object].object = given'[k].object
  <2>1. CASE k = n /\ clone = 0
    BY <1>2, <1>6, <2>1 DEF NewFits
  <2>2. CASE k = n /\ clone # 0
    <3>1. clone \in Indices /\ Master(clone)
      BY <2>2 DEF NewFits
    <3>2. v = m_Handles[clone].object
      BY <2>2
    <3>3. v \in DOMAIN given /\ given[v].object = v
      BY <3>1, <3>2, MastersObject DEF Sound
    <3> QED BY <1>2, <2>2, <3>3
  <2>3. CASE k # n
    BY <1>2, <1>6, <2>3 DEF Sound, Remembered
  <2> QED BY <2>1, <2>2, <2>3
<1>7. Remembered'
  BY <1>5, <1>6 DEF Remembered
<1> QED BY <1>3, <1>4, <1>7

LEMMA MadeGone ==
    ASSUME HandleTypeOK, Sound, NEW i \in Indices, NEW n,
           NEW set, NEW type, NEW object, NEW owner, NEW clone,
           NewFits(set, type, object, owner, clone, n),
           NewVector(i, set, type, object, owner, clone), Others(i, clone),
           NEW v, v = IF clone = 0 THEN object ELSE m_Handles[clone].object,
           NewValue(i, n, v), destroyed' = destroyed,
           \A j \in Indices : Master(j) => (Doomed(j)' <=> Doomed(j)),
           Master(i)' => ~Doomed(i)'
    PROVE  Gone'
<1>1. /\ m_Handles'[i].set = set /\ m_Handles'[i].clone = clone /\ m_Handles'[i].object = object
      /\ m_Handles'[i].is_destroying = FALSE
  BY DEF NewVector
<1>2. /\ n = Len(given) + 1 /\ n \in 1..MaxMade /\ Len(given) \in Nat /\ Len(given') = n
      /\ n \notin DOMAIN given /\ given'[n].object = v
      /\ \A k \in DOMAIN given : given'[k] = given[k]
      /\ \A k \in DOMAIN given' : k = n \/ k \in DOMAIN given
  BY DEF NewValue
<1>3. \A j \in Indices : j # i => /\ m_Handles'[j].object = m_Handles[j].object
                                  /\ m_Handles'[j].is_destroying = m_Handles[j].is_destroying
                                  /\ Master(j)' <=> Master(j)
  BY DEF NewVector, Others
<1>4. \A j \in Indices : Master(j) => j # i
  BY DEF Others, Master, InUse
<1>5. destroyed[n] = 0
  BY <1>2 DEF Sound, Gone
<1>6. Master(i)' => m_Handles'[i].object = n
  BY <1>1 DEF Master, NewFits
<1>7. \A j \in Indices : Master(j)' =>
         destroyed'[m_Handles'[j].object] =
            IF m_Handles'[j].is_destroying \/ Doomed(j)' THEN 1 ELSE 0
  <2> SUFFICES ASSUME NEW j \in Indices, Master(j)'
               PROVE  destroyed[m_Handles'[j].object] =
                         IF m_Handles'[j].is_destroying \/ Doomed(j)' THEN 1 ELSE 0
    OBVIOUS
  <2>1. CASE j = i
    BY <1>1, <1>5, <1>6, <2>1
  <2>2. CASE j # i
    BY <1>3, <2>2 DEF Sound, Gone
  <2> QED BY <2>1, <2>2
<1>8. ASSUME NEW o \in DOMAIN given', given'[o].object = o
      PROVE  destroyed[o] = 1 \/ \E x \in Indices : Master(x)' /\ m_Handles'[x].object = o
  <2>1. CASE o = n /\ clone = 0
    <3>1. object = n /\ n # 0
      BY <1>2, <1>8, <2>1
    <3>2. set = "used"
      BY <3>1 DEF NewFits
    <3>3. Master(i)'
      BY <1>1, <2>1, <3>2 DEF Master
    <3> QED BY <1>6, <2>1, <3>3
  <2>2. CASE o = n /\ clone # 0
    <3>1. clone \in Indices /\ Master(clone)
      BY <2>2 DEF NewFits
    <3>2. v \in DOMAIN given
      BY <2>2, <3>1, MastersObject DEF Sound
    <3> QED BY <1>2, <1>8, <2>2, <3>2
  <2>3. CASE o # n
    <3>1. o \in DOMAIN given /\ given[o].object = o
      BY <1>2, <1>8, <2>3
    <3>2. CASE destroyed[o] = 1
      BY <3>2
    <3>3. CASE \E x \in Indices : Master(x) /\ m_Handles[x].object = o
      BY <1>3, <1>4, <3>3
    <3> QED BY <3>1, <3>2, <3>3 DEF Sound, Gone
  <2> QED BY <2>1, <2>2, <2>3
<1>9. \A o \in 1..MaxMade : destroyed[o] <= 1 /\ (o > Len(given') => destroyed[o] = 0)
  BY <1>2 DEF Sound, Gone
<1> QED BY <1>7, <1>8, <1>9 DEF Gone

LEMMA LatestNext ==
    ASSUME HandleTypeOK', NEW i, NEW n, Latest(i, n)'
    PROVE  MadeAs(i)' = n
<1>1. DOMAIN given' \subseteq Nat
  BY LenProperties DEF HandleTypeOK
<1>2. \A k : Latest(i, k)' => k = n
  BY <1>1 DEF Latest
<1>3. MadeAs(i)' = CHOOSE k \in DOMAIN given' : Latest(i, k)'
  BY DEF MadeAs, Latest
<1>4. n \in DOMAIN given' /\ Latest(i, n)'
  BY DEF Latest
<1> QED BY <1>1, <1>2, <1>3, <1>4

(* The new handle is the last one made, and the order of the others stays. *)
LEMMA OrderKept ==
    ASSUME HandleTypeOK, HandleTypeOK', Remembered, NEW i \in Indices, NEW n, NEW v,
           NewValue(i, n, v), Latest(i, n)', NEW ord, NEW ord2, ord = Made, ord2 = Made',
           \A j \in Indices : \A k : InUse(j) /\ Latest(j, k) => Latest(j, k)'
    PROVE  \A j \in Indices : InUse(j) => ord2[j] = ord[j] /\ ord2[j] < ord2[i]
<1>1. /\ \A j \in Indices : ord[j] = MadeAs(j) /\ ord2[j] = MadeAs(j)'
  BY DEF Made
<1>2. ord2[i] = n
  BY <1>1, LatestNext
<1>3. ASSUME NEW j \in Indices, InUse(j) PROVE ord2[j] = ord[j] /\ ord2[j] < n
  <2>1. PICK k \in DOMAIN given : IsValueOf(j, k)
    BY <1>3 DEF Remembered
  <2>2. Latest(j, k) /\ Latest(j, k)'
    BY <1>3, <2>1 DEF IsValueOf
  <2>3. MadeAs(j) = k /\ MadeAs(j)' = k
    BY <2>2, LatestIs, LatestNext
  <2>4. k < n
    BY <2>1 DEF NewValue
  <2> QED BY <1>1, <2>3, <2>4
<1> QED BY <1>2, <1>3

(* Each chain of an identity there was before: its owner's has a new tail, the
   others are as they were. *)
NewChains(i, id, ord) ==
    /\ \A t \in Live : Chain(m_Handles', OwnedIn(m_Handles', t), m_Handles'[identity[t]].ch_prev,
                             m_Handles'[identity[t]].ch_next, ord)
    /\ id = 0 => m_Handles'[i].ch_prev = 0 /\ m_Handles'[i].ch_next = 0

LEMMA MadeChains ==
    ASSUME HandleTypeOK, Sound, NEW i \in Indices, NEW n, ~InUse(i), m_Handles' \in Vectors,
           NEW set, NEW type, NEW object, NEW owner, NEW clone,
           NewFits(set, type, object, owner, clone, n),
           NewVector(i, set, type, object, owner, clone),
           NEW id, OwnersHandle(set, owner, id),
           LinkedAt(i, m_Handles', m_Handles, id), NEW ord2,
           \A j \in Indices : InUse(j) => ord2[j] = Made[j] /\ ord2[j] < ord2[i]
    PROVE  NewChains(i, id, ord2)
<1>1. PICK h, g : h = m_Handles /\ g = m_Handles'
  OBVIOUS
<1>2. PICK f \in Vectors :
         /\ \A j \in Indices : /\ f[j].ch_prev = IF j = i THEN 0 ELSE h[j].ch_prev
                               /\ f[j].ch_next = IF j = i THEN 0 ELSE h[j].ch_next
         /\ Linked(g, f, i, id, f[id].ch_next)
  BY <1>1 DEF LinkedAt
<1>3. ChainsIn(h, Made) /\ OwnHandles(h) /\ g \in Vectors
  BY <1>1, ChainsAre, OwnHandlesIs DEF Sound
<1>4. /\ \A j \in Indices : j # i => g[j].set = h[j].set /\ g[j].owner = h[j].owner
      /\ g[i].set = set /\ g[i].owner = owner /\ h[i].set = "none"
  BY <1>1 DEF NewVector, InUse
<1>5. \A t \in Live : /\ OwnedIn(h, t) \in SUBSET Indices /\ i \notin OwnedIn(h, t)
                      /\ identity[t] \in Indices \ OwnedIn(h, t) /\ identity[t] # i
                      /\ identity[t] # 0
  BY <1>3, <1>4, NotZero DEF OwnedIn, OwnHandles
<1>6. \A t \in Live : OwnedIn(g, t) = IF set = "used" /\ owner = t THEN OwnedIn(h, t) \cup {i}
                                      ELSE OwnedIn(h, t)
  BY <1>4 DEF OwnedIn
<1>7. \A t \in Live : \A j \in OwnedIn(h, t) : j \in Indices /\ j # i /\ h[j].set = "used"
                                               /\ h[j].owner = t
  BY <1>4 DEF OwnedIn
<1>8. \A t \in Live : \A j \in OwnedIn(h, t) : /\ f[j].ch_prev = h[j].ch_prev
                                               /\ f[j].ch_next = h[j].ch_next
                                               /\ ord2[j] = Made[j] /\ ord2[j] < ord2[i]
  <2>1. \A j \in Indices : h[j].set = "used" => InUse(j)
    BY <1>1 DEF InUse
  <2> QED BY <1>2, <1>7, <2>1
<1>9. \A t \in Live : Chain(f, OwnedIn(h, t), f[identity[t]].ch_prev, f[identity[t]].ch_next, ord2)
  <2> SUFFICES ASSUME NEW t \in Live
               PROVE  Chain(f, OwnedIn(h, t), f[identity[t]].ch_prev, f[identity[t]].ch_next, ord2)
    OBVIOUS
  <2>1. PICK S, a, z : S = OwnedIn(h, t) /\ a = h[identity[t]].ch_prev /\ z = h[identity[t]].ch_next
    OBVIOUS
  <2>2. a = f[identity[t]].ch_prev /\ z = f[identity[t]].ch_next
    BY <1>2, <1>5, <2>1
  <2>3. Chain(h, S, a, z, Made)
    BY <1>3, <2>1 DEF ChainsIn
  <2>4. \A j \in S : f[j].ch_prev = h[j].ch_prev /\ f[j].ch_next = h[j].ch_next /\ ord2[j] = Made[j]
    BY <1>8, <2>1
  <2>5. Chain(f, S, a, z, ord2)
    BY <2>3, <2>4, ChainAgrees
  <2> QED BY <2>1, <2>2, <2>5
<1>10. f[i].ch_prev = 0 /\ f[i].ch_next = 0
  BY <1>2
<1>11. CASE id = 0
  <2>1. g = f
    BY <1>2, <1>11 DEF Linked
  <2>2. \A t \in Live : ~(set = "used" /\ owner = t)
    BY <1>5, <1>11, HandleConstants DEF Live, OwnersHandle
  <2>3. \A t \in Live : OwnedIn(g, t) = OwnedIn(h, t)
    BY <1>6, <2>2
  <2>4. \A t \in Live : Chain(g, OwnedIn(g, t), g[identity[t]].ch_prev, g[identity[t]].ch_next, ord2)
    BY <1>9, <2>1, <2>3
  <2> QED BY <1>1, <1>10, <2>1, <2>4 DEF NewChains
<1>12. CASE id # 0
  <2>1. set = "used" /\ owner \in Live /\ id = identity[owner]
    BY <1>12 DEF NewFits, OwnersHandle
  <2>2. PICK u, S, m : u = owner /\ S = OwnedIn(h, u) /\ m = f[id].ch_next
    OBVIOUS
  <2>3. /\ S \in SUBSET Indices /\ i \in Indices \ S /\ id \in Indices \ S /\ id # i
        /\ Chain(f, S, f[id].ch_prev, m, ord2) /\ (\A j \in S : ord2[j] < ord2[i])
        /\ Linked(g, f, i, id, m)
    BY <1>2, <1>5, <1>8, <1>9, <2>1, <2>2
  <2>4. /\ Chain(g, S \cup {i}, g[id].ch_prev, g[id].ch_next, ord2)
        /\ \A j \in Indices : j \notin S /\ j # id /\ j # i =>
              g[j].ch_prev = f[j].ch_prev /\ g[j].ch_next = f[j].ch_next
    BY <1>3, <1>10, <2>2, <2>3, ChainLink
  <2>5. ASSUME NEW t \in Live
        PROVE  Chain(g, OwnedIn(g, t), g[identity[t]].ch_prev, g[identity[t]].ch_next, ord2)
    <3>1. CASE t = u
      BY <1>6, <2>1, <2>2, <2>4, <3>1
    <3>2. CASE t # u
      <4>1. PICK T, it : T = OwnedIn(h, t) /\ it = identity[t]
        OBVIOUS
      <4>2. OwnedIn(g, t) = T
        BY <1>6, <2>2, <3>2, <4>1
      <4>3. it \in Indices /\ it \notin S /\ it # id /\ it # i
        <5>1. h[it].set = "identity" /\ it \in Indices /\ it # i
          BY <1>3, <1>5, <2>5, <4>1 DEF OwnHandles
        <5>2. it # id
          BY <1>3, <2>1, <2>2, <3>2, <4>1 DEF OwnHandles
        <5> QED BY <2>1, <2>2, <5>1, <5>2 DEF OwnedIn
      <4>4. \A j \in T : j \in Indices /\ j \notin S /\ j # id /\ j # i
        <5>1. h[id].set = "identity"
          BY <1>3, <2>1 DEF OwnHandles
        <5>2. \A j \in T : j \in Indices /\ j # i /\ h[j].set = "used" /\ h[j].owner = t
          BY <1>7, <4>1
        <5> QED BY <2>2, <3>2, <5>1, <5>2 DEF OwnedIn
      <4>5. PICK a, z : a = f[it].ch_prev /\ z = f[it].ch_next
        OBVIOUS
      <4>6. Chain(f, T, a, z, ord2) /\ a = g[it].ch_prev /\ z = g[it].ch_next
        BY <1>9, <2>4, <4>1, <4>3, <4>5
      <4>7. \A j \in T : g[j].ch_prev = f[j].ch_prev /\ g[j].ch_next = f[j].ch_next
                         /\ ord2[j] = ord2[j]
        BY <2>4, <4>4
      <4>8. Chain(g, T, a, z, ord2)
        BY <4>6, <4>7, ChainAgrees
      <4> QED BY <4>1, <4>2, <4>6, <4>8
    <3> QED BY <3>1, <3>2
  <2> QED BY <1>1, <1>12, <2>5 DEF NewChains
<1> QED BY <1>11, <1>12

(* All that does not depend on whose the new handle is. *)
MostSound == /\ Outermost /\ Slots /\ Kinds /\ ClonesFit /\ Framed /\ Held /\ Refs
             /\ Counted /\ Remembered /\ Gone /\ UnloadReleasesAll

LEMMA MakeKept ==
    ASSUME Base, HandleTypeOK', Sound, ~mangled', ~GivenOutTwice, NEW set, NEW type \in Types \cup {NULL},
           NEW object \in 0..MaxMade, NEW owner, NEW clone \in Links, NEW h, Prepared(h, clone),
           MakePrimHandle(h, set, type, object, owner, clone), NEW n, n = Len(given) + 1,
           NewFits(set, type, object, owner, clone, n),
           NEW i, i = TryAllocHandle, NEW id, OwnersHandle(set, owner, id),
           stack' = stack, types' = types, destroyed' = destroyed, crashed' = crashed,
           Live \subseteq Live',
           set = "used" => opened' = [opened EXCEPT ![type] = @ + 1],
           set = "identity" => opened' = opened,
           NEW ord2, ord2 = Made'
    PROVE  /\ MostSound' /\ i \in Indices /\ ~InUse(i)
           /\ NewVector(i, set, type, object, owner, clone) /\ NewChains(i, id, ord2)
<1>0. PICK v : NewObject(h, clone, object, v)
  BY DEF NewObject
<1>1. /\ HandleTypeOK /\ Shape /\ h \in Vectors /\ SameLinks(h, m_Handles)
      /\ set \in {"used", "identity"} /\ owner \in Live \cup {NULL}
  BY DEF Base, Prepared, NewFits
<1>2. v = IF clone = 0 THEN object ELSE m_Handles[clone].object
  <2>1. clone # 0 => clone \in Indices
    BY DEF Links, Indices
  <2> QED BY <1>0, <2>1 DEF Prepared, NewObject
<1>3. /\ i \in Indices /\ ~InUse(i) /\ Clones(i) = {} /\ ~crashed /\ Slots'
      /\ NewVector(i, set, type, object, owner, clone) /\ NewValue(i, n, v)
  BY <1>0, <1>1, MakeEffect
<1>4. Others(i, clone)
  BY <1>1, <1>3, OthersAre
<1>5. Kinds' /\ ClonesFit' /\ Framed' /\ Held' /\ UnloadReleasesAll' /\ Outermost'
  BY <1>1, <1>3, <1>4, MadeKinds
<1>6. /\ Refs'
      /\ \A j \in Indices : Master(j) => (Doomed(j)' <=> Doomed(j))
      /\ Master(i)' => ~Doomed(i)'
  BY <1>1, <1>3, <1>4, MadeRefs
<1>7. Counted'
  BY <1>1, <1>3, <1>4, MadeCounted
<1>8. /\ Remembered' /\ Latest(i, n)'
      /\ \A j \in Indices : \A k : InUse(j) /\ Latest(j, k) => Latest(j, k)'
  BY <1>1, <1>2, <1>3, <1>4, MadeRemembered
<1>9. Gone'
  BY <1>1, <1>2, <1>3, <1>4, <1>6, MadeGone
<1>10. PICK ord : ord = Made
  OBVIOUS
<1>11. \A j \in Indices : InUse(j) => ord2[j] = ord[j] /\ ord2[j] < ord2[i]
  BY <1>1, <1>3, <1>8, <1>10, OrderKept DEF Sound
<1>12. LinkedAt(i, m_Handles', m_Handles, id)
  <2>1. LinkedAt(i, m_Handles', h, id)
    BY <1>1, MakeIs DEF OwnersHandle
  <2> QED BY <1>1, <2>1 DEF LinkedAt, SameLinks
<1>13. m_Handles' \in Vectors
  BY <1>3 DEF NewVector
<1>14. \A j \in Indices : InUse(j) => ord2[j] = Made[j] /\ ord2[j] < ord2[i]
  BY <1>10, <1>11
<1>15. NewChains(i, id, ord2)
  BY <1>1, <1>3, <1>12, <1>13, <1>14, MadeChains
<1>16. MostSound'
  BY <1>3, <1>5, <1>6, <1>7, <1>8, <1>9 DEF MostSound
<1> QED BY <1>3, <1>15, <1>16

(* The new handle is not an identity's. *)
LEMMA MakeUsedKept ==
    ASSUME Base, Sound, ~mangled', MostSound', NEW i \in Indices, ~InUse(i), NEW set, set = "used",
           NEW type, NEW object, NEW owner, NEW clone,
           NewVector(i, set, type, object, owner, clone), identity' = identity, stack' = stack,
           NEW id, NEW ord2, ord2 = Made', NewChains(i, id, ord2)
    PROVE  Sound'
<1>1. Live' = Live /\ \A t \in Live : identity[t] \in Indices
  BY DEF Live, Base, HandleTypeOK, Indices
<1>2. \A j \in Indices : m_Handles[j].set = "identity" => m_Handles'[j].set = "identity"
  BY DEF NewVector, InUse
<1>3. Identities'
  BY <1>1, <1>2 DEF Sound, Identities
<1>4. ChainsIn(m_Handles, Made)'
  BY <1>1 DEF ChainsIn, NewChains
<1>5. OwnerChains'
  BY <1>4, ChainsAreNext
<1> QED BY <1>3, <1>5 DEF Sound, MostSound

LEMMA PreparedNot ==
    ASSUME HandleTypeOK, NEW c, c = 0
    PROVE  Prepared(m_Handles, c)
  BY NotZero DEF Prepared, HandleTypeOK, Vectors, SameLinks

LEMMA CreateHandleKept ==
    ASSUME Base, Sound, ~mangled', NEW type \in Types, NEW owner \in Live \cup {NULL},
           CreateHandle(type, owner)
    PROVE  Sound'
<1>1. PICK n, set, c, i, id, h, ord2 :
         /\ n = Len(given) + 1 /\ set = "used" /\ c = 0 /\ i = TryAllocHandle
         /\ OwnersHandle(set, owner, id) /\ h = m_Handles /\ ord2 = Made'
  BY DEF OwnersHandle
<1>2. /\ HandleTypeOK /\ Shape /\ type \in types
      /\ MakePrimHandle(h, set, type, n, owner, c)
      /\ opened' = [opened EXCEPT ![type] = @ + 1] /\ types' = types /\ identity' = identity
      /\ stack' = stack /\ destroyed' = destroyed /\ crashed' = crashed /\ ~GivenOutTwice
  BY <1>1 DEF Base, CreateHandle
<1>3. HandleTypeOK'
  <2>1. Next
    BY DEF Next, Users
  <2> QED BY <1>2, <2>1, TypesKept
<1>4. n \in 0..MaxMade
  <2>1. Len(given) < MaxMade /\ Len(given) \in Nat
    BY <1>2, LenProperties DEF MakePrimHandle, HandleTypeOK
  <2> QED BY <1>1, <2>1, HandleConstants
<1>5. NewFits(set, type, n, owner, c, n)
  BY <1>1, <1>2 DEF NewFits
<1>6. Live \subseteq Live'
  BY <1>2 DEF Live
<1>7. Prepared(h, c)
  BY <1>1, <1>2, PreparedNot
<1>8. c \in Links /\ type \in Types \cup {NULL}
  BY <1>1, HandleConstants DEF Links
<1>9. /\ set = "used" => opened' = [opened EXCEPT ![type] = @ + 1]
      /\ set = "identity" => opened' = opened
  BY <1>1, <1>2
<1>10. /\ MostSound' /\ i \in Indices /\ ~InUse(i)
       /\ NewVector(i, set, type, n, owner, c) /\ NewChains(i, id, ord2)
  BY <1>1, <1>2, <1>3, <1>4, <1>5, <1>6, <1>7, <1>8, <1>9, MakeKept
<1> QED BY <1>1, <1>2, <1>10, MakeUsedKept

LEMMA CloneHandleKept ==
    ASSUME Base, Sound, ~mangled', NEW k \in Indices, NEW owner \in Live, CloneHandle(k, owner)
    PROVE  Sound'
<1>1. PICK m, type, h : /\ m = MasterOf(k) /\ type = m_Handles[m].type
                        /\ h = [m_Handles EXCEPT ![m].refcount = @ + 1]
  OBVIOUS
<1>2. PICK n, set, o, i, id, ord2 :
         /\ n = Len(given) + 1 /\ set = "used" /\ o = 0 /\ i = TryAllocHandle
         /\ OwnersHandle(set, owner, id) /\ ord2 = Made'
  BY DEF OwnersHandle
<1>3. /\ HandleTypeOK /\ Shape /\ m_Handles[k].set = "used"
      /\ MakePrimHandle(h, set, type, o, owner, m)
      /\ opened' = [opened EXCEPT ![type] = @ + 1] /\ types' = types /\ identity' = identity
      /\ stack' = stack /\ destroyed' = destroyed /\ crashed' = crashed
      /\ ~GivenOutTwice /\ ~BeyondUse(m) /\ type \in types
  BY <1>1, <1>2 DEF Base, CloneHandle
<1>4. HandleTypeOK'
  <2>1. Next
    BY DEF Next, Users
  <2> QED BY <1>3, <2>1, TypesKept
<1>5. m \in Indices
  BY <1>1, <1>3, MasterOfTyped
<1>6. Master(m)
  <2>1. CASE m_Handles[k].clone = 0
    BY <1>1, <1>3, <2>1 DEF MasterOf, Master
  <2>2. CASE m_Handles[k].clone # 0
    <3>1. Clone(k) /\ m = m_Handles[k].clone
      BY <1>1, <1>3, <2>2 DEF MasterOf, Clone
    <3> QED BY <1>3, <1>5, <3>1, ReferredIs
  <2> QED BY <2>1, <2>2
<1>7. type \in Types
  BY <1>3 DEF HandleTypeOK
<1>8. Prepared(h, m)
  <2>1. m_Handles \in Vectors
    BY <1>3 DEF HandleTypeOK, Vectors
  <2>2. h \in Vectors
    BY <1>1, <1>5, <2>1 DEF Vectors, QHandles
  <2> QED BY <1>1, <1>5, <2>1, <2>2 DEF Prepared, SameLinks, Vectors, QHandles
<1>9. NewFits(set, type, o, owner, m, n)
  BY <1>1, <1>2, <1>3, <1>5, <1>6, <1>7, NotZero DEF NewFits
<1>10. Live \subseteq Live'
  BY <1>3 DEF Live
<1>11. m \in Links /\ type \in Types \cup {NULL} /\ o \in 0..MaxMade
  BY <1>2, <1>5, <1>7, HandleConstants DEF Links, Indices
<1>12. /\ set = "used" => opened' = [opened EXCEPT ![type] = @ + 1]
       /\ set = "identity" => opened' = opened
  BY <1>2, <1>3
<1>13. /\ MostSound' /\ i \in Indices /\ ~InUse(i)
       /\ NewVector(i, set, type, o, owner, m) /\ NewChains(i, id, ord2)
  BY <1>2, <1>3, <1>4, <1>8, <1>9, <1>10, <1>11, <1>12, MakeKept
<1> QED BY <1>2, <1>3, <1>13, MakeUsedKept

LEMMA CreateIdentityKept ==
    ASSUME Base, Sound, ~mangled', NEW t \in Tokens, CreateIdentity(t)
    PROVE  Sound'
<1>1. PICK n, set, o, i, id, h, ord2 :
         /\ n = Len(given) + 1 /\ set = "identity" /\ o = 0 /\ i = TryAllocHandle
         /\ OwnersHandle(set, NULL, id) /\ h = m_Handles /\ ord2 = Made'
  BY DEF OwnersHandle
<1>2. /\ HandleTypeOK /\ Shape /\ identity[t] = 0 /\ stack = <<>>
      /\ MakePrimHandle(h, set, NULL, o, NULL, o)
      /\ identity' = [identity EXCEPT ![t] = i] /\ opened' = opened /\ types' = types
      /\ stack' = stack /\ destroyed' = destroyed /\ crashed' = crashed /\ ~GivenOutTwice
  BY <1>1 DEF Base, CreateIdentity, Idle
<1>3. HandleTypeOK'
  <2>1. Next
    BY DEF Next, Users
  <2> QED BY <1>2, <2>1, TypesKept
<1>4. i \in Indices /\ t \notin Live
  BY <1>1, <1>2, AllocTyped DEF MakePrimHandle, Live
<1>5. /\ Live' = Live \cup {t} /\ identity'[t] = i
      /\ \A s \in Live : s # t /\ identity'[s] = identity[s] /\ identity[s] \in Indices
  BY <1>2, <1>4 DEF Live, HandleTypeOK, Indices
<1>6. NewFits(set, NULL, o, NULL, o, n)
  BY <1>1 DEF NewFits
<1>7. Prepared(h, o)
  BY <1>1, <1>2, PreparedNot
<1>8. o \in Links /\ o \in 0..MaxMade /\ NULL \in Types \cup {NULL} /\ Live \subseteq Live'
  BY <1>1, <1>5, HandleConstants DEF Links
<1>9. /\ set = "used" => opened' = [opened EXCEPT ![NULL] = @ + 1]
      /\ set = "identity" => opened' = opened
  BY <1>1, <1>2
<1>10. /\ MostSound' /\ ~InUse(i) /\ NewVector(i, set, NULL, o, NULL, o)
       /\ NewChains(i, id, ord2)
  BY <1>1, <1>2, <1>3, <1>6, <1>7, <1>8, <1>9, MakeKept
<1>11. /\ m_Handles'[i].set = "identity"
       /\ \A j \in Indices : j # i => m_Handles'[j].set = m_Handles[j].set
                                      /\ m_Handles'[j].owner = m_Handles[j].owner
  BY <1>1, <1>10 DEF NewVector
<1>12. Identities'
  <2>1. \A s \in Live : m_Handles[identity[s]].set = "identity"
    BY DEF Sound, Identities
  <2>2. \A s \in Live : identity[s] # i
    BY <1>10, <2>1 DEF InUse
  <2>3. \A s \in Live' : m_Handles'[identity'[s]].set = "identity"
    BY <1>4, <1>5, <1>11, <2>1, <2>2
  <2>4. \A r, s \in Live' : identity'[r] = identity'[s] => r = s
    BY <1>5, <2>2 DEF Sound, Identities
  <2>5. stack' = <<>>
    BY <1>2
  <2> QED BY <2>3, <2>4, <2>5 DEF Identities
<1>13. PICK g : g = m_Handles'
  OBVIOUS
<1>14. OwnedIn(g, t) = {}
  <2>1. \A j \in Indices : m_Handles[j].set = "used" => m_Handles[j].owner # t
    BY <1>4, HandleConstants DEF Sound, UnloadReleasesAll
  <2>2. \A j \in Indices : g[j].set = "used" => g[j].owner # t
    BY <1>11, <1>13, <2>1
  <2> QED BY <2>2 DEF OwnedIn
<1>15. /\ \A s \in Live : Chain(g, OwnedIn(g, s), g[identity[s]].ch_prev, g[identity[s]].ch_next, ord2)
       /\ g[i].ch_prev = 0 /\ g[i].ch_next = 0
  <2>1. id = 0
    BY <1>1 DEF OwnersHandle
  <2> QED BY <1>10, <1>13, <2>1 DEF NewChains
<1>16. Chain(g, OwnedIn(g, t), g[i].ch_prev, g[i].ch_next, ord2)
  BY <1>14, <1>15 DEF Chain
<1>17. \A s \in Live' : Chain(g, OwnedIn(g, s), g[identity'[s]].ch_prev, g[identity'[s]].ch_next, ord2)
  BY <1>5, <1>15, <1>16
<1>18. ChainsIn(m_Handles, Made)'
  BY <1>1, <1>13, <1>17 DEF ChainsIn
<1>19. OwnerChains'
  BY <1>18, ChainsAreNext
<1> QED BY <1>10, <1>12, <1>19 DEF Sound, MostSound


-----------------------------------------------------------------------------
(***************************************************************************)
(* The theorems.                                                           *)
(***************************************************************************)
LEMMA StartsSound ==
    ASSUME Init
    PROVE  AllInv
<1>1. /\ m_Handles = [i \in Indices |-> NoHandle] /\ m_FreeHandles = <<>> /\ m_HandleTail = 0
      /\ m_HSerial = 0 /\ types = Types /\ opened = [t \in Types |-> 0]
      /\ identity = [t \in Tokens |-> 0] /\ stack = <<>> /\ given = <<>>
      /\ destroyed = [n \in 1..MaxMade |-> 0] /\ mangled = FALSE /\ crashed = FALSE
  BY DEF Init
<1>2. DOMAIN stack = {} /\ DOMAIN given = {} /\ Len(stack) = 0 /\ Len(given) = 0
  BY <1>1
<1>3. NoHandle \in QHandles
  BY HandleConstants DEF NoHandle, QHandles
<1>4. HandleTypeOK
  <2>1. m_Handles \in [Indices -> QHandles]
    BY <1>1, <1>3
  <2>2. m_FreeHandles \in Seq(Indices) /\ stack \in Seq(Frames) /\ given \in Seq(Values)
    BY <1>1
  <2>3. /\ m_HandleTail \in 0..MaxHandles /\ m_HSerial \in 0..(MaxSerials - 1)
        /\ Len(stack) <= MaxDepth /\ Len(given) <= MaxMade
    BY <1>1, <1>2, HandleConstants
  <2>4. identity \in [Tokens -> -1..MaxHandles]
    BY <1>1, HandleConstants
  <2>5. opened \in [Types -> Int] /\ destroyed \in [1..MaxMade -> Nat]
    BY <1>1
  <2>6. types \subseteq Types /\ mangled \in BOOLEAN /\ crashed \in BOOLEAN
    BY <1>1
  <2> QED BY <2>1, <2>2, <2>3, <2>4, <2>5, <2>6 DEF HandleTypeOK
<1>5. Shape /\ Serials
  BY <1>1, <1>2 DEF Shape, Serials
<1>6. \A i \in Indices : m_Handles[i].set = "none" /\ ~InUse(i) /\ ~Master(i) /\ ~Clone(i)
  BY <1>1 DEF NoHandle, InUse, Master, Clone
<1>7. Live = {} /\ ~Sweep
  BY <1>1 DEF Live, Sweep
<1>8. Slots
  <2>1. ToSet(m_FreeHandles) = {}
    BY <1>1 DEF ToSet
  <2>2. {i \in 1..m_HandleTail : ~InUse(i)} = {}
    BY <1>1
  <2>3. IsInjective(m_FreeHandles)
    BY <1>1 DEF IsInjective
  <2>4. \A i \in (m_HandleTail + 1)..MaxHandles : ~InUse(i)
    BY <1>1, <1>6, HandleConstants DEF Indices
  <2> QED BY <2>1, <2>2, <2>3, <2>4 DEF Slots
<1>9. Outermost /\ Kinds /\ ClonesFit /\ Framed /\ Held /\ Identities
  BY <1>1, <1>2, <1>6, <1>7 DEF Outermost, Kinds, ClonesFit, Framed, Held, Identities
<1>10. Refs
  BY <1>1, <1>6 DEF Refs
<1>11. Counted
  <2>1. \A type \in Types : OfOneType(type) = {}
    BY <1>6 DEF OfOneType
  <2> QED BY <1>1, <2>1, FS_EmptySet DEF Counted
<1>12. Remembered
  BY <1>2, <1>6 DEF Remembered
<1>13. Gone
  BY <1>1, <1>2, <1>6 DEF Gone
<1>14. UnloadReleasesAll /\ OwnerChains
  BY <1>6, <1>7 DEF UnloadReleasesAll, OwnerChains
<1>15. Sound
  BY <1>1, <1>8, <1>9, <1>10, <1>11, <1>12, <1>13, <1>14 DEF Sound
<1> QED BY <1>4, <1>5, <1>15 DEF AllInv, Base

(* Nothing is mended. *)
LEMMA StaysMangled ==
    ASSUME HandleTypeOK, Next, mangled
    PROVE  mangled'
<1>1. ASSUME NEW i, FreeAt(i) PROVE mangled'
  BY <1>1 DEF FreeAt, FreeClone, FreeIdentity, FreeMaster
<1>2. ASSUME NEW t, CreateIdentity(t) PROVE mangled'
  BY <1>2 DEF CreateIdentity
<1>3. ASSUME NEW t, DestroyIdentity(t) PROVE mangled'
  BY <1>1, <1>3 DEF DestroyIdentity
<1>4. ASSUME NEW t, CreateType(t) \/ RemoveType(t) PROVE mangled'
  BY <1>4 DEF CreateType, RemoveType
<1>5. ASSUME NEW t, NEW o, CreateHandle(t, o) PROVE mangled'
  BY <1>5 DEF CreateHandle
<1>6. ASSUME NEW i, FreeHandle(i) PROVE mangled'
  BY <1>1, <1>6 DEF FreeHandle
<1>7. ASSUME NEW i, NEW o, CloneHandle(i, o) PROVE mangled'
  BY <1>7 DEF CloneHandle
<1>8. CASE DestroyReturns
  BY <1>8 DEF DestroyReturns
<1>9. CASE FreeOwned
  BY <1>1, <1>9 DEF FreeOwned
<1>10. CASE IdentityReleased
  BY <1>10 DEF IdentityReleased
<1>11. CASE RemoveNext
  BY <1>11 DEF RemoveNext
<1>12. CASE RemoveReturns
  BY <1>12 DEF RemoveReturns
<1>13. CASE RemoveDone
  BY <1>13 DEF RemoveDone
<1>14. CASE Users
  BY <1>2, <1>3, <1>4, <1>5, <1>6, <1>7, <1>14 DEF Users
<1>15. CASE Returns
  BY <1>8, <1>9, <1>10, <1>11, <1>12, <1>13, <1>15 DEF Returns
<1> QED BY <1>14, <1>15 DEF Next

LEMMA SoundKept ==
    ASSUME Base, Sound, Next, ~mangled'
    PROVE  Sound'
<1>1. ASSUME NEW t \in Tokens, CreateIdentity(t) \/ DestroyIdentity(t) PROVE Sound'
  BY <1>1, CreateIdentityKept, DestroyIdentityKept
<1>2. ASSUME NEW type \in Types, CreateType(type) \/ RemoveType(type) PROVE Sound'
  BY <1>2, CreateTypeKept, RemoveTypeKept
<1>3. ASSUME NEW type \in Types, NEW owner \in Live \cup {NULL}, CreateHandle(type, owner)
      PROVE  Sound'
  BY <1>3, CreateHandleKept
<1>4. ASSUME NEW i \in Indices, FreeHandle(i) PROVE Sound'
  BY <1>4, FreeHandleKept
<1>5. ASSUME NEW i \in Indices, NEW owner \in Live, CloneHandle(i, owner) PROVE Sound'
  BY <1>5, CloneHandleKept
<1>6. CASE Users
  BY <1>1, <1>2, <1>3, <1>4, <1>5, <1>6 DEF Users
<1>7. CASE Returns
  BY <1>7, DestroyReturnsKept, FreeOwnedKept, IdentityReleasedKept, RemoveNextKept,
     RemoveReturnsKept, RemoveDoneKept DEF Returns
<1> QED BY <1>6, <1>7 DEF Next

LEMMA SoundStays ==
    ASSUME Sound, UNCHANGED vars
    PROVE  Sound'
<1>1. /\ m_Handles' = m_Handles /\ m_FreeHandles' = m_FreeHandles /\ m_HandleTail' = m_HandleTail
      /\ types' = types /\ opened' = opened /\ identity' = identity /\ stack' = stack
      /\ given' = given /\ destroyed' = destroyed /\ mangled' = mangled /\ crashed' = crashed
  BY DEF vars
<1>2. Outermost' /\ Slots' /\ Kinds' /\ Identities' /\ UnloadReleasesAll'
  BY <1>1 DEF Sound, Outermost, Slots, Kinds, Identities, UnloadReleasesAll, InUse, Live
<1>3. ClonesFit' /\ Framed' /\ Held'
  BY <1>1 DEF Sound, ClonesFit, Clone, CloneFits, Sweep, InUse, Framed, Master, Held, HeldBy, MasterOf
<1>4. Refs'
  BY <1>1 DEF Sound, Refs, Master, Doomed, Sweep, MasterOf, Counts, Clones, Own, Passed
<1>5. Counted' /\ Remembered'
  BY <1>1 DEF Sound, Counted, OfOneType, InUse, Sweeps, Sweep, Remembered, IsValueOf, Latest,
              ObjectAt, MasterOf, Master
<1>6. Gone'
  BY <1>1 DEF Sound, Gone, Master, Doomed, Sweep, MasterOf
<1>7. OwnerChains'
  <2>1. /\ Live' = Live /\ Made' = Made
        /\ \A t : OwnedIn(m_Handles, t)' = OwnedIn(m_Handles, t)
    BY <1>1 DEF Live, OwnedIn, Made, MadeAs
  <2>2. ChainsIn(m_Handles, Made)
    BY ChainsAre DEF Sound
  <2>3. ChainsIn(m_Handles, Made)'
    BY <1>1, <2>1, <2>2 DEF ChainsIn, Chain
  <2> QED BY <2>3, ChainsAreNext
<1> QED BY <1>1, <1>2, <1>3, <1>4, <1>5, <1>6, <1>7 DEF Sound

(* The inductive invariant holds in every state: in all of them the types, the
   shape of the stack of calls and the distances of the serials; and the rest
   until a link is written over, the index of a master with clones is used again,
   or an OnHandleDestroy() clones, or frees a clone of, what is being destroyed. *)
THEOREM HandlesSound == Spec => []AllInv
<1>1. Init => AllInv
  BY StartsSound
<1>2. AllInv /\ [Next]_vars => AllInv'
  <2> SUFFICES ASSUME AllInv, [Next]_vars PROVE AllInv'
    OBVIOUS
  <2>1. Base /\ Base'
    BY BaseKept DEF AllInv
  <2>2. ASSUME ~mangled' PROVE Sound'
    <3>1. CASE Next
      <4>1. ~mangled
        BY <2>1, <2>2, <3>1, StaysMangled DEF Base
      <4> QED BY <2>1, <2>2, <3>1, <4>1, SoundKept DEF AllInv
    <3>2. CASE UNCHANGED vars
      <4>1. ~mangled
        BY <2>2, <3>2 DEF vars
      <4> QED BY <3>2, <4>1, SoundStays DEF AllInv
    <3> QED BY <3>1, <3>2
  <2> QED BY <2>1, <2>2 DEF AllInv
<1> QED BY <1>1, <1>2, PTL DEF Spec

LEMMA RemovingIs ==
    ASSUME HandleTypeOK, Shape
    PROVE  Removing <=> Sweep
<1>1. DOMAIN stack = 1..Len(stack) /\ Len(stack) \in Nat /\ (stack = <<>> <=> Len(stack) = 0)
  BY LenProperties, EmptySeq DEF HandleTypeOK
<1>2. Removing => Sweep
  BY <1>1 DEF Removing, Sweep, Shape
<1>3. Sweep => Removing
  BY <1>1 DEF Removing, Sweep
<1> QED BY <1>2, <1>3

(* The free stack holds exactly the handles below the tail that are not set,
   each once; a master counts its clones, and itself until it is freed; and each
   type knows how many handles it has, none once it has been removed: what
   MakePrimHandle(), FreeHandle(), ReleasePrimHandle() and RemoveType() keep up,
   and OnHandleDestroy() finds in order when it is called between their steps;
   until it clones, or frees a clone of, what is being destroyed, or an index is
   given out to which clones still refer, or a second unlink writes over links. *)
THEOREM HandleBooksCorrect == Spec => []HandleInv
<1>1. AllInv => HandleInv
  <2> SUFFICES ASSUME AllInv PROVE HandleInv
    OBVIOUS
  <2>1. HandleTypeOK /\ Shape
    BY DEF AllInv, Base
  <2>2. SlotsConserved
    BY DEF SlotsConserved, AllInv, Sound, Slots
  <2>3. RefcountsExact
    <3> SUFFICES ASSUME ~mangled, ~Removing, NEW m \in Indices, InUse(m), m_Handles[m].clone = 0,
                        m_Handles[m].set # "identity", ~m_Handles[m].is_destroying
                 PROVE  m_Handles[m].refcount = Cardinality(Clones(m))
                                                + (IF m_Handles[m].set = "used" THEN 1 ELSE 0)
      BY DEF RefcountsExact
    <3>1. ~Sweep
      BY <2>1, RemovingIs
    <3>2. Refs /\ ~crashed
      BY <3>1 DEF AllInv, Sound, Refs
    <3>3. m_Handles[m].set \in {"none", "used", "freed", "identity"}
      BY <2>1 DEF HandleTypeOK, QHandles
    <3>4. Master(m) /\ ~Doomed(m) /\ ~Passed(m)
      BY <3>1, <3>3 DEF Master, Doomed, Passed, InUse
    <3>5. Counts(m)
      BY <3>2, <3>4 DEF Refs
    <3>6. Own(m) = IF m_Handles[m].set = "used" THEN 1 ELSE 0
      BY <3>4 DEF Own
    <3> QED BY <3>5, <3>6 DEF Counts
  <2>4. TypesCounted
    <3>1. ASSUME ~mangled, NEW type \in Types
          PROVE  /\ opened[type] = Cardinality(OfOneType(type))
                 /\ type \notin types /\ ~Removing => opened[type] = 0
      BY <2>1, <3>1, RemovingIs DEF AllInv, Sound, Counted, Sweeps
    <3> QED BY <3>1 DEF TypesCounted, OfOneType
  <2> QED BY <2>1, <2>2, <2>3, <2>4 DEF HandleInv
<1> QED BY <1>1, HandlesSound, PTL

(* Each identity's chain holds exactly what it owns, in the order it was made,
   linked forwards and back, whatever is made, freed or removed, and by
   whichever OnHandleDestroy(): until a master that was freed before its clones
   is unlinked a second time and writes over somebody's links, or one of the
   other things happens that mangled records. *)
THEOREM ChainsExact == Spec => []ChainsUntilMangled
<1>1. AllInv => ChainsUntilMangled
  BY DEF AllInv, Sound, ChainsUntilMangled
<1> QED BY <1>1, HandlesSound, PTL

(* Until an OnHandleDestroy() clones, or frees a clone of, what is being
   destroyed (or links or indices are mangled otherwise) no object is destroyed
   twice; and outside of RemoveType(), one is destroyed exactly when no handle
   refers to it any more: neither FreeHandle() nor the release of an identity
   destroys what a clone can still read, nor forgets what nobody can, whatever
   other handles an OnHandleDestroy() makes, clones or frees. *)
THEOREM ObjectsDestroyedOnce == Spec => []DestroyedWhenUnused
<1>1. AllInv => DestroyedWhenUnused
  <2> SUFFICES ASSUME AllInv, ~mangled PROVE
         /\ \A n \in 1..MaxMade : destroyed[n] <= 1
         /\ ~Removing => \A n \in DOMAIN given : given[n].object # 0 =>
               (destroyed[given[n].object] = 1 <=>
                   ~\E i \in Indices : /\ InUse(i) /\ ObjectAt(i) = given[n].object
                                       /\ ~m_Handles[MasterOf(i)].is_destroying)
    BY DEF DestroyedWhenUnused
  <2>1. HandleTypeOK /\ Shape /\ Sound
    BY DEF AllInv, Base
  <2>2. \A n \in 1..MaxMade : destroyed[n] <= 1
    BY <2>1 DEF Sound, Gone
  <2>3. ASSUME ~Removing, NEW n \in DOMAIN given, given[n].object # 0
        PROVE  destroyed[given[n].object] = 1 <=>
                   ~\E i \in Indices : /\ InUse(i) /\ ObjectAt(i) = given[n].object
                                       /\ ~m_Handles[MasterOf(i)].is_destroying
    <3>0. PICK o : o = given[n].object
      OBVIOUS
    <3>1. ~Sweep
      BY <2>1, <2>3, RemovingIs
    <3>2. o \in DOMAIN given /\ given[o].object = o /\ o # 0
      BY <2>1, <2>3, <3>0 DEF Sound, Remembered
    <3>3. \A m \in Indices : Master(m) => /\ InUse(m) /\ MasterOf(m) = m
                                          /\ ObjectAt(m) = m_Handles[m].object
      BY DEF Master, InUse, MasterOf, ObjectAt
    <3>4. \A m \in Indices : Master(m) /\ m_Handles[m].object = o =>
             destroyed[o] = IF m_Handles[m].is_destroying THEN 1 ELSE 0
      BY <2>1, <3>1 DEF Sound, Gone, Doomed
    <3>5. ASSUME NEW i \in Indices, InUse(i), ObjectAt(i) = o
          PROVE  MasterOf(i) \in Indices /\ Master(MasterOf(i)) /\ m_Handles[MasterOf(i)].object = o
      <4>1. m_Handles[i].set \in {"none", "used", "freed", "identity"}
        BY <2>1 DEF HandleTypeOK, QHandles
      <4>2. CASE m_Handles[i].clone = 0
        <5>1. MasterOf(i) = i /\ m_Handles[i].object = o
          BY <3>5, <4>2 DEF MasterOf, ObjectAt
        <5>2. m_Handles[i].set # "identity"
          BY <2>1, <3>2, <3>5, <5>1 DEF Sound, Kinds
        <5> QED BY <3>5, <4>1, <4>2, <5>1, <5>2 DEF Master, InUse
      <4>3. CASE m_Handles[i].clone # 0
        <5>1. Clone(i)
          BY <3>5, <4>3 DEF Clone, InUse
        <5>2. PICK m : m = m_Handles[i].clone
          OBVIOUS
        <5>3. m \in Indices /\ m = MasterOf(i) /\ (InUse(m) => Master(m)) /\ InUse(m)
          <6>1. m \in Indices /\ m = MasterOf(i) /\ (InUse(m) => Master(m))
            BY <2>1, <5>1, <5>2, CloneIs
          <6>2. CloneFits(i, m)
            BY <2>1, <5>1, <5>2 DEF Sound, ClonesFit
          <6> QED BY <3>1, <6>1, <6>2 DEF CloneFits
        <5> QED BY <3>5, <5>3 DEF ObjectAt
      <4> QED BY <4>2, <4>3
    <3>6. ASSUME destroyed[o] = 1, NEW i \in Indices, InUse(i), ObjectAt(i) = o
          PROVE  m_Handles[MasterOf(i)].is_destroying
      BY <3>4, <3>5, <3>6
    <3>7. ASSUME destroyed[o] # 1
          PROVE  \E i \in Indices : /\ InUse(i) /\ ObjectAt(i) = o
                                    /\ ~m_Handles[MasterOf(i)].is_destroying
      <4>1. PICK m \in Indices : Master(m) /\ m_Handles[m].object = o
        BY <2>1, <3>2, <3>7 DEF Sound, Gone
      <4>2. ~m_Handles[m].is_destroying
        BY <3>4, <3>7, <4>1
      <4> QED BY <3>3, <4>1, <4>2
    <3> QED BY <3>0, <3>6, <3>7
  <2> QED BY <2>2, <2>3
<1> QED BY <1>1, HandlesSound, PTL

(* Until something is mangled, the value of a handle that is gone does not read
   what has its index now, as GetHandle() compares the serials: for a whole round
   of serials. *)
THEOREM StaleValuesReadNothing == Spec => []StaleNeverReads
<1>1. AllInv => StaleNeverReads
  <2> SUFFICES ASSUME AllInv, ~mangled, NEW n \in DOMAIN given, NEW i, i = given[n].index,
                      m_Handles[i].set = "used", m_Handles[i].serial = given[n].serial,
                      Len(given) - n < MaxSerials - 1
               PROVE  ObjectAt(i) = given[n].object
    BY DEF StaleNeverReads
  <2>1. HandleTypeOK /\ Serials /\ Sound
    BY DEF AllInv, Base
  <2>2. DOMAIN given = 1..Len(given) /\ Len(given) \in Nat /\ \A k \in DOMAIN given : given[k] \in Values
    BY <2>1, LenProperties, ElementOfSeq DEF HandleTypeOK
  <2>3. i \in Indices /\ InUse(i)
    BY <2>2 DEF Values, InUse
  <2>4. PICK k \in DOMAIN given : IsValueOf(i, k)
    BY <2>1, <2>3 DEF Sound, Remembered
  <2>5. /\ Latest(i, k) /\ given[k].serial = given[n].serial /\ given[k].object = ObjectAt(i)
    BY <2>4 DEF IsValueOf
  <2>6. n <= k
    BY <2>5 DEF Latest
  <2>7. n = k
    <3>1. SUFFICES ASSUME n < k PROVE FALSE
      BY <2>2, <2>6
    <3>2. k - n < Period /\ Period \in Nat
      BY <2>2, HandleConstants DEF Period
    <3>3. given[k].serial - given[n].serial \in {k - n, k - n - Period}
      BY <2>1, <3>1, <3>2 DEF Serials
    <3>4. given[k].serial \in Nat
      BY <2>2, HandleConstants DEF Values
    <3> QED BY <2>2, <2>5, <3>1, <3>2, <3>3, <3>4
  <2> QED BY <2>5, <2>7
<1> QED BY <1>1, HandlesSound, PTL

(* Until something is mangled, no handle in use has an owner that is gone:
   ReleasePrimHandle() of an identity finds everything it owns. *)
THEOREM UnloadComplete == Spec => [](~mangled => UnloadReleasesAll)
<1>1. AllInv => (~mangled => UnloadReleasesAll)
  BY DEF AllInv, Sound
<1> QED BY <1>1, HandlesSound, PTL
=============================================================================
