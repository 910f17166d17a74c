---------------------------- MODULE HandleSystem ----------------------------
(***************************************************************************)
(* SourceMod's handles (core/HandleSys.cpp): a vector of QHandles with the *)
(* free ones on a stack, serial numbers that tell an old handle value from *)
(* the present one, clones that share a master's object and count in its   *)
(* refcount, and for each identity (plugin) a chain of what it owns, linked*)
(* through the vector; the identity's own handle holds its head (ch_prev)  *)
(* and tail (ch_next).                                                     *)
(*                                                                         *)
(* All on one thread, but OnHandleDestroy() of a type may use handles, so  *)
(* the calls that wait for one are a stack of frames: the destruction of a *)
(* master ("free"), the release of an identity ("identity"), and           *)
(* RemoveType() with its place in the vector ("type").                     *)
(*                                                                         *)
(* OnHandleDestroy() may create, clone and free handles of any kind, what  *)
(* is being destroyed included: that of a timer frees the plugin's data,   *)
(* that of a TopMenu calls the plugin.  Identities and types come and go   *)
(* outside of it.                                                          *)
(***************************************************************************)
EXTENDS Integers, FiniteSets, SequencesExt

CONSTANTS MaxHandles,  \* HANDLESYS_MAX_HANDLES
          MaxSerials,  \* HANDLESYS_MAX_SERIALS
          Tokens,      \* the identity tokens; one is never created again
          Types,
          MaxMade,     \* bound on the handles that are made
          MaxDepth,    \* bound on calls inside each other
          NULL

ASSUME HandleConstants == /\ MaxHandles \in Nat \ {0} /\ MaxSerials \in Nat \ {0, 1}
                          /\ MaxMade \in Nat /\ MaxDepth \in Nat \ {0}
                          /\ NULL \notin Tokens \cup Types

VARIABLES m_Handles, m_FreeHandles, m_HandleTail, m_HSerial,
          types,       \* the types that have a dispatch
          opened,      \* how many handles each type has
          identity,    \* the handle of each token: 0 before it has one, -1 once deleted
          stack,       \* calls that wait for OnHandleDestroy(), innermost last
          given,       \* every handle value so far: index, serial, object
          destroyed,   \* how often OnHandleDestroy() was called for each object
          mangled,     \* the books are wrong from here on: a second unlink has changed
                       \* somebody's links, an index was given out to which clones of its
                       \* last handle still refer, or an OnHandleDestroy() has cloned, or
                       \* freed a clone of, what is being destroyed (or cloned a handle
                       \* of a type that is being removed)
          crashed      \* a type without a dispatch was called

vars == <<m_Handles, m_FreeHandles, m_HandleTail, m_HSerial, types, opened, identity,
          stack, given, destroyed, mangled, crashed>>

Indices == 1..MaxHandles

NoHandle == [set |-> "none", type |-> NULL, object |-> 0, owner |-> NULL, serial |-> 0,
             refcount |-> 0, clone |-> 0, is_destroying |-> FALSE, ch_prev |-> 0, ch_next |-> 0]

Init ==
    /\ m_Handles = [i \in Indices |-> NoHandle]
    /\ m_FreeHandles = <<>> /\ m_HandleTail = 0 /\ m_HSerial = 0
    /\ types = Types /\ opened = [t \in Types |-> 0]
    /\ identity = [t \in Tokens |-> 0]
    /\ stack = <<>> /\ given = <<>> /\ destroyed = [n \in 1..MaxMade |-> 0]
    /\ mangled = FALSE /\ crashed = FALSE

Live      == {t \in Tokens : identity[t] > 0}
Frame(op, i, type, at) == [op |-> op, i |-> i, type |-> type, at |-> at]
Top       == stack[Len(stack)]
Idle      == ~crashed /\ stack = <<>>
InDestroy == ~crashed /\ stack # <<>> /\ Top.at = "destroy"
At(op, at) == ~crashed /\ stack # <<>> /\ Top.op = op /\ Top.at = at
Popped    == SubSeq(stack, 1, Len(stack) - 1)

-----------------------------------------------------------------------------
(* Links of handle 0 are written but never read. *)
SetPrev(h, i, p) == IF i = 0 THEN h ELSE [h EXCEPT ![i].ch_prev = p]
SetNext(h, i, n) == IF i = 0 THEN h ELSE [h EXCEPT ![i].ch_next = n]

(* MakePrimHandle() puts a new handle at the tail of its owner's chain. *)
Link(h, i, id) ==
    IF id = 0 THEN h
    ELSE IF h[id].ch_prev = 0 THEN [h EXCEPT ![id].ch_prev = i, ![id].ch_next = i]
    ELSE [SetNext([h EXCEPT ![i].ch_prev = h[id].ch_next], h[id].ch_next, i)
            EXCEPT ![id].ch_next = i]

(* The handles IdentityHandle(owner) can find.  A deleted token is read all
   the same: what it still holds finds nothing, what the memory was used for
   since may be any identity. *)
IdentityHandle(owner) ==
    IF owner = NULL THEN {0}
    ELSE IF owner \in Live THEN {identity[owner]}
    ELSE {0} \cup {identity[t] : t \in Live}

(* Variant: the tail of a chain is unlinked like one in the middle. *)
UnlinkWithoutTail(h, i, id) ==
    IF id = 0 THEN h
    ELSE IF i = h[id].ch_prev THEN
        IF i = h[id].ch_next THEN [h EXCEPT ![id].ch_prev = 0, ![id].ch_next = 0]
        ELSE SetPrev([h EXCEPT ![id].ch_prev = h[i].ch_next], h[i].ch_next, 0)
    ELSE SetNext(SetPrev(h, h[i].ch_next, h[i].ch_prev), h[i].ch_prev, h[i].ch_next)

(* Head and tail, head, tail, or in the middle of the chain of identity id. *)
UnlinkHandleFromOwner(h, i, id) ==
    LET p == h[i].ch_prev  n == h[i].ch_next
    IN  IF id = 0 THEN h
        ELSE CASE i = h[id].ch_prev /\ i = h[id].ch_next ->
                      [h EXCEPT ![id].ch_prev = 0, ![id].ch_next = 0]
               [] i = h[id].ch_prev /\ i # h[id].ch_next ->
                      SetPrev([h EXCEPT ![id].ch_prev = n], n, 0)
               [] i # h[id].ch_prev /\ i = h[id].ch_next ->
                      SetNext([h EXCEPT ![id].ch_next = p], p, 0)
               [] OTHER -> SetNext(SetPrev(h, n, p), p, n)

(* A master that was freed before its clones has been unlinked already. *)
ReleasePrimHandle(h, i, id) ==
    [UnlinkHandleFromOwner(h, i, id) EXCEPT ![i].set = "none"]

Mangles(h, i, id) == h[i].set = "freed" /\ UnlinkHandleFromOwner(h, i, id) # h

-----------------------------------------------------------------------------
CanAlloc == m_FreeHandles # <<>> \/ m_HandleTail < MaxHandles

TryAllocHandle == IF m_FreeHandles = <<>> THEN m_HandleTail + 1
                  ELSE m_FreeHandles[Len(m_FreeHandles)]

(* Variant: only a new index gets a new serial. *)
SerialPerIndex == IF m_FreeHandles # <<>> THEN m_HSerial
                  ELSE IF m_HSerial + 1 >= MaxSerials THEN 1 ELSE m_HSerial + 1

NextSerial == IF m_HSerial + 1 >= MaxSerials THEN 1 ELSE m_HSerial + 1

(* The handles in use that refer to m as their master. *)
Clones(m) == {i \in Indices : m_Handles[i].set # "none" /\ m_Handles[i].clone = m}

(* The new handle, with the master it is a clone of; h is the vector after
   what the caller does to it. *)
MakePrimHandle(h, set, type, object, owner, clone) ==
    LET i  == TryAllocHandle
        id == IF set = "identity" \/ owner = NULL THEN 0 ELSE identity[owner]
    IN  /\ ~crashed /\ Len(given) < MaxMade /\ CanAlloc
        /\ m_FreeHandles' = IF m_FreeHandles = <<>> THEN <<>>
                            ELSE SubSeq(m_FreeHandles, 1, Len(m_FreeHandles) - 1)
        /\ m_HandleTail' = IF m_FreeHandles = <<>> THEN i ELSE m_HandleTail
        /\ m_HSerial' = NextSerial
        /\ m_Handles' = Link([h EXCEPT ![i] =
              [NoHandle EXCEPT !.set = set, !.type = type, !.object = object, !.owner = owner,
                               !.serial = NextSerial, !.refcount = 1, !.clone = clone]], i, id)
        /\ given' = Append(given, [index |-> i, serial |-> NextSerial,
                                   object |-> IF clone = 0 THEN object ELSE h[clone].object])

(* An index is given out to which clones of its last handle still refer. *)
GivenOutTwice == Clones(TryAllocHandle) # {}

CreateIdentity(t) ==
    /\ Idle /\ identity[t] = 0
    /\ MakePrimHandle(m_Handles, "identity", NULL, 0, NULL, 0)
    /\ identity' = [identity EXCEPT ![t] = TryAllocHandle]
    /\ mangled' = (mangled \/ GivenOutTwice)
    /\ UNCHANGED <<types, opened, stack, destroyed, crashed>>

(* Each call is for a new object. *)
CreateHandle(type, owner) ==
    /\ Idle \/ InDestroy
    /\ type \in types
    /\ MakePrimHandle(m_Handles, "used", type, Len(given) + 1, owner, 0)
    /\ opened' = [opened EXCEPT ![type] = @ + 1]
    /\ mangled' = (mangled \/ GivenOutTwice)
    /\ UNCHANGED <<types, identity, stack, destroyed, crashed>>

MasterOf(i) == IF m_Handles[i].clone # 0 THEN m_Handles[i].clone ELSE i

(* Nothing refers to m any more: FreeHandle() or RemoveType() is destroying its
   object, or has. *)
BeyondUse(m) == m_Handles[m].is_destroying \/ m_Handles[m].refcount <= 0

(* CloneHandle() does not ask whether the master is being destroyed, or its type
   removed. *)
CloneHandle(i, newOwner) ==
    LET m == MasterOf(i)  type == m_Handles[m].type
    IN  /\ Idle \/ InDestroy
        /\ m_Handles[i].set = "used"
        /\ MakePrimHandle([m_Handles EXCEPT ![m].refcount = @ + 1], "used", type, 0, newOwner, m)
        /\ opened' = [opened EXCEPT ![type] = @ + 1]
        /\ mangled' = (mangled \/ GivenOutTwice \/ BeyondUse(m) \/ type \notin types)
        /\ UNCHANGED <<types, identity, stack, destroyed, crashed>>

-----------------------------------------------------------------------------
(* Variant: a master does not count its own reference. *)
NoneButOwn(h, m) == h[m].refcount <= 1

NoneLeft(h, m) == h[m].refcount = 0

(* The last reference to i is gone: OnHandleDestroy() is called. *)
OnHandleDestroy(h, i) ==
    IF h[i].type \in types
    THEN /\ m_Handles' = [h EXCEPT ![i].is_destroying = TRUE]
         /\ destroyed' = [destroyed EXCEPT ![h[i].object] = @ + 1]
         /\ stack' = Append(stack, Frame("free", i, NULL, "destroy"))
         /\ UNCHANGED crashed
    ELSE crashed' = TRUE /\ m_Handles' = h /\ UNCHANGED <<stack, destroyed>>

FreeClone(i) ==
    LET m == m_Handles[i].clone
    IN  /\ m # 0
        /\ \E id \in IdentityHandle(m_Handles[i].owner) :
              LET h == [ReleasePrimHandle(m_Handles, i, id) EXCEPT ![m].refcount = @ - 1]
              IN  /\ mangled' = (mangled \/ Mangles(m_Handles, i, id) \/ BeyondUse(m))
                  /\ IF NoneLeft(h, m) THEN OnHandleDestroy(h, m)
                     ELSE m_Handles' = h /\ UNCHANGED <<stack, destroyed, crashed>>
        /\ m_FreeHandles' = Append(m_FreeHandles, i)
        /\ opened' = [opened EXCEPT ![m_Handles[i].type] = @ - 1]

FreeIdentity(i) ==
    /\ m_Handles[i].clone = 0 /\ m_Handles[i].set = "identity"
    /\ stack' = Append(stack, Frame("identity", i, NULL, "look"))
    /\ UNCHANGED <<m_Handles, m_FreeHandles, opened, destroyed, mangled, crashed>>

(* A master that still has clones is marked and leaves its owner's chain. *)
FreeMaster(i) ==
    LET h == [m_Handles EXCEPT ![i].refcount = @ - 1]
    IN  /\ h[i].clone = 0 /\ h[i].set # "identity"
        /\ IF NoneLeft(h, i) THEN OnHandleDestroy(h, i)
           ELSE /\ \E id \in IdentityHandle(h[i].owner) :
                      m_Handles' = UnlinkHandleFromOwner([h EXCEPT ![i].set = "freed"], i, id)
                /\ UNCHANGED <<stack, destroyed, crashed>>
        /\ UNCHANGED <<m_FreeHandles, opened, mangled>>

FreeAt(i) == FreeClone(i) \/ FreeIdentity(i) \/ FreeMaster(i)

(* FreeHandle() with a valid value of handle i, a clone's as well: by its owner,
   or by an OnHandleDestroy().  One that is being destroyed is left alone. *)
FreeHandle(i) ==
    /\ Idle \/ (InDestroy /\ Len(stack) < MaxDepth)
    /\ m_Handles[i].set = "used" /\ ~m_Handles[i].is_destroying
    /\ FreeAt(i)
    /\ UNCHANGED <<m_HandleTail, m_HSerial, types, identity, given>>

(* OnHandleDestroy() that FreeHandle() called returns. *)
DestroyReturns ==
    LET i == Top.i
    IN  /\ At("free", "destroy")
        /\ \E id \in IdentityHandle(m_Handles[i].owner) :
              /\ m_Handles' = ReleasePrimHandle(m_Handles, i, id)
              /\ mangled' = (mangled \/ Mangles(m_Handles, i, id))
        /\ m_FreeHandles' = Append(m_FreeHandles, i)
        /\ opened' = [opened EXCEPT ![m_Handles[i].type] = @ - 1]
        /\ stack' = Popped
        /\ UNCHANGED <<m_HandleTail, m_HSerial, types, identity, given, destroyed, crashed>>

-----------------------------------------------------------------------------
DestroyIdentity(t) ==
    /\ Idle /\ t \in Live
    /\ FreeAt(identity[t])
    /\ UNCHANGED <<m_HandleTail, m_HSerial, types, identity, given>>

(* ReleasePrimHandle() of an identity frees what it owns from the tail. *)
FreeOwned ==
    /\ At("identity", "look") /\ m_Handles[Top.i].ch_next # 0 /\ Len(stack) < MaxDepth
    /\ FreeAt(m_Handles[Top.i].ch_next)
    /\ UNCHANGED <<m_HandleTail, m_HSerial, types, identity, given>>

(* The identity's handle is free and ShareSys deletes the token. *)
IdentityReleased ==
    /\ At("identity", "look") /\ m_Handles[Top.i].ch_next = 0
    /\ m_Handles' = [m_Handles EXCEPT ![Top.i].set = "none"]
    /\ m_FreeHandles' = Append(m_FreeHandles, Top.i)
    /\ identity' = [t \in Tokens |-> IF identity[t] = Top.i THEN -1 ELSE identity[t]]
    /\ stack' = Popped
    /\ UNCHANGED <<m_HandleTail, m_HSerial, types, opened, given, destroyed, mangled, crashed>>

-----------------------------------------------------------------------------
CreateType(type) ==
    /\ Idle /\ type \notin types
    /\ types' = types \cup {type} /\ opened' = [opened EXCEPT ![type] = 0]
    /\ UNCHANGED <<m_Handles, m_FreeHandles, m_HandleTail, m_HSerial, identity, stack, given,
                   destroyed, mangled, crashed>>

RemoveType(type) ==
    /\ Idle /\ type \in types
    /\ types' = types \ {type}
    /\ stack' = IF opened[type] = 0 THEN stack ELSE <<Frame("type", 1, type, "look")>>
    /\ UNCHANGED <<m_Handles, m_FreeHandles, m_HandleTail, m_HSerial, opened, identity, given,
                   destroyed, mangled, crashed>>

OfType == {i \in Top.i..m_HandleTail : m_Handles[i].set # "none" /\ m_Handles[i].type = Top.type}
Scanned(i) == [stack EXCEPT ![Len(stack)].i = i + 1, ![Len(stack)].at = "look"]

(* The next handle of the type gives up its reference. *)
RemoveNext ==
    /\ At("type", "look") /\ opened[Top.type] # 0 /\ OfType # {}
    /\ LET i == CHOOSE i \in OfType : \A j \in OfType : i <= j
           m == MasterOf(i)
           h == [m_Handles EXCEPT ![m].refcount = @ - 1]
       IN  IF NoneLeft(h, m)
           THEN /\ m_Handles' = h
                /\ destroyed' = [destroyed EXCEPT ![h[m].object] = @ + 1]
                /\ stack' = [stack EXCEPT ![Len(stack)].i = i, ![Len(stack)].at = "destroy"]
                /\ UNCHANGED <<m_FreeHandles, opened, mangled>>
           ELSE /\ stack' = Scanned(i)
                /\ IF m = i THEN m_Handles' = h /\ UNCHANGED <<m_FreeHandles, opened, mangled>>
                   ELSE /\ \E id \in IdentityHandle(h[i].owner) :
                              /\ m_Handles' = ReleasePrimHandle(h, i, id)
                              /\ mangled' = (mangled \/ Mangles(h, i, id))
                        /\ m_FreeHandles' = Append(m_FreeHandles, i)
                        /\ opened' = [opened EXCEPT ![Top.type] = @ - 1]
                /\ UNCHANGED destroyed
    /\ UNCHANGED <<m_HandleTail, m_HSerial, types, identity, given, crashed>>

(* Variant: the clone that gave up the last reference is forgotten. *)
KeepClone(i, m) == <<m>>

(* What is released, in order, when the last reference was that of i. *)
ReleasedWith(i, m) == IF m = i THEN <<i>> ELSE <<m, i>>

(* OnHandleDestroy() that RemoveType() called returns. *)
RemoveReturns ==
    LET i == Top.i
        r == ReleasedWith(i, MasterOf(i))
    IN  /\ At("type", "destroy")
        /\ \E id \in IdentityHandle(m_Handles[Head(r)].owner),
              jd \in IdentityHandle(m_Handles[r[Len(r)]].owner) :
              LET h == ReleasePrimHandle(m_Handles, Head(r), id)
              IN  /\ m_Handles' = IF Len(r) = 1 THEN h ELSE ReleasePrimHandle(h, r[2], jd)
                  /\ mangled' = (mangled \/ Mangles(m_Handles, Head(r), id)
                                         \/ (Len(r) = 2 /\ Mangles(h, r[2], jd)))
        /\ m_FreeHandles' = m_FreeHandles \o r
        /\ opened' = LET o == [opened EXCEPT ![m_Handles[Head(r)].type] = @ - 1]
                     IN  IF Len(r) = 1 THEN o ELSE [o EXCEPT ![m_Handles[r[2]].type] = @ - 1]
        /\ stack' = Scanned(i)
        /\ UNCHANGED <<m_HandleTail, m_HSerial, types, identity, given, destroyed, crashed>>

RemoveDone ==
    /\ At("type", "look") /\ (opened[Top.type] = 0 \/ OfType = {})
    /\ stack' = Popped
    /\ UNCHANGED <<m_Handles, m_FreeHandles, m_HandleTail, m_HSerial, types, opened, identity,
                   given, destroyed, mangled, crashed>>

-----------------------------------------------------------------------------
Users == \/ \E t \in Tokens : CreateIdentity(t) \/ DestroyIdentity(t)
         \/ \E type \in Types : \/ CreateType(type) \/ RemoveType(type)
                                \/ \E owner \in Live \cup {NULL} : CreateHandle(type, owner)
         \/ \E i \in Indices : FreeHandle(i) \/ \E owner \in Live : CloneHandle(i, owner)

Returns == DestroyReturns \/ FreeOwned \/ IdentityReleased
           \/ RemoveNext \/ RemoveReturns \/ RemoveDone

Next == Users \/ Returns

Spec == Init /\ [][Next]_vars

-----------------------------------------------------------------------------
InUse(i)     == m_Handles[i].set # "none"
Removing     == \E k \in DOMAIN stack : stack[k].op = "type"
ObjectAt(i)  == m_Handles[MasterOf(i)].object
Owned(t)     == {i \in Indices : m_Handles[i].set = "used" /\ m_Handles[i].owner = t}

(* Which handle of all that were made is at index i now. *)
MadeAs(i) == CHOOSE n \in DOMAIN given : /\ given[n].index = i
                                         /\ \A k \in DOMAIN given : given[k].index = i => k <= n

QHandles == [set : {"none", "used", "freed", "identity"}, type : Types \cup {NULL},
             object : 0..MaxMade, owner : Tokens \cup {NULL}, serial : 0..(MaxSerials - 1),
             refcount : Int, clone : 0..MaxHandles, is_destroying : BOOLEAN,
             ch_prev : 0..MaxHandles, ch_next : 0..MaxHandles]
Values   == [index : Indices, serial : 1..(MaxSerials - 1), object : 0..MaxMade]
Frames   == [op : {"free", "identity", "type"}, i : 1..(MaxHandles + 1),
             type : Types \cup {NULL}, at : {"look", "destroy"}]

(* Type invariant: a serial fits in the upper half of a handle value. *)
HandleTypeOK ==
    /\ m_Handles \in [Indices -> QHandles]
    /\ m_FreeHandles \in Seq(Indices) /\ m_HandleTail \in 0..MaxHandles
    /\ m_HSerial \in 0..(MaxSerials - 1)
    /\ types \subseteq Types /\ opened \in [Types -> Int] /\ identity \in [Tokens -> -1..MaxHandles]
    /\ stack \in Seq(Frames) /\ Len(stack) <= MaxDepth
    /\ given \in Seq(Values) /\ Len(given) <= MaxMade
    /\ destroyed \in [1..MaxMade -> Nat] /\ mangled \in BOOLEAN /\ crashed \in BOOLEAN

(* The free stack holds exactly the handles that are not set, each once, with
   handles made, cloned and freed from inside OnHandleDestroy(): no index is
   given out twice and none is lost, as long as no OnHandleDestroy() clones, or
   frees a clone of, what is being destroyed (ReleasePrimHandle() would then
   release it twice). *)
SlotsConserved ==
    ~mangled => /\ ToSet(m_FreeHandles) = {i \in 1..m_HandleTail : ~InUse(i)}
                /\ IsInjective(m_FreeHandles)
                /\ \A i \in (m_HandleTail + 1)..MaxHandles : ~InUse(i)

(* HandleSys.h:64: "Each subsequent Handle who is owned by that identity is
   mapped into that list": from head to tail, in the order they were made,
   and back. *)
OwnerChains ==
    \A t \in Live :
      LET h == m_Handles  head == h[identity[t]].ch_prev  tail == h[identity[t]].ch_next
      IN  /\ IF Owned(t) = {} THEN head = 0 /\ tail = 0
             ELSE /\ {head, tail} \subseteq Owned(t)
                  /\ h[head].ch_prev = 0 /\ h[tail].ch_next = 0
          /\ \A i \in Owned(t) :
               /\ i # tail => /\ h[i].ch_next \in Owned(t) /\ h[h[i].ch_next].ch_prev = i
                              /\ MadeAs(i) < MadeAs(h[i].ch_next)
               /\ i # head => h[i].ch_prev \in Owned(t) /\ h[h[i].ch_prev].ch_next = i

(* The chains are exact as long as no master's second unlink has written over
   its former neighbours. *)
ChainsUntilMangled == ~mangled => OwnerChains

(* An object is destroyed once, and exactly when nothing refers to it: not
   while a clone can still be read, also if the master, or the plugin that
   made it, is gone, and whatever other handles an OnHandleDestroy() clones or
   frees.  (CloneHandle() of what is being destroyed gives a clone that outlives
   the object, or destroys it again when it is freed, and one of a removed type
   may be behind RemoveType()'s place: see mangled.  RemoveType()
   may destroy it before it has come to the last clone.) *)
DestroyedWhenUnused ==
    ~mangled =>
      /\ \A n \in 1..MaxMade : destroyed[n] <= 1
      /\ ~Removing => \A n \in DOMAIN given : given[n].object # 0 =>
            (destroyed[given[n].object] = 1 <=>
                ~\E i \in Indices : /\ InUse(i) /\ ObjectAt(i) = given[n].object
                                    /\ ~m_Handles[MasterOf(i)].is_destroying)

(* A master counts its clones, and itself until it is freed. *)
RefcountsExact ==
    ~mangled /\ ~Removing =>
      \A m \in Indices : InUse(m) /\ m_Handles[m].clone = 0 /\ m_Handles[m].set # "identity"
                         /\ ~m_Handles[m].is_destroying =>
          m_Handles[m].refcount = Cardinality(Clones(m))
                                  + (IF m_Handles[m].set = "used" THEN 1 ELSE 0)

(* A handle value that outlives its handle never reads another object,
   although indices and serials are used again, until a whole round of
   serials later. *)
StaleNeverReads ==
    ~mangled => \A n \in DOMAIN given :
      LET v == given[n]
      IN  /\ m_Handles[v.index].set = "used" /\ m_Handles[v.index].serial = v.serial
          /\ Len(given) - n < MaxSerials - 1
          => ObjectAt(v.index) = v.object

(* RemoveType() leaves no handle of its type, so the type's id can be used
   again, unless one was cloned while it ran; and each type knows how many
   handles it has. *)
TypesCounted ==
    ~mangled => \A type \in Types :
      /\ opened[type] = Cardinality({i \in Indices : InUse(i) /\ m_Handles[i].type = type})
      /\ type \notin types /\ ~Removing => opened[type] = 0

(* The books of the handle system agree with each other: the free stack, the
   reference counts and the types' counts with the vector. *)
HandleInv == HandleTypeOK /\ SlotsConserved /\ RefcountsExact /\ TypesCounted

(* HandleSys.cpp:810: "We need to find everything connected to this identity
   and release it": no handle in use has an owner that is gone. *)
UnloadReleasesAll ==
    \A i \in Indices : m_Handles[i].set = "used" => m_Handles[i].owner \in Live \cup {NULL}

Symmetry == Permutations(Tokens)

(* Where a run stops: of what follows nothing is claimed. *)
Intact == ~mangled
=============================================================================
