---------------------------- MODULE SynapiQuery -----------------------------
(***************************************************************************)
(* synapi_build_query_string() and synapi_add_parameter(): the text of a   *)
(* request is put together in a buffer of fixed size.  Only lengths are    *)
(* kept: that of the string in the buffer, and the code's own count of it, *)
(* buffer_size, which starts at 1 if there are options and at 0 if not.    *)
(***************************************************************************)
EXTENDS Integers

CONSTANTS BufferMax,    \* buffer_max, 2048
          PointerSize,  \* sizeof(buffer), which is a pointer
          AttrLens,     \* the lengths of the attribute names, each with its "="
          ValueLens,    \* the lengths of the (escaped) values
          MethodLens,   \* the lengths of "post", "put" and "delete"
          MethodAttr,   \* the length of "_method="
          MaxOptions    \* bound on the number of options of a call

ASSUME LengthsAssumption ==
    /\ BufferMax \in Nat \ {0}
    /\ PointerSize \in Nat /\ MethodAttr \in Nat /\ MaxOptions \in Nat
    /\ AttrLens \subseteq Nat /\ ValueLens \subseteq Nat /\ MethodLens \subseteq Nat

(* "server_player[name]=" is the shortest attribute, and longer than a pointer. *)
ASSUME AttrAssumption == \A a \in AttrLens : a >= PointerSize

VARIABLES buffer_size,  \* the code's count
          len,          \* strlen(buffer)
          count,        \* options added so far
          whole,        \* the length of everything that should be in the buffer
          result        \* strlen(request->query), -1 until it is there

vars == <<buffer_size, len, count, whole, result>>

Init == /\ buffer_size \in {0, 1}
        /\ len = 0 /\ count = 0 /\ whole = 0 /\ result = -1

(* Variant: the terminator is not allowed for. *)
RoomOneMore(n, size) == IF n > BufferMax - size + 1 THEN BufferMax - size + 1 ELSE n

(* How many of n characters synapi_add_parameter() allows: none, or fewer
   than none, when buffer_size has passed buffer_max. *)
Room(n, size) == IF n > BufferMax - size THEN BufferMax - size ELSE n

(* strncat() takes the limit as unsigned: a negative one is no limit. *)
strncat(n, limit) == IF limit < 0 \/ limit > n THEN n ELSE limit

(* Variant: the count is not moved on by the attribute. *)
AddParameterUncounted(n, m, size, at) ==
    [size |-> size + Room(m, size),
     len  |-> at + strncat(n, Room(n, size)) + strncat(m, Room(m, size))]

(* The attribute, then the value, from a count of size and a length of at. *)
synapi_add_parameter(n, m, size, at) ==
    LET k == Room(n, size)
        j == Room(m, size + k)
    IN  [size |-> size + k + j, len |-> at + strncat(n, k) + strncat(m, j)]

(***************************************************************************)
(* One option.  From the second on a separator comes first; its limit is   *)
(* computed from the size of the pointer, and is wrong except that it is   *)
(* never 0 and, past the size of a pointer, wraps around.                  *)
(***************************************************************************)
Option(n, m) ==
    /\ result = -1 /\ buffer_size > 0 /\ count < MaxOptions
    /\ LET sep   == IF buffer_size > 1 THEN 1 ELSE 0
           size  == buffer_size + sep
           at    == len + (IF sep = 0 THEN 0 ELSE strncat(1, PointerSize - size))
           added == synapi_add_parameter(n, m, size, at)
       IN  /\ buffer_size' = added.size /\ len' = added.len
           /\ whole' = whole + sep + n + m
    /\ count' = count + 1
    /\ UNCHANGED result

(* The last separator and the method; the result is cut at buffer_size. *)
Finish(m) ==
    /\ result = -1
    /\ LET sep   == IF buffer_size > 1 THEN 1 ELSE 0
           added == synapi_add_parameter(MethodAttr, m, buffer_size + sep, len + sep)
       IN  /\ buffer_size' = added.size /\ len' = added.len
           /\ whole' = whole + sep + MethodAttr + m
           /\ result' = IF added.len > added.size THEN added.size ELSE added.len
    /\ UNCHANGED count

Done == result # -1 /\ UNCHANGED vars

Next == \/ \E n \in AttrLens, m \in ValueLens : Option(n, m)
        \/ \E m \in MethodLens : Finish(m)
        \/ Done

Spec == Init /\ [][Next]_vars

-----------------------------------------------------------------------------
(* Type invariant: the count, which becomes the size of the result, never
   ends up past the buffer, however much there is to append. *)
QueryTypeOK ==
    /\ buffer_size \in 0..BufferMax /\ len \in Nat
    /\ count \in Nat /\ whole \in Nat
    /\ result \in -1..BufferMax

(* The string is one shorter than the count, or as long if there are no
   options: what leaves room for the terminator. *)
Counted == buffer_size \in {len, len + 1} /\ (count > 0 => buffer_size = len + 1)

(* A query that fits the buffer with its terminator arrives whole: nothing is
   cut, no separator is lost, and nothing is written past the buffer, although
   both appends and both separators are limited by counts of their own. *)
QueryWhole ==
    whole < BufferMax => /\ len = whole
                         /\ result \in {-1, whole}
                         /\ Counted

(* As long as the count is below the size of the buffer, an option or the
   method, however long, leaves the string inside the buffer: the append that
   does not fit is cut at its end, and the separator, whose limit has wrapped
   around, adds just the one character that was counted.  Only what is added
   to a buffer that is full by then goes past it, and the count stays at the
   buffer's size, where the result is cut. *)
CutFits ==
    [][/\ buffer_size \in 1..(BufferMax - 1) => len' < BufferMax
       /\ buffer_size = BufferMax => buffer_size' = BufferMax]_vars
=============================================================================
