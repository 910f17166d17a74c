------------------------------- MODULE ApiKey -------------------------------
(***************************************************************************)
(* What synapi_api_key() stores for the bytes it is given, and what        *)
(* curl_escape() makes of it for the URLs.  A C string is the sequence of  *)
(* its bytes; a byte is a member of a small set in which only CR, LF and   *)
(* NUL are told apart, and the reserved ones, which curl_escape() replaces *)
(* by a %XX triple, from the unreserved ones.                              *)
(***************************************************************************)
EXTENDS Integers, Sequences, FiniteSets

CONSTANTS KeySize,      \* sizeof(handle->api_key), 256 in synapi.h
          CR, LF, NUL,  \* '\r', '\n' and '\0'
          Unreserved    \* the bytes curl_escape() copies unchanged

ASSUME KeySizeAssumption == KeySize \in Nat \ {0}

(***************************************************************************)
(* The bytes up to and including the first b: the code finds b with        *)
(* strchr() and writes the terminator one place AFTER it.  (The places     *)
(* that no b precedes are the first ones, so their number is where to cut.)*)
(***************************************************************************)
CutAfter(s, b) ==
    SubSeq(s, 1, Cardinality({k \in DOMAIN s : \A j \in 1..(k - 1) : s[j] # b}))

(* The bytes before the first b. *)
CutBefore(s, b) ==
    SubSeq(s, 1, Cardinality({k \in DOMAIN s : \A j \in 1..k : s[j] # b}))

(* Variant: sizes up to the array's are cut by one. *)
UsableSizeLessOne(size) == IF size > KeySize THEN KeySize - 1
                           ELSE IF size = 0 THEN 0 ELSE size - 1

(* How many bytes are copied; the terminator is written at this index. *)
UsableSize(size) == IF size > KeySize THEN KeySize - 1 ELSE size

(* api_key[usable_size] lies past the end of the array. *)
Overruns(bytes) == UsableSize(Len(bytes)) >= KeySize

(* strncpy() stops at the first NUL; then the two searches, in this order. *)
StoredKey(bytes) ==
    LET copied == CutBefore(SubSeq(bytes, 1, UsableSize(Len(bytes))), NUL)
    IN  CutAfter(CutAfter(copied, CR), LF)

(* One element per character of the URL text: the byte, or its %XX form. *)
curl_escape(s) ==
    [k \in DOMAIN s |-> [percent |-> s[k] \notin Unreserved, byte |-> s[k]]]
=============================================================================
