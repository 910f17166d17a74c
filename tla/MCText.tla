------------------------------- MODULE MCText -------------------------------
(***************************************************************************)
(* The two text functions of the library for TLC.  They share nothing, so  *)
(* each is run while the other is at its start: the query string builder   *)
(* as SynapiQuery has it, and synapi_api_key() on every string of at most  *)
(* KeySize + 1 bytes.                                                      *)
(***************************************************************************)
EXTENDS SynapiQuery, ApiKey

CONSTANT Bytes

VARIABLES bytes,    \* what the response body or the caller supplied
          api_key   \* what synapi_api_key() left in the handle

textVars == <<vars, bytes, api_key>>

TextInit == Init /\ bytes = <<>> /\ api_key = <<>>

Extend(b) == /\ Len(bytes) <= KeySize
             /\ bytes' = Append(bytes, b) /\ api_key' = StoredKey(bytes')

Restart == Len(bytes) > KeySize /\ bytes' = <<>> /\ api_key' = StoredKey(<<>>)

StoreKey == count = 0 /\ result = -1 /\ (Restart \/ \E b \in Bytes : Extend(b)) /\ UNCHANGED vars

BuildQuery == bytes = <<>> /\ Next /\ UNCHANGED <<bytes, api_key>>

TextNext == BuildQuery \/ StoreKey

TextSpec == TextInit /\ [][TextNext]_textVars

-----------------------------------------------------------------------------
(* The key a plugin saves and passes to synapi_init_with_api_key() after a
   restart is stored as the same key again, however it was cut the first
   time. *)
RestartKeepsKey == StoredKey(api_key) = api_key
=============================================================================
