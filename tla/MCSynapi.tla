------------------------------ MODULE MCSynapi ------------------------------
(***************************************************************************)
(* Instances of the request engine for TLC, and a statement of the         *)
(* source's comments that the engine does not live up to.                  *)
(***************************************************************************)
EXTENDS SynapiBox

NoInitialKey == NULL
MCBodies == {<<"a", "b">>}
ShortBodies == {<<"a">>}
AnyBodies == {<<"a", "b", "c">>, <<"a", "lf">>}
Heartbeats == {synapi_heartbeat}
AllRequests ==
    {synapi_update_server, synapi_heartbeat, synapi_new_player(1),
     synapi_update_player(1), synapi_delete_player(1)}

-----------------------------------------------------------------------------
(* synapi.c:234, "build url now that we have api key": the key in the URL of
   an ordinary request is the whole key of some answer, or the initial one. *)
UrlHasWholeKey ==
    \A c \in Calls : url[c] # NULL /\ ~IsRegistration(c) =>
        \E b \in Bodies \cup ({InitialKey} \ {NULL}) :
            url[c].key = curl_escape(StoredKey(b))
=============================================================================
