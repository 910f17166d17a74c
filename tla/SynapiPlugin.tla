---------------------------- MODULE SynapiPlugin ----------------------------
(***************************************************************************)
(* The SourceMod side: the extension (public/synapi/extension.cpp), which  *)
(* keeps the library's handle and performs on it in every frame, and the   *)
(* plugin (public/synapi/synapi.sp), which keeps the key in a file and     *)
(* reports players.  Everything runs on the game thread, one callback at a *)
(* time; the extension and the plugin are loaded and unloaded at any time  *)
(* between frames, and the whole server may crash.                         *)
(*                                                                         *)
(* The library is reduced to what can be seen through its natives: a key   *)
(* that the answer to a registration sets.  A handle is the number of the  *)
(* synapi_init() that returned it.                                         *)
(***************************************************************************)
EXTENDS Integers, Sequences, FiniteSets

CONSTANTS Clients,      \* the client indexes of the game server
          KeyIds,       \* what tells the service's keys apart
          KeyLens,      \* their lengths
          StoredLen,    \* characters of a key that reach the file, 253 in the code
          MaxStarts,    \* bound on the number of plugin starts
          MaxUserIds,   \* bound on the number of clients that connect
          MaxMade,      \* bound on the number of requests the plugin makes
          NULL, NoFile, None

Keys == [id : KeyIds, len : KeyLens]

(* The value of "api_key" in the file: there may be no file, the string "none"
   (None), an empty string, or the first characters of a key. *)
Empty == [id |-> NULL, len |-> 0]
StoredKeys == [id : KeyIds, len : Nat]

ASSUME StoredLenAssumption == StoredLen \in Nat /\ KeyLens \subseteq Nat \ {0}
ASSUME BoundsAssumption == /\ MaxStarts \in Nat /\ MaxUserIds \in Nat /\ MaxMade \in Nat
                           /\ Clients \subseteq Nat
ASSUME NullsAssumption == /\ NULL \notin KeyIds \cup Nat
                          /\ NoFile \notin [id : KeyIds \cup {NULL}, len : Nat]
                          /\ None \notin [id : KeyIds \cup {NULL}, len : Nat]
                          /\ NoFile # None

VARIABLES ext,            \* the extension is loaded, its frame hook installed
          plugin,         \* the plugin is loaded
          handle, freed,  \* g_synapi.handle; the handles synapi_free() has freed
          starts,         \* how often synapi_init() was called
          api_key, api_key_set, registering,  \* of the handle in use
          file,           \* the plugin's configuration file
          clients,        \* the user id of each client, 0 for a free index
          admitted,       \* the clients that passed the admin check
          userids,        \* how many user ids were given out
          made,           \* the requests the plugin made, in order
          issued,         \* every key the server was ever given
          fault           \* the handle's misuse that ended the server

libVars    == <<api_key, api_key_set, registering>>
clientVars == <<clients, admitted, userids>>
vars == <<ext, plugin, handle, freed, starts, libVars, file, clientVars, made, issued, fault>>

Up == fault = "none"

(* A native or the frame hook works on g_synapi.handle as it stands. *)
Misused == IF handle = NULL THEN "null handle"
           ELSE IF handle \in freed THEN "freed handle" ELSE "none"

Init == /\ ext = FALSE /\ plugin = FALSE
        /\ handle = NULL /\ freed = {} /\ starts = 0
        /\ api_key = Empty /\ api_key_set = FALSE /\ registering = FALSE
        /\ file = NoFile
        /\ clients = [c \in Clients |-> 0] /\ admitted = {} /\ userids = 0
        /\ made = <<>> /\ issued = {} /\ fault = "none"

-----------------------------------------------------------------------------
(* The extension. *)
SDK_OnLoad ==
    /\ Up /\ ~ext
    /\ ext' = TRUE /\ handle' = NULL
    /\ UNCHANGED <<plugin, freed, starts, libVars, file, clientVars, made, issued, fault>>

(* Extensions go after the plugins that need them. *)
SDK_OnUnload ==
    /\ Up /\ ext /\ ~plugin
    /\ ext' = FALSE
    /\ UNCHANGED <<plugin, handle, freed, starts, libVars, file, clientVars, made, issued,
                   fault>>

Framed == /\ Up /\ ext /\ handle # NULL
          /\ UNCHANGED <<ext, plugin, handle, freed, starts, file, clientVars, made>>

(* A frame in which a piece of a registration's answer arrives. *)
GameFrameKey(k) ==
    /\ Framed /\ handle \notin freed /\ registering
    /\ api_key' = k /\ api_key_set' = TRUE
    /\ issued' = issued \cup {k}
    /\ UNCHANGED <<registering, fault>>

(* A frame in which a registration ends, with or without having been answered. *)
GameFrameEnd ==
    /\ Framed /\ handle \notin freed /\ registering
    /\ registering' = FALSE
    /\ UNCHANGED <<api_key, api_key_set, issued, fault>>

(* A frame that finds the handle freed. *)
GameFrameFreed ==
    /\ Framed /\ handle \in freed
    /\ fault' = Misused
    /\ UNCHANGED <<libVars, issued>>

-----------------------------------------------------------------------------
(* Variant: the stored key is not looked for. *)
FindNoKey == FALSE

(* find_api_key() finds a key unless there is no file or it says "none". *)
find_api_key == file \notin {NoFile, None}

(* Variant: the pointer is not replaced. *)
KeepFirstHandle == IF handle = NULL THEN starts + 1 ELSE handle

(* synapi_init() returns a new handle, which replaces the old one. *)
sm_synapi_init == starts + 1

(***************************************************************************)
(* OnPluginStart(): with the stored key, or with a registration.  Without  *)
(* a file find_api_key() leaves one that says "none".                      *)
(***************************************************************************)
OnPluginStart ==
    /\ Up /\ ext /\ ~plugin /\ starts < MaxStarts
    /\ plugin' = TRUE
    /\ starts' = starts + 1 /\ handle' = sm_synapi_init
    /\ api_key' = IF find_api_key THEN file ELSE Empty
    /\ api_key_set' = find_api_key
    /\ registering' = ~find_api_key
    /\ file' = IF file = NoFile THEN None ELSE file
    /\ UNCHANGED <<ext, freed, clientVars, made, issued, fault>>

Cut(k) == [k EXCEPT !.len = IF @ > StoredLen THEN StoredLen ELSE @]

(* Variant: one character fewer each time. *)
GetKeyShort == [api_key EXCEPT !.len = @ - 1]

(* synapi_get_api_key(api_key, 255): cut twice on its way to the plugin. *)
sm_synapi_get_api_key == Cut(api_key)

(***************************************************************************)
(* store_api_key().  What KeyValues makes of an empty string is not part   *)
(* of this repository: it may be kept, or left out, which reads as "none". *)
(***************************************************************************)
store_api_key ==
    file' \in IF api_key = Empty THEN {Empty, None} ELSE {sm_synapi_get_api_key}

(* Variant: the handle is left to the extension. *)
NoFree == UNCHANGED freed

(* synapi_free() frees the handle and keeps the pointer. *)
sm_synapi_free == freed' = freed \cup {handle}

OnPluginEnd ==
    /\ Up /\ plugin
    /\ plugin' = FALSE
    /\ IF Misused = "none" THEN store_api_key /\ sm_synapi_free
       ELSE UNCHANGED <<file, freed>>
    /\ fault' = Misused
    /\ UNCHANGED <<ext, handle, starts, libVars, clientVars, made, issued>>

-----------------------------------------------------------------------------
(* A native that makes a request; id is the player it names, who the user id
   of the client it is about. *)
Native(action, id, who) ==
    /\ Len(made) < MaxMade
    /\ made' = Append(made, [action |-> action, internal_id |-> id, who |-> who])
    /\ fault' = Misused

NoNative == UNCHANGED <<made, fault>>

Callback == /\ Up
            /\ UNCHANGED <<ext, plugin, handle, freed, starts, libVars, file, issued>>

(* The timers UpdateServer and Heartbeat, and OnMapStart: an update of the
   server, which names no player. *)
UpdateServer ==
    /\ Callback /\ plugin
    /\ Native("SYN_SERVERS_UPDATE", 0, 0)
    /\ UNCHANGED clientVars

(* The game engine lets a client in, under an index that is free and a user
   id that was never used. *)
ClientConnect(c) ==
    /\ Callback /\ clients[c] = 0 /\ userids < MaxUserIds
    /\ userids' = userids + 1
    /\ clients' = [clients EXCEPT ![c] = userids + 1]
    /\ NoNative /\ UNCHANGED admitted

(* Signalled once per client, whether or not a plugin listens. *)
OnClientPostAdminCheck(c) ==
    /\ Callback /\ clients[c] # 0 /\ c \notin admitted
    /\ admitted' = admitted \cup {c}
    /\ IF plugin THEN Native("SYN_PLAYERS_NEW", c, clients[c]) ELSE NoNative
    /\ UNCHANGED <<clients, userids>>

(* Variant: the plugin does not report that a client has left. *)
DisconnectSilently(c) ==
    /\ Callback /\ clients[c] # 0
    /\ clients' = [clients EXCEPT ![c] = 0] /\ admitted' = admitted \ {c}
    /\ NoNative
    /\ UNCHANGED userids

(* Signalled for every connected client, admitted or not. *)
OnClientDisconnect(c) ==
    /\ Callback /\ clients[c] # 0
    /\ clients' = [clients EXCEPT ![c] = 0] /\ admitted' = admitted \ {c}
    /\ IF plugin THEN Native("SYN_PLAYERS_DELETE", c, clients[c]) ELSE NoNative
    /\ UNCHANGED userids

(* The events player_score and player_changename carry the user id. *)
Event_Player(c) ==
    /\ Callback /\ plugin /\ c \in admitted
    /\ Native("SYN_PLAYERS_UPDATE", clients[c], clients[c])
    /\ UNCHANGED clientVars

(***************************************************************************)
(* The server process dies and is started again: only the file is left.    *)
(* (The history variables stay, and handles are numbered on.)              *)
(***************************************************************************)
Crash ==
    /\ Up
    /\ ext' = FALSE /\ plugin' = FALSE /\ handle' = NULL /\ freed' = 1..starts
    /\ api_key' = Empty /\ api_key_set' = FALSE /\ registering' = FALSE
    /\ clients' = [c \in Clients |-> 0] /\ admitted' = {}
    /\ UNCHANGED <<starts, file, userids, made, issued, fault>>

-----------------------------------------------------------------------------
Extension == \/ SDK_OnLoad \/ SDK_OnUnload \/ GameFrameEnd \/ GameFrameFreed
             \/ \E k \in Keys : GameFrameKey(k)

Plugin == \/ OnPluginStart \/ OnPluginEnd \/ UpdateServer
          \/ \E c \in Clients : \/ ClientConnect(c) \/ OnClientPostAdminCheck(c)
                                \/ OnClientDisconnect(c) \/ Event_Player(c)

Stopped == ~Up /\ UNCHANGED vars

Next == Extension \/ Plugin \/ Crash \/ Stopped

Spec == Init /\ [][Next]_vars

-----------------------------------------------------------------------------
Request == [action : {"SYN_SERVERS_UPDATE", "SYN_PLAYERS_NEW", "SYN_PLAYERS_UPDATE",
                      "SYN_PLAYERS_DELETE"},
            internal_id : Nat, who : Nat]

HandleType ==
    /\ ext \in BOOLEAN /\ plugin \in BOOLEAN
    /\ starts \in 0..MaxStarts
    /\ handle \in {NULL} \cup 1..starts /\ freed \subseteq 1..starts

KeyType ==
    /\ api_key \in {Empty} \cup StoredKeys
    /\ api_key_set \in BOOLEAN /\ registering \in BOOLEAN
    /\ file \in {NoFile, None, Empty} \cup StoredKeys
    /\ issued \subseteq Keys

ClientType ==
    /\ clients \in [Clients -> 0..MaxUserIds] /\ admitted \subseteq Clients
    /\ userids \in 0..MaxUserIds

MadeType == /\ made \in Seq(Request)
            /\ fault \in {"none", "null handle", "freed handle"}

(* Type invariant. *)
PluginTypeOK == HandleType /\ KeyType /\ ClientType /\ MadeType

(* Once the file holds a key it holds that key for ever, through any number
   of plugin starts, ends and crashes: a start with a key never registers,
   so no end finds the key withdrawn, and storing it again changes nothing. *)
StoredKeySticks == [][(file \in StoredKeys) => file' = file]_vars

(* The file never holds a key that the service did not give this server, at
   least not beyond the characters OnPluginEnd() can store. *)
FileKeyIssued ==
    /\ file \in StoredKeys => \E k \in issued : file = Cut(k)
    /\ api_key \in StoredKeys => api_key \in issued \/ api_key = file

(* While the plugin is loaded its callbacks find a usable handle, and so does
   its OnPluginEnd(): no native is called before synapi_init() or after
   synapi_free(), whatever order loads, unloads and crashes come in. *)
NativesUseLiveHandle == plugin /\ Up => Misused = "none"

(* No handle is lost: at most one has not been freed, and the extension still
   refers to it. *)
OneLiveHandle == (1..starts) \ freed \subseteq {handle}

(* The clients whose last report was that they are here. *)
Reported == {c \in Clients : \E j \in DOMAIN made :
                /\ made[j].action = "SYN_PLAYERS_NEW" /\ made[j].internal_id = c
                /\ \A k \in (j + 1)..Len(made) :
                      ~(made[k].action = "SYN_PLAYERS_DELETE" /\ made[k].internal_id = c)}

(* As long as the plugin has not been unloaded, every player it reported and
   did not remove is on the server, under every reuse of client indexes. *)
NoGhostPlayers == plugin /\ starts = 1 => Reported \subseteq admitted
=============================================================================
