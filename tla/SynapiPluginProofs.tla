------------------------- MODULE SynapiPluginProofs -------------------------
(***************************************************************************)
(* The SourceMod side, for any number of clients, keys, plugin starts and  *)
(* crashes.                                                                *)
(***************************************************************************)
EXTENDS SynapiPlugin, SequenceTheorems, TLAPS

(* Storing a key twice stores the same characters. *)
LEMMA CutOnce ==
    ASSUME NEW k \in StoredKeys
    PROVE  Cut(k) \in StoredKeys /\ Cut(Cut(k)) = Cut(k)
  BY StoredLenAssumption DEF StoredKeys, Cut

(* A key the service gives is one that can be stored. *)
LEMMA KeysStorable == Keys \subseteq StoredKeys
  BY StoredLenAssumption DEF Keys, StoredKeys

(* No key is taken for a missing file, for "none" or for no key. *)
LEMMA NoKeyIsSpecial ==
    NoFile \notin StoredKeys /\ None \notin StoredKeys /\ Empty \notin StoredKeys
<1>1. StoredKeys \subseteq [id : KeyIds \cup {NULL}, len : Nat]
  BY DEF StoredKeys
<1>2. Empty \notin StoredKeys
  BY NullsAssumption DEF StoredKeys, Empty
<1> QED BY <1>1, <1>2, NullsAssumption

(* The callbacks that make a request, or none. *)
Makes == \/ UpdateServer
         \/ \E c \in Clients : \/ ClientConnect(c) \/ OnClientPostAdminCheck(c)
                               \/ OnClientDisconnect(c) \/ Event_Player(c)

(* What no such callback changes. *)
LEMMA MakesNoKey ==
    Makes => UNCHANGED <<ext, plugin, handle, freed, starts, api_key, api_key_set,
                         registering, file, issued>>
  BY DEF Makes, UpdateServer, ClientConnect, OnClientPostAdminCheck, OnClientDisconnect,
         Event_Player, Callback, libVars

-----------------------------------------------------------------------------
LEMMA TypeInit == Init => PluginTypeOK
<1> SUFFICES ASSUME Init PROVE PluginTypeOK
  OBVIOUS
<1>1. HandleType
  <2>1. ext \in BOOLEAN /\ plugin \in BOOLEAN
    BY DEF Init
  <2>2. starts \in 0..MaxStarts /\ freed \subseteq 1..starts
    BY BoundsAssumption DEF Init
  <2>3. handle \in {NULL} \cup 1..starts
    BY DEF Init
  <2> QED BY <2>1, <2>2, <2>3 DEF HandleType
<1>2. KeyType
  BY DEF Init, KeyType
<1>3. ClientType
  BY BoundsAssumption DEF Init, ClientType
<1>4. MadeType
  BY DEF Init, MadeType
<1> QED BY <1>1, <1>2, <1>3, <1>4 DEF PluginTypeOK

(* A native leaves a well-formed list of requests. *)
LEMMA NativeType ==
    ASSUME MadeType, NEW id \in Nat, NEW who \in Nat,
           NEW a \in {"SYN_SERVERS_UPDATE", "SYN_PLAYERS_NEW", "SYN_PLAYERS_UPDATE",
                      "SYN_PLAYERS_DELETE"},
           Native(a, id, who)
    PROVE  MadeType'
<1>1. [action |-> a, internal_id |-> id, who |-> who] \in Request
  BY DEF Request
<1>2. PICK r \in Request : made' = Append(made, r)
  BY <1>1 DEF Native
<1>4. made' \in Seq(Request)
  BY <1>2, AppendProperties DEF MadeType
<1>3. fault' \in {"none", "null handle", "freed handle"}
  BY DEF Native, Misused
<1> QED BY <1>3, <1>4 DEF MadeType

LEMMA MakesType == PluginTypeOK /\ Makes => PluginTypeOK'
<1> SUFFICES ASSUME HandleType, KeyType, ClientType, MadeType, Makes PROVE PluginTypeOK'
  BY DEF PluginTypeOK
<1>1. HandleType' /\ KeyType'
  BY MakesNoKey DEF HandleType, KeyType
<1>2. \A c \in Clients : c \in Nat /\ clients[c] \in Nat
  BY BoundsAssumption DEF ClientType
<1>3. MadeType'
  <2>1. CASE NoNative
    BY <2>1 DEF NoNative, MadeType
  <2>2. CASE Native("SYN_SERVERS_UPDATE", 0, 0)
    BY <2>2, NativeType
  <2>3. ASSUME NEW c \in Clients,
               \/ Native("SYN_PLAYERS_NEW", c, clients[c])
               \/ Native("SYN_PLAYERS_DELETE", c, clients[c])
               \/ Native("SYN_PLAYERS_UPDATE", clients[c], clients[c])
        PROVE  MadeType'
    BY <1>2, <2>3, NativeType
  <2> QED BY <2>1, <2>2, <2>3 DEF Makes, UpdateServer, ClientConnect,
             OnClientPostAdminCheck, OnClientDisconnect, Event_Player
<1>4. ClientType'
  <2>1. CASE UpdateServer
    BY <2>1 DEF UpdateServer, clientVars, ClientType
  <2>2. ASSUME NEW c \in Clients, ClientConnect(c) PROVE ClientType'
    <3>1. /\ userids < MaxUserIds /\ userids' = userids + 1 /\ admitted' = admitted
          /\ clients' = [clients EXCEPT ![c] = userids + 1]
      BY <2>2 DEF ClientConnect
    <3>2. userids + 1 \in 0..MaxUserIds
      BY <3>1, BoundsAssumption DEF ClientType
    <3> QED BY <3>1, <3>2 DEF ClientType
  <2>3. ASSUME NEW c \in Clients, OnClientPostAdminCheck(c) PROVE ClientType'
    BY <2>3 DEF OnClientPostAdminCheck, ClientType
  <2>4. ASSUME NEW c \in Clients, OnClientDisconnect(c) PROVE ClientType'
    BY <2>4, BoundsAssumption DEF OnClientDisconnect, ClientType
  <2>5. ASSUME NEW c \in Clients, Event_Player(c) PROVE ClientType'
    BY <2>5 DEF Event_Player, clientVars, ClientType
  <2> QED BY <2>1, <2>2, <2>3, <2>4, <2>5 DEF Makes
<1> QED BY <1>1, <1>3, <1>4 DEF PluginTypeOK

LEMMA TypeNext == PluginTypeOK /\ [Next]_vars => PluginTypeOK'
<1> SUFFICES ASSUME HandleType, KeyType, ClientType, MadeType, [Next]_vars
             PROVE  PluginTypeOK'
  BY DEF PluginTypeOK
<1> USE DEF PluginTypeOK
<1>1. CASE SDK_OnLoad
  BY <1>1 DEF HandleType, KeyType, ClientType, MadeType, SDK_OnLoad, libVars, clientVars
<1>2. CASE SDK_OnUnload
  BY <1>2 DEF HandleType, KeyType, ClientType, MadeType, SDK_OnUnload, libVars, clientVars
<1>3. ASSUME NEW k \in Keys, GameFrameKey(k) PROVE PluginTypeOK'
  BY <1>3, KeysStorable
     DEF HandleType, KeyType, ClientType, MadeType, GameFrameKey, Framed, clientVars
<1>4. CASE GameFrameEnd
  BY <1>4 DEF HandleType, KeyType, ClientType, MadeType, GameFrameEnd, Framed, clientVars
<1>5. CASE GameFrameFreed
  BY <1>5 DEF HandleType, KeyType, ClientType, MadeType, GameFrameFreed, Framed, Misused,
              libVars, clientVars
<1>6. CASE OnPluginStart
  <2>1. starts' = starts + 1 /\ handle' = starts + 1 /\ freed' = freed /\ starts < MaxStarts
    BY <1>6 DEF OnPluginStart, sm_synapi_init
  <2>2. /\ starts' \in 0..MaxStarts /\ handle' \in {NULL} \cup 1..starts'
        /\ freed' \subseteq 1..starts'
    BY <2>1, BoundsAssumption DEF HandleType
  <2>3. ext' \in BOOLEAN /\ plugin' \in BOOLEAN
    BY <1>6 DEF HandleType, OnPluginStart
  <2>4. KeyType'
    <3>1. api_key' \in {Empty} \cup StoredKeys
      BY <1>6 DEF KeyType, OnPluginStart, find_api_key
    <3>2. api_key_set' \in BOOLEAN /\ registering' \in BOOLEAN
      BY <1>6 DEF OnPluginStart, find_api_key
    <3>3. file' \in {NoFile, None, Empty} \cup StoredKeys /\ issued' = issued
      BY <1>6 DEF KeyType, OnPluginStart
    <3> QED BY <3>1, <3>2, <3>3 DEF KeyType
  <2>5. ClientType' /\ MadeType'
    BY <1>6 DEF OnPluginStart, clientVars, ClientType, MadeType
  <2> QED BY <2>2, <2>3, <2>4, <2>5 DEF HandleType
<1>7. CASE OnPluginEnd
  <2>1. KeyType'
    <3>1. file' \in {NoFile, None, Empty} \cup StoredKeys
      BY <1>7, CutOnce DEF KeyType, OnPluginEnd, store_api_key, sm_synapi_get_api_key
    <3> QED BY <1>7, <3>1 DEF KeyType, OnPluginEnd, libVars
  <2>2. HandleType'
    <3>1. freed' \subseteq 1..starts
      BY <1>7 DEF HandleType, OnPluginEnd, sm_synapi_free, Misused
    <3> QED BY <1>7, <3>1 DEF HandleType, OnPluginEnd
  <2>3. ClientType' /\ MadeType'
    BY <1>7 DEF OnPluginEnd, clientVars, ClientType, MadeType, Misused
  <2> QED BY <2>1, <2>2, <2>3
<1>8. CASE Makes
  BY <1>8, MakesType
<1>9. CASE Crash
  <2>1. HandleType'
    BY <1>9 DEF HandleType, Crash
  <2>2. KeyType'
    BY <1>9 DEF KeyType, Crash
  <2>3. ClientType'
    BY <1>9, BoundsAssumption DEF ClientType, Crash
  <2>4. MadeType'
    BY <1>9 DEF MadeType, Crash
  <2> QED BY <2>1, <2>2, <2>3, <2>4
<1>10. CASE UNCHANGED vars
  BY <1>10 DEF HandleType, KeyType, ClientType, MadeType, vars, libVars, clientVars
<1> QED BY <1>1, <1>2, <1>3, <1>4, <1>5, <1>6, <1>7, <1>8, <1>9, <1>10
        DEF Next, Extension, Plugin, Stopped, Makes

(* The plugin and the extension stay well typed, whatever is loaded, unloaded
   or crashes. *)
THEOREM PluginTypeCorrect == Spec => []PluginTypeOK
  BY TypeInit, TypeNext, PTL DEF Spec

-----------------------------------------------------------------------------
(***************************************************************************)
(* The handle.  That a start finds the last handle freed needs that the    *)
(* plugin is the only one to leave a handle alive.                         *)
(***************************************************************************)
HandleInv == /\ plugin => ext /\ handle # NULL /\ handle \notin freed
             /\ ~plugin => (1..starts) \subseteq freed
             /\ (1..starts) \ freed \subseteq {handle}

LEMMA HandleInit == Init => HandleInv
  BY DEF Init, HandleInv

LEMMA HandleNext == PluginTypeOK /\ HandleInv /\ [Next]_vars => HandleInv'
<1> SUFFICES ASSUME HandleType, HandleInv, [Next]_vars PROVE HandleInv'
  BY DEF PluginTypeOK
<1>1. CASE SDK_OnLoad
  BY <1>1 DEF HandleInv, SDK_OnLoad
<1>2. CASE SDK_OnUnload
  BY <1>2 DEF HandleInv, SDK_OnUnload
<1>3. CASE UNCHANGED <<ext, plugin, handle, freed, starts>>
  BY <1>3 DEF HandleInv
<1>4. CASE OnPluginStart
  <2>1. /\ starts' = starts + 1 /\ handle' = starts + 1 /\ freed' = freed
        /\ ext' = ext /\ ext /\ ~plugin /\ plugin'
    BY <1>4 DEF OnPluginStart, sm_synapi_init
  <2>2. starts \in Nat /\ freed \subseteq 1..starts /\ (1..starts) \subseteq freed
    BY <2>1 DEF HandleType, HandleInv
  <2>3. handle' # NULL
    BY <2>1, <2>2, NullsAssumption
  <2>4. handle' \notin freed' /\ (1..starts') \ freed' \subseteq {handle'}
    BY <2>1, <2>2
  <2> QED BY <2>1, <2>3, <2>4 DEF HandleInv
<1>5. CASE OnPluginEnd
  <2>1. Misused = "none"
    BY <1>5 DEF OnPluginEnd, HandleInv, Misused
  <2>2. ~plugin' /\ handle' = handle /\ starts' = starts /\ freed' = freed \cup {handle}
    BY <1>5, <2>1 DEF OnPluginEnd, sm_synapi_free
  <2> QED BY <2>2 DEF HandleInv
<1>6. CASE Makes
  BY <1>6, <1>3, MakesNoKey
<1>7. CASE Crash
  BY <1>7 DEF HandleInv, Crash
<1> QED BY <1>1, <1>2, <1>3, <1>4, <1>5, <1>6, <1>7
        DEF Next, Extension, Plugin, Stopped, Makes, GameFrameKey, GameFrameEnd,
            GameFrameFreed, Framed, vars

(* Whatever order loads, unloads and crashes come in, no native is called on a
   handle that is not there or was freed, and no handle is lost. *)
THEOREM HandleCorrect == Spec => [](NativesUseLiveHandle /\ OneLiveHandle)
<1>1. HandleInv => NativesUseLiveHandle /\ OneLiveHandle
  BY DEF HandleInv, NativesUseLiveHandle, OneLiveHandle, Misused
<1> QED BY <1>1, TypeInit, TypeNext, HandleInit, HandleNext, PTL DEF Spec

(* At most one handle has not been freed, and the extension still has it. *)
THEOREM OneHandleAtATime == Spec => []OneLiveHandle
  BY HandleCorrect, PTL

-----------------------------------------------------------------------------
(***************************************************************************)
(* The key.  That the stored key survives OnPluginEnd() needs that a       *)
(* plugin which started with it still has it: no registration is on its    *)
(* way, and no frame after the plugin's end can deliver the answer to one. *)
(***************************************************************************)
KeyInv == /\ plugin /\ file \in StoredKeys => api_key = file /\ ~registering
          /\ FileKeyIssued

LEMMA KeyInit == Init => KeyInv
  BY NoKeyIsSpecial DEF Init, KeyInv, FileKeyIssued

LEMMA KeyNext ==
    ASSUME PluginTypeOK, HandleInv, KeyInv, [Next]_vars
    PROVE  /\ KeyInv'
           /\ file \in StoredKeys => file' = file
<1> USE DEF KeyInv, FileKeyIssued
<1>1. KeyType /\ HandleType
  BY DEF PluginTypeOK
<1>2. CASE SDK_OnLoad \/ SDK_OnUnload
  BY <1>2 DEF SDK_OnLoad, SDK_OnUnload, libVars
<1>3. ASSUME NEW k \in Keys, GameFrameKey(k) PROVE KeyInv' /\ file' = file
  <2>1. plugin
    BY <1>1, <1>3 DEF GameFrameKey, Framed, HandleInv, HandleType
  <2>2. file \notin StoredKeys
    BY <1>3, <2>1 DEF GameFrameKey
  <2>3. file' = file /\ api_key' = k /\ k \in issued'
    BY <1>3 DEF GameFrameKey, Framed
  <2> QED BY <2>2, <2>3
<1>4. CASE GameFrameEnd
  BY <1>4 DEF GameFrameEnd, Framed
<1>5. CASE GameFrameFreed
  BY <1>5 DEF GameFrameFreed, Framed, libVars
<1>6. CASE OnPluginStart
  <2>1. CASE find_api_key
    <3>1. api_key' = file /\ file' = file /\ issued' = issued /\ registering' = FALSE
      BY <1>6, <2>1 DEF OnPluginStart, find_api_key
    <3> QED BY <3>1
  <2>2. CASE ~find_api_key
    <3>1. api_key' = Empty /\ file' = None /\ file \notin StoredKeys
      BY <1>6, <2>2, NoKeyIsSpecial DEF OnPluginStart, find_api_key
    <3> QED BY <3>1, NoKeyIsSpecial
  <2> QED BY <2>1, <2>2
<1>7. CASE OnPluginEnd
  <2>1. Misused = "none" /\ plugin /\ ~plugin'
    BY <1>7 DEF OnPluginEnd, HandleInv, Misused
  <2>2. store_api_key /\ api_key' = api_key /\ issued' = issued
    BY <1>7, <2>1 DEF OnPluginEnd, libVars
  <2>3. CASE api_key = Empty
    <3>1. file' \notin StoredKeys /\ file \notin StoredKeys /\ api_key' \notin StoredKeys
      BY <2>1, <2>2, <2>3, NoKeyIsSpecial DEF store_api_key
    <3> QED BY <2>1, <3>1
  <2>4. CASE api_key # Empty
    <3>1. api_key \in StoredKeys /\ file' = Cut(api_key)
      BY <1>1, <2>2, <2>4 DEF KeyType, store_api_key, sm_synapi_get_api_key
    <3>2. ASSUME api_key = file PROVE file' = file
      <4>1. PICK k \in issued : file = Cut(k)
        BY <3>1, <3>2
      <4>2. k \in StoredKeys
        BY <1>1, KeysStorable DEF KeyType
      <4> QED BY <3>1, <3>2, <4>1, <4>2, CutOnce
    <3>3. \E k \in issued : file' = Cut(k)
      BY <3>1, <3>2
    <3>4. file \in StoredKeys => file' = file
      BY <2>1, <3>2
    <3> QED BY <2>1, <2>2, <3>1, <3>2, <3>3, <3>4
  <2> QED BY <2>3, <2>4
<1>8. CASE Makes
  BY <1>8, MakesNoKey
<1>9. CASE Crash
  BY <1>9, NoKeyIsSpecial DEF Crash
<1>10. CASE UNCHANGED vars
  BY <1>10 DEF vars, libVars
<1> QED BY <1>2, <1>3, <1>4, <1>5, <1>6, <1>7, <1>8, <1>9, <1>10
        DEF Next, Extension, Plugin, Stopped, Makes

(* The configuration file only ever holds a key this server was given. *)
THEOREM StoredKeyIsIssued == Spec => []FileKeyIssued
<1>1. KeyInv => FileKeyIssued
  BY DEF KeyInv
<1>2. PluginTypeOK /\ HandleInv /\ KeyInv /\ [Next]_vars => KeyInv'
  BY KeyNext
<1> QED BY <1>1, <1>2, TypeInit, TypeNext, HandleInit, HandleNext, KeyInit, PTL DEF Spec

(* Once OnPluginEnd() has stored a key, no start, end, frame or crash changes
   what the file holds. *)
THEOREM StoredKeyKept == Spec => StoredKeySticks
<1>1. PluginTypeOK /\ HandleInv /\ KeyInv /\ [Next]_vars => KeyInv'
  BY KeyNext
<1>2. PluginTypeOK /\ HandleInv /\ KeyInv /\ [Next]_vars
        => [(file \in StoredKeys) => file' = file]_vars
  BY KeyNext
<1> QED BY <1>1, <1>2, TypeInit, TypeNext, HandleInit, HandleNext, KeyInit, PTL
        DEF Spec, StoredKeySticks
-----------------------------------------------------------------------------
(***************************************************************************)
(* The players.  That nobody is reported at the first start needs that     *)
(* nothing was reported before it.                                         *)
(***************************************************************************)
ReportInv == /\ starts = 0 => made = <<>>
             /\ NoGhostPlayers

(* A report makes only the client it is about one of the reported ones, and
   only if it says that the client is new. *)
LEMMA ReportedAppend ==
    ASSUME MadeType, NEW r \in Request, made' = Append(made, r)
    PROVE  /\ \A c \in Reported' : \/ c \in Reported
                                   \/ r.action = "SYN_PLAYERS_NEW" /\ r.internal_id = c
           /\ \A c \in Reported' : ~(r.action = "SYN_PLAYERS_DELETE" /\ r.internal_id = c)
<1> DEFINE n == Len(made)
<1>1. /\ n \in Nat /\ DOMAIN made = 1..n /\ DOMAIN made' = 1..(n + 1) /\ Len(made') = n + 1
      /\ made'[n + 1] = r /\ \A k \in 1..n : made'[k] = made[k]
  <2>1. made \in Seq(Request)
    BY DEF MadeType
  <2>2. \A S : \A q \in Seq(S), x \in S :
           /\ Len(q) \in Nat /\ DOMAIN q = 1..Len(q)
           /\ DOMAIN Append(q, x) = 1..(Len(q) + 1) /\ Len(Append(q, x)) = Len(q) + 1
           /\ Append(q, x)[Len(q) + 1] = x
           /\ \A k \in 1..Len(q) : Append(q, x)[k] = q[k]
    BY AppendProperties, LenProperties
  <2> QED BY <2>1, <2>2
<1> HIDE DEF n
<1> SUFFICES ASSUME NEW c \in Reported'
             PROVE  /\ \/ c \in Reported
                       \/ r.action = "SYN_PLAYERS_NEW" /\ r.internal_id = c
                    /\ ~(r.action = "SYN_PLAYERS_DELETE" /\ r.internal_id = c)
  OBVIOUS
<1>2. c \in Clients
  BY DEF Reported
<1>3. PICK j \in 1..(n + 1) :
         /\ made'[j].action = "SYN_PLAYERS_NEW" /\ made'[j].internal_id = c
         /\ \A k \in (j + 1)..(n + 1) :
               ~(made'[k].action = "SYN_PLAYERS_DELETE" /\ made'[k].internal_id = c)
  BY <1>1 DEF Reported
<1>4. CASE j = n + 1
  BY <1>1, <1>3, <1>4
<1>5. CASE j \in 1..n
  <2>1. made[j].action = "SYN_PLAYERS_NEW" /\ made[j].internal_id = c
    BY <1>1, <1>3, <1>5
  <2>2. \A k \in (j + 1)..n :
           ~(made[k].action = "SYN_PLAYERS_DELETE" /\ made[k].internal_id = c)
    BY <1>1, <1>3, <1>5
  <2>3. c \in Reported
    BY <1>1, <1>2, <1>5, <2>1, <2>2 DEF Reported, n
  <2>4. n + 1 \in (j + 1)..(n + 1)
    BY <1>1, <1>5
  <2> QED BY <1>1, <1>3, <2>3, <2>4
<1> QED BY <1>1, <1>3, <1>4, <1>5

LEMMA ReportNext ==
    ASSUME PluginTypeOK, HandleInv, ReportInv, [Next]_vars
    PROVE  ReportInv'
<1> USE DEF ReportInv
<1>0. /\ starts \in Nat /\ plugin \in BOOLEAN /\ MadeType
      /\ plugin => starts # 0
  BY DEF PluginTypeOK, HandleType, HandleInv
<1>1. CASE UNCHANGED <<plugin, starts, made, admitted>>
  BY <1>1 DEF NoGhostPlayers, Reported
<1>2. CASE ~plugin' /\ UNCHANGED <<starts, made>>
  BY <1>2 DEF NoGhostPlayers
<1>3. CASE OnPluginStart
  <2>1. starts' = starts + 1 /\ made' = made
    BY <1>3 DEF OnPluginStart
  <2>2. starts' = 1 => Reported' = {}
    BY <1>0, <2>1 DEF Reported
  <2> QED BY <1>0, <2>1, <2>2 DEF NoGhostPlayers
<1>4. ASSUME NEW a \in {"SYN_SERVERS_UPDATE", "SYN_PLAYERS_NEW", "SYN_PLAYERS_UPDATE",
                        "SYN_PLAYERS_DELETE"},
             NEW id \in Nat, NEW who \in Nat, Native(a, id, who)
      PROVE  \E r \in Request : /\ made' = Append(made, r)
                                /\ r.action = a /\ r.internal_id = id
  <2>1. [action |-> a, internal_id |-> id, who |-> who] \in Request
    BY DEF Request
  <2> QED BY <1>4, <2>1 DEF Native
<1>5. \A c \in Clients : c \in Nat /\ clients[c] \in Nat
  BY BoundsAssumption DEF PluginTypeOK, ClientType
<1>6. CASE Makes
  <2>0. UNCHANGED <<plugin, starts>>
    BY <1>6, MakesNoKey
  <2>1. CASE ~plugin
    <3>1. made' = made
      BY <1>6, <2>1 DEF Makes, UpdateServer, ClientConnect, OnClientPostAdminCheck,
                        OnClientDisconnect, Event_Player, NoNative
    <3> QED BY <2>0, <2>1, <3>1 DEF NoGhostPlayers
  <2>2. ASSUME plugin, NEW r \in Request, made' = Append(made, r), r.action # "SYN_PLAYERS_NEW",
               \A c \in admitted : \/ c \in admitted'
                                   \/ r.action = "SYN_PLAYERS_DELETE" /\ r.internal_id = c
        PROVE  ReportInv'
    BY <1>0, <2>0, <2>2, ReportedAppend DEF NoGhostPlayers
  <2>3. ASSUME plugin, UpdateServer \/ \E c \in Clients : Event_Player(c)
        PROVE  ReportInv'
    <3>1. admitted' = admitted
      BY <2>3 DEF UpdateServer, Event_Player, clientVars
    <3>2. \E r \in Request : made' = Append(made, r) /\ r.action # "SYN_PLAYERS_NEW"
      BY <1>4, <1>5, <2>3 DEF UpdateServer, Event_Player
    <3> QED BY <2>2, <2>3, <3>1, <3>2
  <2>4. ASSUME plugin, NEW c \in Clients, OnClientPostAdminCheck(c)
        PROVE  ReportInv'
    <3>1. admitted' = admitted \cup {c}
      BY <2>4 DEF OnClientPostAdminCheck
    <3>2. PICK r \in Request : made' = Append(made, r) /\ r.internal_id = c
      BY <1>4, <1>5, <2>4 DEF OnClientPostAdminCheck
    <3> QED BY <1>0, <2>0, <2>4, <3>1, <3>2, ReportedAppend DEF NoGhostPlayers
  <2>5. ASSUME plugin, NEW c \in Clients, OnClientDisconnect(c)
        PROVE  ReportInv'
    <3>1. admitted' = admitted \ {c}
      BY <2>5 DEF OnClientDisconnect
    <3>2. \E r \in Request : /\ made' = Append(made, r) /\ r.internal_id = c
                             /\ r.action = "SYN_PLAYERS_DELETE"
      BY <1>4, <1>5, <2>5 DEF OnClientDisconnect
    <3> QED BY <2>2, <2>5, <3>1, <3>2
  <2>6. ASSUME NEW c \in Clients, ClientConnect(c)
        PROVE  ReportInv'
    BY <2>0, <1>1, <2>6 DEF ClientConnect, NoNative
  <2> QED BY <1>0, <1>6, <2>1, <2>3, <2>4, <2>5, <2>6 DEF Makes
<1>7. CASE OnPluginEnd \/ Crash
  BY <1>2, <1>7 DEF OnPluginEnd, Crash
<1> QED BY <1>1, <1>3, <1>6, <1>7
        DEF Next, Extension, Plugin, Stopped, Makes, SDK_OnLoad, SDK_OnUnload, GameFrameKey,
            GameFrameEnd, GameFrameFreed, Framed, vars, clientVars

(* Until the plugin is unloaded for the first time, every player it has
   reported and not removed is on the server. *)
THEOREM ReportsMatchServer == Spec => []NoGhostPlayers
<1>1. Init => ReportInv
  BY DEF Init, ReportInv, NoGhostPlayers
<1>2. PluginTypeOK /\ HandleInv /\ ReportInv /\ [Next]_vars => ReportInv'
  BY ReportNext
<1>3. ReportInv => NoGhostPlayers
  BY DEF ReportInv
<1> QED BY <1>1, <1>2, <1>3, TypeInit, TypeNext, HandleInit, HandleNext, PTL DEF Spec
=============================================================================
