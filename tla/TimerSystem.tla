---------------------------- MODULE TimerSystem ----------------------------
(***************************************************************************)
(* SourceMod's timers (core/TimerSys.cpp, with the callbacks of            *)
(* core/smn_timers.cpp): a list of single timers sorted by due time, a     *)
(* list of repeating ones, and a stack of ITimer structs to use again.     *)
(*                                                                         *)
(* Everything runs on the game thread, but both callbacks of a timer may   *)
(* create, kill and fire timers, the one that is running included, while   *)
(* RunFrame() is in the middle of a list: OnTimer() is a plugin's function,*)
(* and OnTimerEnd() frees the timer's data, where a menu's destruction runs*)
(* plugin functions too.  So the calls that have not returned are kept as  *)
(* a stack of frames: which call, on which timer, and whether it is inside *)
(* OnTimer() ("timer"), inside OnTimerEnd() ("end"), or between callbacks  *)
(* ("look").  RunFrame() holds its list iterator as the timer it points    *)
(* to, NULL at the end of the list.                                        *)
(***************************************************************************)
EXTENDS Integers, Sublists

CONSTANTS Structs,    \* 1..n: the ITimer structs there is memory for
          Kinds,      \* what timers are created with: interval and the two flags
          Deltas,     \* how much game time passes from one frame to the next
          Accuracy,   \* TIMER_MIN_ACCURACY
          MaxTime,    \* bound on g_fUniversalTime
          MaxDepth,   \* bound on calls inside each other
          NULL

ASSUME TimerConstants == /\ Structs \subseteq Nat \ {0} /\ NULL \notin Structs
                         /\ Deltas \subseteq Nat
                         /\ Kinds \subseteq [interval : Nat, repeat : BOOLEAN, nomap : BOOLEAN]
                         /\ Accuracy \in Nat /\ MaxTime \in Nat /\ MaxDepth \in Nat

VARIABLES timer,          \* the fields of each struct
          m_SingleTimers, m_LoopTimers, m_FreeTimers,
          stack,          \* the calls that have not returned, innermost last
          s_tokill,       \* what RemoveMapChangeTimers() still has to kill
          time,           \* g_fUniversalTime
          think,          \* g_fTimerThink
          curtime,        \* the game's clock, which a new map sets back
          last, ticked,   \* m_fLastTickedTime, m_bHasMapTickedYet
          thought, fresh, \* when RunFrame() last began; what was created since
          born            \* what was created in the map change under way

lists    == <<m_SingleTimers, m_LoopTimers, m_FreeTimers>>
clocks   == <<time, think, curtime, last, ticked, thought>>
history  == <<fresh, born>>
vars     == <<timer, lists, stack, s_tokill, clocks, history>>

Used == ToSet(m_SingleTimers) \cup ToSet(m_LoopTimers) \cup ToSet(m_FreeTimers)
Live == ToSet(m_SingleTimers) \cup ToSet(m_LoopTimers)

Initialize(kind, toExec) ==
    [exec |-> toExec, interval |-> kind.interval, repeat |-> kind.repeat, nomap |-> kind.nomap,
     inExec |-> FALSE, killMe |-> FALSE, ended |-> 0]

Unused == Initialize([interval |-> 0, repeat |-> FALSE, nomap |-> FALSE], 0)

Init ==
    /\ timer = [t \in Structs |-> Unused]
    /\ m_SingleTimers = <<>> /\ m_LoopTimers = <<>> /\ m_FreeTimers = <<>>
    /\ stack = <<>> /\ s_tokill = <<>>
    /\ time = 0 /\ think = 0 /\ curtime = 0 /\ last = 0 /\ ticked = FALSE
    /\ thought = -1 /\ fresh = {} /\ born = {}

-----------------------------------------------------------------------------
Frame(op, t, at, delay) == [op |-> op, t |-> t, at |-> at, delay |-> delay]
Top      == stack[Len(stack)]
Push(f)  == stack' = Append(stack, f)
Pop      == stack' = SubSeq(stack, 1, Len(stack) - 1)
Goto(f)  == stack' = [stack EXCEPT ![Len(stack)] = f]
Idle     == stack = <<>>
InTimer  == ~Idle /\ Top.at = "timer"
InEnd    == ~Idle /\ Top.at = "end"
Sweeping == ~Idle /\ stack[1].op = "sweep"
Room     == Len(stack) < MaxDepth

FirstOf(list) == IF list = <<>> THEN NULL ELSE Head(list)

(* The element after t, where the iterator goes. *)
After(list, t) == LET k == CHOOSE k \in DOMAIN list : list[k] = t
                  IN  IF k = Len(list) THEN NULL ELSE list[k + 1]

(* Skips the time in between if the clock has run amok. *)
CalcNextThink(from, interval) ==
    IF time - from - interval <= Accuracy THEN from + interval ELSE time + interval

-----------------------------------------------------------------------------
(* Variant: a new single timer goes to the end of the list. *)
InsertAtEnd(t, exec) == m_SingleTimers' = Append(m_SingleTimers, t)

(* At the end if nothing is due later, else before the first that is not due
   earlier. *)
InsertSorted(t, exec) ==
    LET s == m_SingleTimers
    IN  IF s = <<>> \/ timer[s[Len(s)]].exec <= exec THEN m_SingleTimers' = Append(s, t)
        ELSE LET k == CHOOSE k \in DOMAIN s :
                         timer[s[k]].exec >= exec /\ \A j \in 1..(k - 1) : timer[s[j]].exec < exec
             IN  m_SingleTimers' = InsertAt(s, k, t)

NewStruct == CHOOSE t \in Structs : t \notin Used /\ \A u \in Structs \ Used : t <= u

(* The struct freed last is used again; otherwise a new one is allocated. *)
CreateTimer(kind) ==
    /\ Idle \/ InTimer \/ InEnd
    /\ m_FreeTimers # <<>> \/ Structs \ Used # {}
    /\ LET t == IF m_FreeTimers = <<>> THEN NewStruct ELSE Head(m_FreeTimers)
           exec == time + kind.interval
       IN  /\ timer' = [timer EXCEPT ![t] = Initialize(kind, exec)]
           /\ m_FreeTimers' = IF m_FreeTimers = <<>> THEN <<>> ELSE Tail(m_FreeTimers)
           /\ IF kind.repeat
              THEN m_LoopTimers' = Append(m_LoopTimers, t) /\ UNCHANGED m_SingleTimers
              ELSE InsertSorted(t, exec) /\ UNCHANGED m_LoopTimers
           /\ fresh' = fresh \cup {t}
           /\ born' = IF Sweeping THEN born \cup {t} ELSE born
    /\ UNCHANGED <<stack, s_tokill, clocks>>

(* OnTimerEnd() is called: TimerNatives frees the timer's data and its handle. *)
Ending(t) == [timer EXCEPT ![t].inExec = TRUE, ![t].ended = @ + 1]

(* Variant: a timer that is running is not told from one that is not. *)
KillAtOnce(t) == Push(Frame("kill", t, "end", FALSE)) /\ timer' = Ending(t)

(* A timer that runs is only marked; RunFrame() or FireTimerOnce() ends it. *)
KillNow(t) ==
    IF timer[t].killMe THEN UNCHANGED <<stack, timer>>
    ELSE IF timer[t].inExec
         THEN timer' = [timer EXCEPT ![t].killMe = TRUE] /\ UNCHANGED stack
         ELSE Push(Frame("kill", t, "end", FALSE)) /\ timer' = Ending(t)

KillTimer(t) == /\ (Idle \/ InTimer \/ InEnd) /\ Room /\ t \in Live
                /\ KillNow(t)
                /\ UNCHANGED <<lists, s_tokill, clocks, history>>

(* A timer that is running, or being killed, is not fired. *)
FireTimerOnce(t, delayExec) ==
    /\ (Idle \/ InTimer \/ InEnd) /\ Room /\ t \in Live /\ ~timer[t].inExec
    /\ timer' = [timer EXCEPT ![t].inExec = TRUE]
    /\ Push(Frame("fire", t, "timer", delayExec))
    /\ UNCHANGED <<lists, s_tokill, clocks, history>>

-----------------------------------------------------------------------------
(* OnTimer() of a timer that is not to go on returns: OnTimerEnd() follows. *)
ToEnd == /\ Goto([Top EXCEPT !.at = "end"])
         /\ timer' = Ending(Top.t)

(* RunFrame() goes on behind the timer it has run. *)
Advance(list) == Goto(Frame(Top.op, After(list, Top.t), "look", FALSE))

(* A repeating timer goes on: RunFrame() and FireTimerOnce() differ in when it
   is due again. *)
Rearm(t) ==
    timer' = [timer EXCEPT ![t].inExec = FALSE,
                           ![t].exec = CASE Top.op = "loop" -> CalcNextThink(@, timer[t].interval)
                                         [] Top.op = "fire" /\ Top.delay -> time + timer[t].interval
                                         [] OTHER -> @]

(* Variant: only the function's result stops a repeating timer. *)
StopsOnResult(t, stop) == stop \/ ~timer[t].repeat

(* OnTimer() may return Pl_Stop, or have killed its own timer. *)
Stops(t, stop) == stop \/ timer[t].killMe \/ ~timer[t].repeat

OnTimerReturns(stop) ==
    /\ InTimer
    /\ IF Stops(Top.t, stop) THEN ToEnd
       ELSE /\ Rearm(Top.t)
            /\ IF Top.op = "loop" THEN Advance(m_LoopTimers) ELSE Pop
    /\ UNCHANGED <<lists, s_tokill, clocks, history>>

FreeTimer(t) == /\ m_FreeTimers' = <<t>> \o m_FreeTimers
                /\ m_SingleTimers' = Keep(m_SingleTimers, Structs \ {t})
                /\ m_LoopTimers' = Keep(m_LoopTimers, Structs \ {t})

(* The timer leaves its list and its struct is free; RunFrame() goes on. *)
OnTimerEndReturns ==
    /\ InEnd
    /\ FreeTimer(Top.t)
    /\ CASE Top.op = "single" -> Advance(m_SingleTimers)
         [] Top.op = "loop"   -> Advance(m_LoopTimers)
         [] OTHER -> Pop
    /\ UNCHANGED <<timer, s_tokill, clocks, history>>

-----------------------------------------------------------------------------
Looks(op) == ~Idle /\ Top.op = op /\ Top.at = "look"
Due(t)    == time >= timer[t].exec

(* RunFrame() calls OnTimer() of the timer it has come to. *)
RunDue(op) == /\ Looks(op) /\ Top.t # NULL /\ Due(Top.t)
              /\ timer' = [timer EXCEPT ![Top.t].inExec = TRUE]
              /\ Goto([Top EXCEPT !.at = "timer"])
              /\ UNCHANGED <<lists, s_tokill, clocks, history>>

RunFrame == RunDue("single") \/ RunDue("loop")

(* The first single timer that is not due ends the first loop. *)
SinglesOver == /\ Looks("single") /\ (Top.t # NULL => ~Due(Top.t))
               /\ Goto(Frame("loop", FirstOf(m_LoopTimers), "look", FALSE))
               /\ UNCHANGED <<timer, lists, s_tokill, clocks, history>>

LoopNext == /\ Looks("loop") /\ Top.t # NULL /\ ~Due(Top.t)
            /\ Advance(m_LoopTimers)
            /\ UNCHANGED <<timer, lists, s_tokill, clocks, history>>

RunFrameReturns == /\ Looks("loop") /\ Top.t = NULL
                   /\ think' = CalcNextThink(think, Accuracy)
                   /\ Pop
                   /\ UNCHANGED <<timer, lists, s_tokill, time, curtime, last, ticked,
                                  thought, history>>

(* The time since the last frame of this map, or one tick (1) if there was
   none or the game does not simulate. *)
Elapsed(simulating) == IF simulating /\ ticked THEN curtime' - last ELSE 1

GameFrame(simulating, delta) ==
    /\ Idle
    /\ curtime' = curtime + delta
    /\ time' = time + Elapsed(simulating) /\ time' <= MaxTime
    /\ last' = curtime' /\ ticked' = TRUE
    /\ IF time' >= think
       THEN /\ stack' = <<Frame("single", FirstOf(m_SingleTimers), "look", FALSE)>>
            /\ thought' = time' /\ fresh' = {}
       ELSE UNCHANGED <<stack, thought, fresh>>
    /\ UNCHANGED <<timer, lists, s_tokill, think, born>>

(* Variant: the first frame of a map counts from the last one of the map
   before. *)
LevelEndKeepsTick == UNCHANGED ticked

OnSourceModLevelEnd == ticked' = FALSE

(* Variant: repeating timers survive a map change. *)
SinglesToKill == Reverse(Keep(m_SingleTimers, {t \in Structs : timer[t].nomap}))

MapChangeTimers == Reverse(Keep(m_SingleTimers \o m_LoopTimers, {t \in Structs : timer[t].nomap}))

(* LevelShutdown() removes the map's timers; the game's clock starts anew. *)
LevelShutdown ==
    /\ Idle /\ OnSourceModLevelEnd
    /\ s_tokill' = MapChangeTimers
    /\ stack' = <<Frame("sweep", NULL, "look", FALSE)>>
    /\ curtime' = 0
    /\ UNCHANGED <<timer, lists, time, think, last, thought, history>>

(* The newest timer first.  A timer that an earlier OnTimerEnd() killed is in
   the list of those to kill all the same, and so is whatever was created with
   its struct since. *)
RemoveMapChangeTimers ==
    /\ Looks("sweep") /\ s_tokill # <<>> /\ s_tokill' = Tail(s_tokill)
    /\ KillNow(Head(s_tokill))
    /\ UNCHANGED <<lists, clocks, history>>

SweepReturns == /\ Looks("sweep") /\ s_tokill = <<>> /\ Pop /\ born' = {}
                /\ UNCHANGED <<timer, lists, s_tokill, clocks, fresh>>

-----------------------------------------------------------------------------
Callers == \/ \E kind \in Kinds : CreateTimer(kind)
           \/ \E t \in Structs : KillTimer(t) \/ \E d \in BOOLEAN : FireTimerOnce(t, d)

Game == LevelShutdown \/ \E s \in BOOLEAN, d \in Deltas : GameFrame(s, d)

Timers == \/ \E stop \in BOOLEAN : OnTimerReturns(stop)
          \/ OnTimerEndReturns \/ RunFrame \/ SinglesOver \/ LoopNext \/ RunFrameReturns
          \/ RemoveMapChangeTimers \/ SweepReturns

Next == Callers \/ Game \/ Timers

Spec == Init /\ [][Next]_vars

-----------------------------------------------------------------------------
(* Type invariant; OnTimerEnd() is counted. *)
TimerTypeOK ==
    /\ timer \in [Structs -> [exec : Nat, interval : Nat, repeat : BOOLEAN,
                              nomap : BOOLEAN, inExec : BOOLEAN, killMe : BOOLEAN, ended : 0..1]]
    /\ \A list \in {m_SingleTimers, m_LoopTimers, m_FreeTimers, s_tokill} : list \in Seq(Structs)
    /\ stack \in Seq([op : {"single", "loop", "fire", "kill", "sweep"}, t : Structs \cup {NULL},
                      at : {"timer", "end", "look"}, delay : BOOLEAN])
    /\ time \in 0..MaxTime /\ {think, curtime, last} \subseteq Nat /\ ticked \in BOOLEAN
    /\ thought \in -1..MaxTime /\ fresh \subseteq Structs /\ born \subseteq Structs

(* Whatever callbacks do to each other's timers, each struct is in one list
   only, once, and in the list that its flag says; a struct is not freed
   twice, nor used again while RunFrame() still holds it. *)
EachInOneList ==
    /\ IsInjective(m_SingleTimers) /\ IsInjective(m_LoopTimers) /\ IsInjective(m_FreeTimers)
    /\ ToSet(m_SingleTimers) \cap ToSet(m_LoopTimers) = {} /\ Live \cap ToSet(m_FreeTimers) = {}
    /\ \A t \in ToSet(m_LoopTimers) : timer[t].repeat
    /\ \A t \in ToSet(m_SingleTimers) : ~timer[t].repeat

Calling == {k \in DOMAIN stack : stack[k].at # "look"}

(* A timer whose callback has not returned is still in its list, so the
   iterator RunFrame() holds across the callback stays valid; and no timer's
   callbacks are entered again from inside themselves. *)
IteratorsValid ==
    /\ \A k \in DOMAIN stack : stack[k].t # NULL =>
          stack[k].t \in CASE stack[k].op = "single" -> ToSet(m_SingleTimers)
                           [] stack[k].op = "loop"   -> ToSet(m_LoopTimers)
                           [] OTHER -> Live
    /\ \A i, k \in Calling : stack[i].t = stack[k].t => i = k

(* OnTimerEnd() is called exactly once for a timer that was created: it has
   been for a free struct, and for a live one only if the call has not
   returned. *)
EndedOnce ==
    /\ \A t \in ToSet(m_FreeTimers) : timer[t].ended = 1
    /\ \A t \in Live : timer[t].ended = 1 <=> \E k \in DOMAIN stack : stack[k].t = t
                                                                   /\ stack[k].at = "end"

(* What holds of lists, structs and open calls at every moment. *)
TimerInv == TimerTypeOK /\ EachInOneList /\ IteratorsValid /\ EndedOnce

(* No function is called for a timer that was killed, by its own function, by
   another timer's or by a map change. *)
KilledNeverFires ==
    [][InTimer' /\ stack' # stack /\ Len(stack') >= Len(stack)
         => ~timer[Top'.t].killMe /\ timer[Top'.t].ended = 0]_vars

(* RunFrame() leaves no single timer that was due, although it stops at the
   first one that is not: only one created since it began may be. *)
NoneLate == Idle => \A t \in ToSet(m_SingleTimers) : timer[t].exec <= thought => t \in fresh

(* Time never runs backwards, although the game's clock does when the map
   changes. *)
TimeForward == [][time' >= time]_vars

(* A map change leaves no timer with TIMER_FLAG_NO_MAPCHANGE that was there
   before it and kills no other, except timers created in its own callbacks:
   one of those stays whatever its flag, unless it has got the struct of a
   timer that still was to be killed, and then goes whatever its flag. *)
SweepExact ==
    [][/\ SweepReturns => \A t \in Live : timer[t].nomap => t \in born
       /\ RemoveMapChangeTimers /\ stack' # stack =>
             LET t == Head(s_tokill) IN t \in Live /\ (timer[t].nomap \/ t \in born)]_vars
=============================================================================
