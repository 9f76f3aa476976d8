----------------------------- MODULE TimerWheel -----------------------------
(***************************************************************************)
(* The timers of the reactor: CTimerWheelMgr over itimer, a wheel of some   *)
(* levels.  Time is counted in jiffies of one millisecond.  One turn of    *)
(* the loop in itimer_mgr_run() is Tick, an Expire and its Calls for every *)
(* timer in the slot, and EndTick; add_timer() and del_timer() are called  *)
(* between two runs and by the callbacks.                                  *)
(*                                                                         *)
(* All numbers are words that wrap; the levels use up all of their bits.   *)
(* How many turns a run takes is up to the clock (after a jump of more     *)
(* than ITIMER_MGR_LIMIT it is one), so a turn may come at any time.       *)
(***************************************************************************)
EXTENDS Integers, Sequences, FiniteSets, FiniteSetsExt, SequencesExt, Lists

CONSTANTS
    RBits,     \* ITVR_BITS, 8 in the code
    NBits,     \* ITVN_BITS, 6 in the code
    Top,       \* the number of levels, 5 in the code
    StartTime, \* mgr->current at the start
    Timer,     \* the itimer_evt objects that add_timer() allocates
    NoTimer,
    Period,    \* the periods in use
    Repeat     \* the numbers of repetitions in use, 0 for no end

Word == 2 ^ (RBits + (Top - 1) * NBits)

ASSUME BitsAssumption == RBits \in Nat \ {0} /\ NBits \in Nat \ {0} /\ Top \in Nat \ {0} /\ StartTime \in 0 .. Word - 1
ASSUME TimerAssumption == NoTimer \notin Timer
ASSUME PeriodAssumption == Period \subseteq 1 .. Word \div 2 - 1 /\ Repeat \subseteq Nat

VARIABLES
    phase,   \* "idle", "run" inside a turn, "hang" in an endless loop of a
             \* callback, "destroyed", or "assert" for a failed assertion
    jiffies, \* mgr->jiffies
    wheel,   \* tv1 to tv5: the list of each slot
    queued,  \* the list of itimer_internal_update()
    evt,     \* the fields of each itimer_evt and its node
    call,    \* the timer whose callbacks run, how many are left, and whether
             \* the program is inside one
    due,     \* history: the jiffies until a timer should be called
    owed,    \* history: how often a timer with an end must still be called
    wrapped  \* history: a slap has passed the largest word

vars == <<phase, jiffies, wheel, queued, evt, call, due, owed, wrapped>>

-----------------------------------------------------------------------------
Level == 1 .. Top
Shift(l) == IF l = 1 THEN 0 ELSE RBits + NBits * (l - 2)
Size(l) == IF l = 1 THEN 2 ^ RBits ELSE 2 ^ NBits
Slot == UNION {{l} \X (0 .. Size(l) - 1) : l \in Level}

Index(l, j) == (j \div 2 ^ Shift(l)) % Size(l)

(* core->timer_jiffies is ahead of the jiffies while callbacks run.        *)
timer_jiffies == IF phase = "run" THEN (jiffies + 1) % Word ELSE jiffies

(* mgr->current advances with the jiffies.                                 *)
current == (StartTime + jiffies) % Word

(* Mutant: the limits of the levels belong to the level below.             *)
SlotOf_Closed(expires, j) ==
    LET idx == (expires - j) % Word
        l == Min({k \in Level : k = Top \/ idx <= 2 ^ (RBits + NBits * (k - 1))})
    IN  IF idx >= Word \div 2 THEN <<1, Index(1, j)>> ELSE <<l, Index(l, expires)>>

(* itimer_internal_add(): the lowest level that reaches so far; what is    *)
(* past goes to the next slot.                                             *)
SlotOf(expires, j) ==
    LET idx == (expires - j) % Word
        l == Min({k \in Level : k = Top \/ idx < 2 ^ (RBits + NBits * (k - 1))})
    IN  IF idx >= Word \div 2 THEN <<1, Index(1, j)>> ELSE <<l, Index(l, expires)>>

itimer_internal_add(w, t, expires, j) == [w EXCEPT ![SlotOf(expires, j)] = Append(@, t)]

(* The nodes of a slot are added again.                                    *)
itimer_internal_cascade(w, s, j) ==
    FoldLeft(LAMBDA v, t : itimer_internal_add(v, t, evt[t].expires, j), [w EXCEPT ![s] = <<>>], w[s])

(* A level is cascaded when all lower indices are 0.                       *)
Cascaded(j) ==
    FoldLeft(LAMBDA w, l : IF j % 2 ^ Shift(l) = 0 THEN itimer_internal_cascade(w, <<l, Index(l, j)>>, j) ELSE w,
             wheel, [l \in 1 .. Top - 1 |-> l + 1])

(* iqueue_del_init(): a node leaves the list that it is in.                *)
Without(list, t) == Filter(list, Timer \ {t})

-----------------------------------------------------------------------------
NewEvt == [state |-> "none", started |-> FALSE, expires |-> 0, period |-> 0, slap |-> 0, repeat |-> 0]
NoCall == [timer |-> NoTimer, left |-> 0, inside |-> FALSE]

Init ==
    /\ phase = "idle" /\ jiffies = 0
    /\ wheel = [s \in Slot |-> <<>>] /\ queued = <<>>
    /\ evt = [t \in Timer |-> NewEvt] /\ call = NoCall
    /\ due = [t \in Timer |-> 0] /\ owed = [t \in Timer |-> 0] /\ wrapped = FALSE

(* Where the program calls the timer manager.                              *)
Program == phase = "idle" \/ call.inside

(* No timer is set further ahead than this, 0x70000000 in the code.        *)
Furthest == 7 * (Word \div 16)

(* Mutant: rounded up although it is a whole number of intervals.          *)
Ahead_OneMore(slap) == Min({((slap - current) % Word) + 1, Furthest})

Ahead(slap) == Min({(slap - current) % Word, Furthest})

(* add_timer(): itimer_evt_init() and itimer_evt_start().                  *)
add_timer(t, period, repeat) ==
    LET slap == (current + period) % Word
        expires == (jiffies + Ahead(slap)) % Word
    IN  /\ Program /\ evt[t].state = "none"
        /\ evt' = [evt EXCEPT ![t] = [state |-> "ok", started |-> TRUE, expires |-> expires,
                                      period |-> period, slap |-> slap, repeat |-> repeat]]
        /\ wheel' = itimer_internal_add(wheel, t, expires, timer_jiffies)
        /\ due' = [due EXCEPT ![t] = period] /\ owed' = [owed EXCEPT ![t] = repeat]
        /\ wrapped' = (wrapped \/ slap # current + period)
        /\ UNCHANGED <<phase, jiffies, queued, call>>

(* Mutant: the timer is not taken out of the list of those that expire.    *)
del_timer_not_queued(t) ==
    /\ Program /\ evt[t].state = "ok"
    /\ wheel' = [s \in Slot |-> Without(wheel[s], t)]
    /\ evt' = [evt EXCEPT ![t] = [NewEvt EXCEPT !.state = "bad"]]
    /\ UNCHANGED <<phase, jiffies, queued, call, due, owed, wrapped>>

(* del_timer(): itimer_evt_stop() and itimer_evt_destroy().  The id stays  *)
(* in the map; nobody deletes a timer twice.                               *)
del_timer(t) ==
    /\ Program /\ evt[t].state = "ok"
    /\ wheel' = [s \in Slot |-> Without(wheel[s], t)]
    /\ queued' = Without(queued, t)
    /\ evt' = [evt EXCEPT ![t] = [NewEvt EXCEPT !.state = "bad"]]
    /\ UNCHANGED <<phase, jiffies, call, due, owed, wrapped>>

-----------------------------------------------------------------------------
(* itimer_internal_update() with the jiffies of this turn.                 *)
Tick ==
    LET w == Cascaded(jiffies)
        s == <<1, Index(1, jiffies)>>
    IN  /\ phase = "idle" /\ phase' = "run"
        /\ queued' = w[s]
        /\ wheel' = [w EXCEPT ![s] = <<>>]
        /\ UNCHANGED <<jiffies, evt, call, due, owed, wrapped>>

(* The loop of itimer_evt_cb(): the turns after which it can end.          *)
Late(t, k) == current >= (evt[t].slap + k * evt[t].period) % Word

(* Mutant: the last repetition is skipped.                                 *)
Final_OneLess(t, k) == evt[t].repeat >= 1 /\ k = evt[t].repeat - 1

Final(t, k) == evt[t].repeat >= 1 /\ k = evt[t].repeat
Ends(t) == {k \in 0 .. Word : Final(t, k) \/ ~Late(t, k)}

(* itimer_evt_cb() up to its first call: the timer is set again, unless it *)
(* was the last time.                                                      *)
Expire(t) ==
    LET k == Min(Ends(t))
        slap == (evt[t].slap + k * evt[t].period) % Word
        expires == (jiffies + Ahead(slap)) % Word
    IN  /\ phase = "run" /\ call = NoCall /\ queued # <<>> /\ t = Head(queued)
        /\ queued' = Tail(queued)
        /\ IF Ends(t) = {}
           THEN phase' = "hang" /\ UNCHANGED <<evt, wheel, call, wrapped>>
           ELSE /\ IF Final(t, k)
                   THEN /\ evt' = [evt EXCEPT ![t].started = FALSE, ![t].slap = slap, ![t].repeat = 1]
                        /\ UNCHANGED wheel
                   ELSE /\ evt' = [evt EXCEPT ![t].expires = expires, ![t].slap = slap,
                                              ![t].repeat = IF @ > 1 THEN @ - k ELSE @]
                        /\ wheel' = itimer_internal_add(wheel, t, expires, timer_jiffies)
                /\ call' = [timer |-> t, left |-> k, inside |-> FALSE]
                /\ wrapped' = (wrapped \/ slap # evt[t].slap + k * evt[t].period)
                /\ UNCHANGED phase
        /\ UNCHANGED <<jiffies, due, owed>>

(* handle_timeout() of the handler is called.                              *)
Call ==
    LET t == call.timer IN
    /\ phase = "run" /\ call # NoCall /\ call.left > 0 /\ evt[t].state = "ok"
    /\ call' = [call EXCEPT !.left = @ - 1, !.inside = TRUE]
    /\ due' = [due EXCEPT ![t] = IF wrapped THEN 0 ELSE @ + evt[t].period]
    /\ owed' = [owed EXCEPT ![t] = IF wrapped \/ evt[t].repeat = 0 THEN 0 ELSE @ - 1]
    /\ UNCHANGED <<phase, jiffies, wheel, queued, evt, wrapped>>

Return ==
    /\ phase = "run" /\ call # NoCall /\ (call.left = 0 \/ evt[call.timer].state = "bad")
    /\ call' = NoCall
    /\ UNCHANGED <<phase, jiffies, wheel, queued, evt, due, owed, wrapped>>

(* Mutant: the jiffies do not wrap.                                        *)
EndTick_NoWrap ==
    /\ phase = "run" /\ call = NoCall /\ queued = <<>>
    /\ phase' = "idle" /\ jiffies' = jiffies + 1
    /\ due' = [t \in Timer |-> IF evt[t].started /\ ~wrapped THEN due[t] - 1 ELSE 0]
    /\ UNCHANGED <<wheel, queued, evt, call, owed, wrapped>>

(* The turn ends.                                                          *)
EndTick ==
    /\ phase = "run" /\ call = NoCall /\ queued = <<>>
    /\ phase' = "idle" /\ jiffies' = (jiffies + 1) % Word
    /\ due' = [t \in Timer |-> IF evt[t].started /\ ~wrapped THEN due[t] - 1 ELSE 0]
    /\ UNCHANGED <<wheel, queued, evt, call, owed, wrapped>>

(* ~CTimerWheelMgr(): a timer that was deleted is destroyed once more.     *)
Destroy ==
    /\ phase = "idle"
    /\ phase' = IF \E t \in Timer : evt[t].state = "bad" THEN "assert" ELSE "destroyed"
    /\ jiffies' = 0 /\ wheel' = [s \in Slot |-> <<>>] /\ evt' = [t \in Timer |-> NewEvt]
    /\ due' = [t \in Timer |-> 0] /\ owed' = [t \in Timer |-> 0] /\ wrapped' = FALSE
    /\ UNCHANGED <<queued, call>>

Next ==
    \/ \E t \in Timer :
         \/ \E p \in Period, r \in Repeat : add_timer(t, p, r)
         \/ del_timer(t) \/ Expire(t)
    \/ Tick \/ Call \/ Return \/ EndTick \/ Destroy

Spec == Init /\ [][Next]_vars

-----------------------------------------------------------------------------
Pending == UNION {ToSet(wheel[s]) : s \in Slot}

TypeOK ==
    /\ phase \in {"idle", "run", "hang", "destroyed", "assert"} /\ jiffies \in 0 .. Word - 1
    /\ wheel \in [Slot -> Seq(Timer)] /\ queued \in Seq(Timer)
    /\ evt \in [Timer -> [state : {"none", "ok", "bad"}, started : BOOLEAN, expires : 0 .. Word - 1,
                          period : Period \cup {0}, slap : 0 .. Word - 1, repeat : Nat]]
    /\ call \in [timer : Timer \cup {NoTimer}, left : 0 .. Word, inside : BOOLEAN]
    /\ due \in [Timer -> Int] /\ owed \in [Timer -> Int] /\ wrapped \in BOOLEAN

(* Every started timer is in one list, once, and no other is in any: what  *)
(* del_timer() destroys can no longer expire.                              *)
InOneList ==
    phase \in {"idle", "run"} => \A t \in Timer :
        LET places == {<<s, i>> \in (Slot \cup {<<0, 0>>}) \X (1 .. Cardinality(Timer)) :
                         LET list == IF s = <<0, 0>> THEN queued ELSE wheel[s]
                         IN  i <= Len(list) /\ list[i] = t}
        IN  Cardinality(places) = IF evt[t].started THEN 1 ELSE 0

(* The wheel is a set of timers with times: a turn takes out the timers    *)
(* that expire at its jiffies, all of them and no others, through every    *)
(* cascade and every wrap of the counter.                                  *)
ExpiresOnTime == [][Tick => ToSet(queued') = {t \in Pending : evt[t].expires = jiffies}]_vars

(* A timer is called after exactly its period, and every period again, as  *)
(* long as no slap has wrapped: a call too early would leave due above the *)
(* period, one too late or missed below 0.                                 *)
Punctual == ~wrapped => \A t \in Timer : evt[t].started => due[t] \in 0 .. evt[t].period

(* A timer with an end is called as often as was asked for, no matter what *)
(* callbacks do to other timers.                                           *)
CalledInFull ==
    ~wrapped => \A t \in Timer :
        evt[t].state = "ok" /\ ~evt[t].started /\ call.timer # t => owed[t] = 0
=============================================================================
