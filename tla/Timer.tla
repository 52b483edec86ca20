-------------------------------- MODULE Timer -------------------------------
(***************************************************************************)
(* Timer::State and its Schedulers (src/common/Timer.cpp): a discovery and  *)
(* a thing channel, each ticking at the multiples of its interval since the *)
(* epoch.  There is one Scheduler per interval in use, shared by channels   *)
(* with the same interval, and each has one one-shot timeout of libhv at a  *)
(* time.  Timeouts are never killed: one whose Scheduler has been dropped   *)
(* finds, when it fires, that it is not current.                            *)
(*                                                                         *)
(* Time is counted in units of a fraction of a millisecond, since a delay   *)
(* is truncated to milliseconds, and then narrowed to the int the loop       *)
(* takes.  libhv (external) fires a timeout at its due time or later, as     *)
(* late as the loop is busy.                                               *)
(***************************************************************************)
EXTENDS Naturals, Sequences, FiniteSets

CONSTANTS Intervals,     (* intervals in seconds that are configured       *)
          Second, Milli, (* units per second and per millisecond           *)
          DelayRange,    (* milliseconds a delay of the loop can tell apart: *)
                         (* 2^32 in the program                            *)
          MaxTime,       (* end of the modelled time, in units             *)
          MaxChanges     (* interval changes; bounds the model             *)

ASSUME TimerAssumption ==
    /\ Intervals \subseteq Nat \ {0}
    /\ Milli \in Nat \ {0} /\ Second \in Nat \ {0} /\ Second % Milli = 0
    /\ DelayRange \in Nat \ {0, 1}
    /\ MaxTime \in Nat /\ Second <= MaxTime /\ MaxChanges \in Nat

Channels == {"discovery", "thing"}
Unset == 0            \* an interval that was never configured
Invalid == 0          \* an interval validateInterval rejects
NoScheduler == 0

VARIABLES
    now,         (* system_clock, in units                                 *)
    tasks,       (* the Reactor's queue of posted tasks                    *)
    changes,     (* interval changes so far                                *)
    interval,    (* discoveryInterval, thingInterval                       *)
    schedulers,  (* State::schedulers: the Scheduler of each interval      *)
    made,        (* Schedulers made so far, numbered in that order         *)
    timeouts,    (* libhv's timeouts: whose, for which tick, due when      *)
    stopped,
    told,        (* "ticking", or how both flows have ended                *)
    last         (* of each Scheduler: its last tick and how often in a    *)
                 (* row it announced that one                              *)

state == <<interval, schedulers, made, timeouts, stopped, told>>
timerVars == <<now, tasks, changes, state, last>>

Schedulers == 1..MaxChanges
Task(op, channel, seconds) == [op |-> op, channel |-> channel, seconds |-> seconds]
Timeout(s, i, at, due) == [scheduler |-> s, interval |-> i, at |-> at, due |-> due]

TimerTypeOK ==
    /\ now \in 0..MaxTime /\ changes \in 0..MaxChanges /\ made \in 0..MaxChanges
    /\ tasks \in Seq([op : {"set", "fail", "stop"}, channel : Channels,
                      seconds : Intervals \cup {Invalid}])
    /\ interval \in [Channels -> Intervals \cup {Unset}]
    /\ schedulers \in [Intervals -> 0..made]
    /\ \A t \in timeouts : /\ t.scheduler \in 1..made /\ t.interval \in Intervals
                           /\ t.at \in Nat /\ t.due \in Nat
    /\ stopped \in BOOLEAN /\ told \in {"ticking", "completed", "failed"}
    /\ last \in [Schedulers -> [at : Nat, times : Nat]]

TimerInit ==
    /\ now \in 0..Second - 1 /\ tasks = <<>> /\ changes = 0
    /\ interval = [c \in Channels |-> Unset]
    /\ schedulers = [i \in Intervals |-> NoScheduler] /\ made = 0 /\ timeouts = {}
    /\ stopped = FALSE /\ told = "ticking"
    /\ last = [s \in Schedulers |-> [at |-> 0, times |-> 0]]

-----------------------------------------------------------------------------

(* Faulty: not strictly after.                                              *)
NextTickAtOrAfter(time, i) ==
    LET elapsed == time \div Second
    IN  (elapsed + ((i - (elapsed % i)) % i)) * Second

(* nextEpochAlignedTickAfter, in units: from whole seconds, strictly after.  *)
NextTick(time, i) ==
    LET elapsed == time \div Second
    IN  (elapsed + (i - (elapsed % i))) * Second

(* The delay in whole milliseconds, at least one, as much of it as is left   *)
(* after static_cast<int>: the interval has no upper bound.  Nothing left,   *)
(* which libhv is not made for, is taken as due at once.                    *)
Delay(wait) == ((IF wait < Milli THEN 1 ELSE wait \div Milli) % DelayRange) * Milli

(* Scheduler::schedule.                                                     *)
Schedule(s, i) ==
    LET at == NextTick(now, i) IN Timeout(s, i, at, now + Delay(at - now))

IsCurrent(s, i) == ~stopped /\ schedulers[i] = s

Uses(intervals, i) == \E c \in Channels : intervals[c] = i

(* Nothing happens in a Timer that has stopped.                             *)
EndFlows(how) ==
    IF stopped
    THEN UNCHANGED state
    ELSE /\ stopped' = TRUE /\ told' = how
         /\ schedulers' = [i \in Intervals |-> NoScheduler]
         /\ UNCHANGED <<interval, made, timeouts>>

(* Faulty: the Scheduler is dropped although the other channel uses it.  *)
ConfigureDropsShared(c, i) ==
    LET previous == interval[c]
        configured == [interval EXCEPT ![c] = i]
        kept == [j \in Intervals |-> IF j = previous /\ j # i THEN NoScheduler ELSE schedulers[j]]
    IN  /\ interval' = configured
        /\ IF kept[i] # NoScheduler
           THEN schedulers' = kept /\ UNCHANGED <<made, timeouts>>
           ELSE /\ made' = made + 1
                /\ schedulers' = [kept EXCEPT ![i] = made']
                /\ timeouts' = timeouts \cup {Schedule(made', i)}
        /\ UNCHANGED <<stopped, told>>

(* setIntervalInLoop with a valid interval.                                 *)
Configure(c, i) ==
    LET previous == interval[c]
        configured == [interval EXCEPT ![c] = i]
        kept == [j \in Intervals |-> IF j = previous /\ ~Uses(configured, j)
                                     THEN NoScheduler ELSE schedulers[j]]
    IN  /\ interval' = configured
        /\ IF kept[i] # NoScheduler
           THEN schedulers' = kept /\ UNCHANGED <<made, timeouts>>
           ELSE /\ made' = made + 1
                /\ schedulers' = [kept EXCEPT ![i] = made']
                /\ timeouts' = timeouts \cup {Schedule(made', i)}
        /\ UNCHANGED <<stopped, told>>

-----------------------------------------------------------------------------
(* The calls and the callbacks.                                            *)

Passes == now < MaxTime /\ now' = now + 1 /\ UNCHANGED <<tasks, changes, state, last>>

(* An interval flow of the configuration emits; setInterval.                *)
SetInterval(c, i) ==
    /\ changes < MaxChanges
    /\ changes' = changes + 1
    /\ tasks' = Append(tasks, Task("set", c, i))
    /\ UNCHANGED <<now, state, last>>

(* An interval flow fails, or stop() is called.  One end at a time is        *)
(* queued, and none once stopped, where it has no effect: this bounds the    *)
(* model.                                                                  *)
PostEnd(op) ==
    /\ \A k \in DOMAIN tasks : tasks[k].op = "set"
    /\ ~stopped
    /\ tasks' = Append(tasks, Task(op, "discovery", Invalid))
    /\ UNCHANGED <<now, changes, state, last>>

SetIntervalInLoop ==
    /\ tasks # <<>> /\ Head(tasks).op = "set"
    /\ tasks' = Tail(tasks)
    /\ LET i == Head(tasks).seconds
       IN  \/ i = Invalid /\ EndFlows("failed")
           \/ i # Invalid /\ stopped /\ UNCHANGED state
           \/ i # Invalid /\ ~stopped /\ Configure(Head(tasks).channel, i)
    /\ UNCHANGED <<now, changes, last>>

EndInLoop ==
    /\ tasks # <<>> /\ Head(tasks).op # "set"
    /\ tasks' = Tail(tasks)
    /\ EndFlows(IF Head(tasks).op = "stop" THEN "completed" ELSE "failed")
    /\ UNCHANGED <<now, changes, last>>

(* Faulty: a timeout announces its tick whether it is current or not.        *)
FireStale(t) ==
    /\ now >= t.due
    /\ timeouts' = (timeouts \ {t}) \cup {Schedule(t.scheduler, t.interval)}
    /\ last' = [last EXCEPT ![t.scheduler] =
                   [at |-> t.at, times |-> IF @.at = t.at THEN @.times + 1 ELSE 1]]
    /\ UNCHANGED <<now, tasks, changes, interval, schedulers, made, stopped, told>>

(* A timeout fires: the tick is announced to the channels with its interval, *)
(* and the next one scheduled.                                             *)
Fire(t) ==
    /\ now >= t.due
    /\ IF IsCurrent(t.scheduler, t.interval)
       THEN /\ timeouts' = (timeouts \ {t}) \cup {Schedule(t.scheduler, t.interval)}
            /\ last' = [last EXCEPT ![t.scheduler] =
                           [at |-> t.at, times |-> IF @.at = t.at THEN @.times + 1 ELSE 1]]
       ELSE timeouts' = timeouts \ {t} /\ UNCHANGED last
    /\ UNCHANGED <<now, tasks, changes, interval, schedulers, made, stopped, told>>

FireAny == \E t \in timeouts : Fire(t)

RunTask == SetIntervalInLoop \/ EndInLoop

TimerNext == \/ Passes \/ RunTask \/ FireAny
        \/ \E c \in Channels, i \in Intervals \cup {Invalid} : SetInterval(c, i)
        \/ \E op \in {"fail", "stop"} : PostEnd(op)

TimerSpec == TimerInit /\ [][TimerNext]_timerVars

-----------------------------------------------------------------------------
(* Properties.                                                             *)

Current == {schedulers[i] : i \in Intervals} \ {NoScheduler}

(* A channel that is configured has a Scheduler for its interval, and that   *)
(* one exactly one timeout: however the intervals of the two channels cross, *)
(* no channel falls silent and none ticks twice as often.                   *)
ChannelsServed ==
    ~stopped => /\ \A c \in Channels : interval[c] # Unset => schedulers[interval[c]] # NoScheduler
                /\ \A s \in Current : Cardinality({t \in timeouts : t.scheduler = s}) = 1

(* No Scheduler is kept that no channel uses, and each is of one interval:   *)
(* an interval that was given up stops waking the loop.                     *)
SchedulersInUse ==
    /\ \A i \in Intervals : schedulers[i] # NoScheduler => Uses(interval, i)
    /\ \A i, j \in Intervals : schedulers[i] = schedulers[j] /\ schedulers[i] # NoScheduler => i = j
    /\ \A i \in Intervals : \A t \in timeouts : t.scheduler = schedulers[i] => t.interval = i

(* Every configured channel has its Scheduler and its one timeout, and no   *)
(* Scheduler is left over.                                                  *)
ChannelsAccounted == TimerTypeOK /\ ChannelsServed /\ SchedulersInUse

(* An interval whose milliseconds survive the narrowing.                    *)
Fits(i) == i * (Second \div Milli) < DelayRange

(* Truncating the delay makes a tick at most a millisecond early.           *)
BarelyEarly == \A t \in timeouts : Fits(t.interval) => t.due + Milli > t.at

(* While the interval fits the delay of the loop, a tick is less than a     *)
(* millisecond early; an early tick finds its own boundary still ahead and   *)
(* announces it again, but no Scheduler announces a boundary more than      *)
(* twice.  (A Scheduler that announces has its next timeout already.)        *)
AnnouncedTwiceAtMost ==
    /\ BarelyEarly
    /\ \A t \in timeouts : Fits(t.interval) => last[t.scheduler].times <= 2

(* A stopped or failed Timer announces nothing, although its timeouts still  *)
(* fire, and its flows end once.                                           *)
SilentOnceStopped == [][stopped => told' = told /\ last' = last]_timerVars
=============================================================================
