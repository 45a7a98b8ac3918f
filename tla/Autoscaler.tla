----------------------------- MODULE Autoscaler -----------------------------
(***************************************************************************)
(* The autoscaler of CS695/Assignment_2/src/VMManager: class Manager, with *)
(* the calls the window makes to it (VmManager.cpp).                       *)
(*                                                                         *)
(* One watch thread per started machine measures its utilisation every     *)
(* second and updates the machine's load statistics; the load handler      *)
(* wakes up every 45 seconds, goes through the statistics and starts a     *)
(* machine when all are overloaded, or shuts an idle one down.  The user's *)
(* clicks and the sanitizer start and shut down machines from threads of   *)
(* their own.                                                              *)
(*                                                                         *)
(* The manager's maps from names to records are inserted into and erased   *)
(* from without a lock.  A structural change while the load handler        *)
(* iterates over them is undefined, and is not modelled: the other threads *)
(* insert and erase while the handler sleeps (MapsQuiet).  What the locks  *)
(* of the load records protect is interleaved freely.                      *)
(***************************************************************************)
EXTENDS Naturals, FiniteSets

CONSTANTS
  VMs,          \* the machines the hypervisor has defined
  None,
  OverloadTime, \* LOAD_OVERLOAD_THRESHOLD_TIME_IN_SECS
  IdleTime,     \* LOAD_IDLE_THRESHOLD_TIME_IN_SECS
  ResetTime,    \* LOAD_RESET_THRESHOLD_TIME_IN_SECS
  Levels,       \* the utilisations that occur, see Level
  MaxWatchers,  \* bound: watch threads of one machine
  MaxEvents     \* bound: clicks of the user and machines that stop by themselves

\* At least 80 %, between 50 and 80 %, above 15 and up to 50 %, at most 15 %.
Level == {"over", "mid", "low", "idle"}

ASSUME VMsAssumption == IsFiniteSet(VMs) /\ None \notin VMs
ASSUME TimeAssumption == OverloadTime \in Nat /\ IdleTime \in Nat /\ ResetTime \in Nat
ASSUME BoundAssumption == Levels \subseteq Level /\ MaxWatchers \in Nat /\ MaxEvents \in Nat

VARIABLES
  power,            \* the machines that are on
  stopping,         \* of these, the ones that have been asked to shut down
  domains,          \* the machines the manager has records of
  terminating,      \* threadTerminationFlags
  load,             \* the load statistics
  watchers,         \* per machine: watch threads about to test their flag
  measuring,        \* per machine: watch threads inside getVmCpuUtil
  util,             \* per machine: what its watch thread measured last
  pc,               \* the load handler
  toVisit,          \* machines its loop has not come to
  overloadedServer, \* all machines it has come to are overloaded
  toShutdown,       \* the last machine it found idle, or None
  newVm,            \* the machine it is starting, or None
  dying,            \* machines in a shutdown call of another thread
  events,           \* clicks and failures so far
  hot,              \* history: overloaded samples in the statistics' lifetime
  quiet             \* history: idle samples since, and since the last overload

watchVars == <<watchers, measuring, util>>
handlerVars == <<pc, toVisit, overloadedServer, toShutdown, newVm>>
recordVars == <<domains, terminating, load, hot, quiet>>
guestVars == <<power, stopping>>
vars == <<guestVars, recordVars, watchVars, handlerVars, dying, events>>

-----------------------------------------------------------------------------
(* The load statistics of one machine. *)

Stat ==
  [over : Nat, idle : Nat, reset : Nat, isOverloaded : BOOLEAN, canPowerOff : BOOLEAN]

\* Counters at zero, with the two flags.
Verdict(isOverloaded, canPowerOff) ==
  [over |-> 0, idle |-> 0, reset |-> 0,
   isOverloaded |-> isOverloaded, canPowerOff |-> canPowerOff]

ZeroStat == Verdict(FALSE, FALSE)

LessTwo(n) == IF n < 2 THEN 0 ELSE n - 2

\* Mutant of Counted: overload does not take back that a machine was idle.
CountedKeepsIdle(s, level) ==
  CASE level = "over" -> [s EXCEPT !.over = @ + 1, !.reset = 0, !.idle = 0]
    [] level = "idle" -> [s EXCEPT !.idle = @ + 1, !.reset = 0, !.over = LessTwo(@)]
    [] level = "low" -> [s EXCEPT !.reset = @ + 1, !.idle = 0, !.over = LessTwo(@)]
    [] level = "mid" -> s

\* One sample counted.
Counted(s, level) ==
  CASE level = "over" ->
         [s EXCEPT !.over = @ + 1, !.reset = 0, !.idle = 0, !.canPowerOff = FALSE]
    [] level = "idle" ->
         [s EXCEPT !.idle = @ + 1, !.isOverloaded = @ /\ s.idle + 1 <= 2,
                   !.reset = 0, !.over = LessTwo(@)]
    [] level = "low" ->
         [s EXCEPT !.reset = @ + 1, !.isOverloaded = @ /\ s.reset + 1 <= 3,
                   !.idle = 0, !.over = LessTwo(@)]
    [] level = "mid" -> s

\* Mutant of Judged: the reset counter has no effect.
JudgedNeverResets(s) ==
  IF s.over > OverloadTime THEN Verdict(TRUE, FALSE)
  ELSE IF s.idle > IdleTime THEN Verdict(FALSE, TRUE)
  ELSE s

\* The verdict on the counters.
Judged(s) ==
  IF s.reset > ResetTime THEN ZeroStat
  ELSE IF s.over > OverloadTime THEN Verdict(TRUE, FALSE)
  ELSE IF s.idle > IdleTime THEN Verdict(FALSE, TRUE)
  ELSE s

-----------------------------------------------------------------------------
(* Records. *)

\* The machine's record is there afterwards: inserting a second one has no
\* effect.
Insert(v) ==
  /\ domains' = domains \cup {v}
  /\ terminating' = [terminating EXCEPT ![v] = IF v \in domains THEN @ ELSE TRUE]

\* All maps forget the machine.
Erase(v) ==
  /\ domains' = domains \ {v}
  /\ terminating' = [terminating EXCEPT ![v] = FALSE]
  /\ load' = [load EXCEPT ![v] = ZeroStat]
  /\ hot' = [hot EXCEPT ![v] = 0]
  /\ quiet' = [quiet EXCEPT ![v] = 0]

\* The second half of shutdown.
Discard(v) ==
  IF v \in domains
  THEN /\ Erase(v)
       /\ stopping' = stopping \cup ({v} \cap power)
       /\ UNCHANGED power
  ELSE UNCHANGED <<guestVars, recordVars>>

\* startWatching: the flag is reset and a thread started.
StartWatching(v) ==
  /\ watchers[v] + measuring[v] < MaxWatchers
  /\ watchers' = [watchers EXCEPT ![v] = @ + 1]

\* The manager attaches to the machines that are on.
Init ==
  /\ power \in SUBSET VMs
  /\ stopping = {}
  /\ domains = power
  /\ terminating = [v \in VMs |-> FALSE]
  /\ load = [v \in VMs |-> ZeroStat]
  /\ watchers = [v \in VMs |-> IF v \in power THEN 1 ELSE 0]
  /\ measuring = [v \in VMs |-> 0]
  /\ util = [v \in VMs |-> "idle"]
  /\ pc = "sleep"
  /\ toVisit = {}
  /\ overloadedServer = FALSE
  /\ toShutdown = None
  /\ newVm = None
  /\ dying = {}
  /\ events = 0
  /\ hot = [v \in VMs |-> 0]
  /\ quiet = [v \in VMs |-> 0]

-----------------------------------------------------------------------------
(* The watch threads: _watch. *)

\* The thread goes on, or ends because of its flag or for lack of one.
CheckFlag(v) ==
  /\ watchers[v] > 0
  /\ watchers' = [watchers EXCEPT ![v] = @ - 1]
  /\ measuring' = [measuring EXCEPT ![v] = IF v \in domains /\ ~terminating[v] THEN @ + 1 ELSE @]
  /\ UNCHANGED <<guestVars, recordVars, util, handlerVars, dying, events>>

\* A sample enters the machine's statistics, under their lock.
Update(v, level) ==
  /\ IF v \in domains
     THEN /\ load' = [load EXCEPT ![v] = Judged(Counted(@, level))]
          /\ hot' = [hot EXCEPT ![v] =
                       IF level = "over" /\ @ <= OverloadTime THEN @ + 1 ELSE @]
          /\ quiet' = [quiet EXCEPT ![v] =
                         IF level = "over" THEN 0
                         ELSE IF level = "idle" /\ @ <= IdleTime THEN @ + 1 ELSE @]
     ELSE UNCHANGED <<load, hot, quiet>>
  /\ UNCHANGED <<domains, terminating>>

\* getVmCpuUtil has slept its second.
Measure(v) ==
  /\ measuring[v] > 0 /\ v \in power
  /\ \E level \in Levels :
       /\ util' = [util EXCEPT ![v] = level]
       /\ Update(v, level)
  /\ measuring' = [measuring EXCEPT ![v] = @ - 1]
  /\ watchers' = [watchers EXCEPT ![v] = @ + 1]
  /\ UNCHANGED <<guestVars, handlerVars, dying, events>>

\* The machine is off: its last sample is counted again, and the thread ends.
MeasureOff(v) ==
  /\ measuring[v] > 0 /\ v \notin power
  /\ Update(v, util[v])
  /\ measuring' = [measuring EXCEPT ![v] = @ - 1]
  /\ UNCHANGED <<guestVars, watchers, util, handlerVars, dying, events>>

-----------------------------------------------------------------------------
(* The load handler: the thread of Manager::Manager. *)

\* Mutant of Wake: the loop starts out from the flag of the last one.
WakeKeepsFlag ==
  /\ pc = "sleep"
  /\ pc' = "check"
  /\ toVisit' = domains
  /\ toShutdown' = None
  /\ UNCHANGED <<guestVars, recordVars, watchVars, overloadedServer, newVm, dying, events>>

Wake ==
  /\ pc = "sleep"
  /\ pc' = "check"
  /\ toVisit' = domains
  /\ overloadedServer' = TRUE
  /\ toShutdown' = None
  /\ UNCHANGED <<guestVars, recordVars, watchVars, newVm, dying, events>>

\* The loop's body for one machine, under its load lock.
Visit(v) ==
  /\ pc = "check" /\ v \in toVisit
  /\ toVisit' = toVisit \ {v}
  /\ overloadedServer' = (overloadedServer /\ load[v].isOverloaded)
  /\ toShutdown' = IF load[v].canPowerOff THEN v ELSE toShutdown
  /\ UNCHANGED <<guestVars, recordVars, watchVars, pc, newVm, dying, events>>

\* startNewVm takes a machine that is off.
StartNewVm(v) ==
  /\ pc = "check" /\ toVisit = {} /\ overloadedServer
  /\ v \notin power
  /\ Insert(v)
  /\ newVm' = v
  /\ toVisit' = domains'
  /\ pc' = "reset"
  /\ UNCHANGED <<guestVars, load, hot, quiet, watchVars, overloadedServer, toShutdown, dying, events>>

\* An idle machine, and no reason to start one.
ShutdownDue ==
  /\ pc = "check" /\ toVisit = {} /\ ~overloadedServer
  /\ toShutdown # None
  /\ toVisit' = domains
  /\ pc' = "reset"
  /\ UNCHANGED <<guestVars, recordVars, watchVars, overloadedServer, toShutdown, newVm, dying, events>>

\* Nothing to do, or every machine is on already.
BackToSleep ==
  /\ pc = "check" /\ toVisit = {}
  /\ IF overloadedServer THEN power = VMs ELSE toShutdown = None
  /\ pc' = "sleep"
  /\ UNCHANGED <<guestVars, recordVars, watchVars, toVisit, overloadedServer, toShutdown,
                 newVm, dying, events>>

\* Mutant of ResetStat: the flags survive the reset of the counters.
ResetCounters(v) ==
  /\ pc = "reset" /\ v \in toVisit
  /\ toVisit' = toVisit \ {v}
  /\ load' = [load EXCEPT ![v].over = 0, ![v].idle = 0, ![v].reset = 0]
  /\ hot' = [hot EXCEPT ![v] = 0]
  /\ quiet' = [quiet EXCEPT ![v] = 0]
  /\ UNCHANGED <<guestVars, domains, terminating, watchVars, pc, overloadedServer, toShutdown,
                 newVm, dying, events>>

\* Before a machine is started or shut down, all statistics are reset.
ResetStat(v) ==
  /\ pc = "reset" /\ v \in toVisit
  /\ toVisit' = toVisit \ {v}
  /\ load' = [load EXCEPT ![v] = ZeroStat]
  /\ hot' = [hot EXCEPT ![v] = 0]
  /\ quiet' = [quiet EXCEPT ![v] = 0]
  /\ UNCHANGED <<guestVars, domains, terminating, watchVars, pc, overloadedServer, toShutdown,
                 newVm, dying, events>>

\* Mutant of PowerOnNew: the new machine is not watched.
PowerOnUnwatched ==
  /\ pc = "reset" /\ toVisit = {} /\ newVm # None
  /\ power' = power \cup {newVm}
  /\ UNCHANGED stopping
  /\ newVm' = None
  /\ pc' = "sleep"
  /\ UNCHANGED <<recordVars, watchVars, toVisit, overloadedServer, toShutdown, dying, events>>

\* powerOn and startWatching: neither finds anything to do if the record is
\* gone by now.
PowerOnNew ==
  /\ pc = "reset" /\ toVisit = {} /\ newVm # None
  /\ IF newVm \in domains
     THEN /\ power' = power \cup {newVm}
          /\ StartWatching(newVm)
          /\ terminating' = [terminating EXCEPT ![newVm] = FALSE]
     ELSE UNCHANGED <<power, watchers, terminating>>
  /\ newVm' = None
  /\ pc' = "sleep"
  /\ UNCHANGED <<stopping, domains, load, hot, quiet, measuring, util, toVisit,
                 overloadedServer, toShutdown, dying, events>>

\* shutdown sets the flag and sleeps for a second, unless the machine is the
\* last one.
ShutdownIdle ==
  /\ pc = "reset" /\ toVisit = {} /\ newVm = None
  /\ IF Cardinality(domains) > 1 /\ toShutdown \in domains
     THEN /\ terminating' = [terminating EXCEPT ![toShutdown] = TRUE]
          /\ pc' = "closing"
     ELSE /\ pc' = "sleep"
          /\ UNCHANGED terminating
  /\ UNCHANGED <<guestVars, domains, load, hot, quiet, watchVars, toVisit, overloadedServer,
                 toShutdown, newVm, dying, events>>

\* ... then asks the machine to shut down and erases its record, if that is
\* still there.
CloseIdle ==
  /\ pc = "closing"
  /\ Discard(toShutdown)
  /\ pc' = "sleep"
  /\ UNCHANGED <<watchVars, toVisit, overloadedServer, toShutdown, newVm, dying, events>>

-----------------------------------------------------------------------------
(* The other threads. *)

MapsQuiet == pc \in {"sleep", "closing"}

\* _powerOnImpl: the machine gets a record; if it is off, it is switched on and
\* watched.
UserStart(v) ==
  /\ events < MaxEvents /\ MapsQuiet
  /\ IF v \in power
     THEN Insert(v) /\ UNCHANGED <<power, watchers>>
     ELSE /\ domains' = domains \cup {v}
          /\ power' = power \cup {v}
          /\ StartWatching(v)
          /\ terminating' = [terminating EXCEPT ![v] = FALSE]
  /\ events' = events + 1
  /\ UNCHANGED <<stopping, load, hot, quiet, measuring, util, handlerVars, dying>>

\* _shutdownImpl: the first half of shutdown.
UserShutdown(v) ==
  /\ events < MaxEvents
  /\ v \in power \cap domains
  /\ terminating' = [terminating EXCEPT ![v] = TRUE]
  /\ dying' = dying \cup {v}
  /\ events' = events + 1
  /\ UNCHANGED <<guestVars, domains, load, hot, quiet, watchVars, handlerVars>>

\* getAllActiveVmNames, called by the sanitizer every second, shuts down the
\* machines that have gone off.
Sanitize(v) ==
  /\ v \in domains \ power
  /\ v \notin dying
  /\ terminating' = [terminating EXCEPT ![v] = TRUE]
  /\ dying' = dying \cup {v}
  /\ UNCHANGED <<guestVars, domains, load, hot, quiet, watchVars, handlerVars, events>>

\* The second half of shutdown in these threads.
Close(v) ==
  /\ v \in dying /\ MapsQuiet
  /\ Discard(v)
  /\ dying' = dying \ {v}
  /\ UNCHANGED <<watchVars, handlerVars, events>>

Off(v) ==
  /\ power' = power \ {v}
  /\ stopping' = stopping \ {v}

\* A machine obeys.
GuestObeys(v) ==
  /\ v \in stopping
  /\ Off(v)
  /\ UNCHANGED <<recordVars, watchVars, handlerVars, dying, events>>

\* A machine stops by itself.
GuestOff(v) ==
  /\ events < MaxEvents
  /\ v \in power \ stopping
  /\ Off(v)
  /\ events' = events + 1
  /\ UNCHANGED <<recordVars, watchVars, handlerVars, dying>>

-----------------------------------------------------------------------------
Watch(v) == CheckFlag(v) \/ Measure(v) \/ MeasureOff(v)

Handler ==
  \/ Wake \/ ShutdownDue \/ BackToSleep \/ PowerOnNew \/ ShutdownIdle \/ CloseIdle
  \/ \E v \in VMs : Visit(v) \/ StartNewVm(v) \/ ResetStat(v)

Others(v) == UserStart(v) \/ UserShutdown(v) \/ GuestOff(v)

Next ==
  \/ Handler
  \/ \E v \in VMs : Watch(v) \/ Others(v) \/ Sanitize(v) \/ Close(v) \/ GuestObeys(v)

Spec == Init /\ [][Next]_vars

\* Every thread runs, and a machine that is asked to shut down does.  In the
\* code Close never waits: MapsQuiet, a restriction of this model, disables it
\* again and again, so its thread gets strong fairness.
FairSpec ==
  /\ Spec
  /\ WF_vars(Handler)
  /\ \A v \in VMs :
       WF_vars(Watch(v)) /\ WF_vars(Sanitize(v)) /\ WF_vars(GuestObeys(v)) /\ SF_vars(Close(v))

-----------------------------------------------------------------------------
\* A verdict comes as soon as a counter passes its threshold.
Bounded(s) == s.over <= OverloadTime /\ s.idle <= IdleTime /\ s.reset <= ResetTime

(* Type correctness of the manager, with the bounds of the counters          *)
(* (Manager.cpp:349-373).                                                    *)
TypeOK ==
  /\ power \subseteq VMs /\ stopping \subseteq power /\ domains \subseteq VMs /\ dying \subseteq VMs
  /\ toVisit \subseteq VMs
  /\ terminating \in [VMs -> BOOLEAN]
  /\ load \in [VMs -> Stat]
  /\ \A v \in VMs : Bounded(load[v])
  /\ watchers \in [VMs -> Nat] /\ measuring \in [VMs -> Nat]
  /\ util \in [VMs -> Level]
  /\ pc \in {"sleep", "check", "reset", "closing"}
  /\ overloadedServer \in BOOLEAN
  /\ toShutdown \in VMs \cup {None} /\ newVm \in VMs \cup {None}
  /\ events \in 0 .. MaxEvents
  /\ hot \in [VMs -> 0 .. OverloadTime + 1] /\ quiet \in [VMs -> 0 .. IdleTime + 1]

Agree(s) ==
  /\ s.isOverloaded => ~s.canPowerOff /\ s.idle <= 2 /\ s.reset <= 3
  /\ s.canPowerOff => s.over = 0
  /\ s.idle > 0 => s.reset = 0

(* The two flags of a machine never contradict each other or the counters:   *)
(* an overloaded machine has not been quiet for long since, a machine that   *)
(* may be powered off has had no overloaded second since                     *)
(* (Manager.cpp:327-373).                                                    *)
FlagsAgree == \A v \in VMs : Agree(load[v])

(* The handler only chooses a machine to shut down that has been idle for    *)
(* more than IdleTime seconds since it was last overloaded, since it was     *)
(* started and since the last machine was started or shut down: no           *)
(* statistic justifies two decisions (Manager.cpp:37-51, 80-96).             *)
IdleIsEarned ==
  [][toShutdown' \notin {None, toShutdown} => quiet[toShutdown'] > IdleTime]_vars

(* The handler only starts a machine when every other one has been           *)
(* overloaded for more than OverloadTime seconds since the last machine was  *)
(* started or shut down (Manager.cpp:37-72).                                 *)
OverloadIsEarned ==
  [][newVm = None /\ newVm' # None => \A v \in domains : hot[v] > OverloadTime]_vars

(* If the machines that are on stay busy, all machines are on in the end,    *)
(* whatever was idle, clicked or stopped before - unless the sanitizer keeps *)
(* meeting new machines between startNewVm and powerOn, when it takes them   *)
(* for dead ones and shuts them down (Manager.cpp:53-77, 562-573).           *)
ScalesUp ==
  <>[](dying = {} /\ \A v \in power : util[v] = "over") => <>[](power = VMs)

(* Whoever shuts machines down, and even if the sanitizer does interfere,    *)
(* the manager never stays without a running machine: having none counts as  *)
(* overload.                                                                 *)
AlwaysServed == []<>(power # {})

=============================================================================
