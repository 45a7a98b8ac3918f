-------------------------- MODULE AutoscalerProofs --------------------------
(***************************************************************************)
(* Proofs about Autoscaler, for every set of machines and all thresholds:  *)
(* what the statistics of a machine can be, and that the load handler only *)
(* decides on statistics that have been earned.                            *)
(***************************************************************************)
EXTENDS Autoscaler, TLAPS

-----------------------------------------------------------------------------
(* One sample. *)

LEMMA StatFields ==
  ASSUME NEW o \in Nat, NEW i \in Nat, NEW r \in Nat, NEW f \in BOOLEAN, NEW g \in BOOLEAN,
         NEW t, t = [over |-> o, idle |-> i, reset |-> r, isOverloaded |-> f, canPowerOff |-> g]
  PROVE  /\ t \in Stat
         /\ t.over = o /\ t.idle = i /\ t.reset = r
         /\ t.isOverloaded = f /\ t.canPowerOff = g
BY DEF Stat

LEMMA FieldsType ==
  ASSUME NEW s \in Stat
  PROVE  /\ s.over \in Nat /\ s.idle \in Nat /\ s.reset \in Nat
         /\ s.isOverloaded \in BOOLEAN /\ s.canPowerOff \in BOOLEAN
BY DEF Stat

(* The fields of a sample that has been counted. *)
LEMMA CountedFields ==
  ASSUME NEW s \in Stat, NEW level \in Level
  PROVE  LET t == Counted(s, level) IN
         /\ t \in Stat
         /\ level = "over" =>
              /\ t.over = s.over + 1 /\ t.idle = 0 /\ t.reset = 0
              /\ t.isOverloaded = s.isOverloaded /\ t.canPowerOff = FALSE
         /\ level = "idle" =>
              /\ t.over <= s.over /\ t.idle = s.idle + 1 /\ t.reset = 0
              /\ t.isOverloaded = (s.isOverloaded /\ t.idle <= 2)
              /\ t.canPowerOff = s.canPowerOff
         /\ level = "low" =>
              /\ t.over <= s.over /\ t.idle = 0 /\ t.reset = s.reset + 1
              /\ t.isOverloaded = (s.isOverloaded /\ t.reset <= 3)
              /\ t.canPowerOff = s.canPowerOff
         /\ level = "mid" => t = s
<1> DEFINE t == Counted(s, level)
<1>1. LessTwo(s.over) \in Nat /\ LessTwo(s.over) <= s.over
  BY DEF LessTwo, Stat
<1>2. CASE level = "over"
  <2> DEFINE f == FALSE
  <2>1. t = [over |-> s.over + 1, idle |-> 0, reset |-> 0,
             isOverloaded |-> s.isOverloaded, canPowerOff |-> f]
    BY <1>2 DEF Counted, Stat
  <2>3. f \in BOOLEAN
    OBVIOUS
  <2> HIDE DEF t, f
  <2>2. /\ t \in Stat
        /\ t.over = s.over + 1 /\ t.idle = 0 /\ t.reset = 0
        /\ t.isOverloaded = s.isOverloaded /\ t.canPowerOff = f
    BY <2>1, <2>3, FieldsType, StatFields
  <2> QED BY <1>2, <2>2 DEF t, f
<1>3. CASE level = "idle"
  <2> DEFINE f == s.isOverloaded /\ s.idle + 1 <= 2
  <2>1. t = [over |-> LessTwo(s.over), idle |-> s.idle + 1, reset |-> 0,
             isOverloaded |-> f, canPowerOff |-> s.canPowerOff]
    BY <1>3 DEF Counted, Stat
  <2>2. f \in BOOLEAN
    OBVIOUS
  <2> HIDE DEF t, f
  <2>3. /\ t \in Stat
        /\ t.over = LessTwo(s.over) /\ t.idle = s.idle + 1 /\ t.reset = 0
        /\ t.isOverloaded = f /\ t.canPowerOff = s.canPowerOff
    BY <1>1, <2>1, <2>2, FieldsType, StatFields
  <2> QED BY <1>1, <1>3, <2>3 DEF t, f
<1>4. CASE level = "low"
  <2> DEFINE f == s.isOverloaded /\ s.reset + 1 <= 3
  <2>1. t = [over |-> LessTwo(s.over), idle |-> 0, reset |-> s.reset + 1,
             isOverloaded |-> f, canPowerOff |-> s.canPowerOff]
    BY <1>4 DEF Counted, Stat
  <2>2. f \in BOOLEAN
    OBVIOUS
  <2> HIDE DEF t, f
  <2>3. /\ t \in Stat
        /\ t.over = LessTwo(s.over) /\ t.idle = 0 /\ t.reset = s.reset + 1
        /\ t.isOverloaded = f /\ t.canPowerOff = s.canPowerOff
    BY <1>1, <2>1, <2>2, FieldsType, StatFields
  <2> QED BY <1>1, <1>4, <2>3 DEF t, f
<1>5. CASE level = "mid"
  BY <1>5 DEF Counted
<1> QED BY <1>2, <1>3, <1>4, <1>5 DEF Level

LEMMA VerdictFields ==
  ASSUME NEW f \in BOOLEAN, NEW g \in BOOLEAN
  PROVE  LET t == Verdict(f, g) IN
         /\ t \in Stat /\ t.over = 0 /\ t.idle = 0 /\ t.reset = 0
         /\ t.isOverloaded = f /\ t.canPowerOff = g
BY DEF Verdict, Stat

LEMMA SampleType ==
  ASSUME NEW s \in Stat, NEW level \in Level
  PROVE  Judged(Counted(s, level)) \in Stat /\ Bounded(Judged(Counted(s, level)))
<1> DEFINE t == Counted(s, level)
<1>1. t \in Stat
  BY CountedFields
<1> HIDE DEF t
<1>2. ASSUME NEW f \in BOOLEAN, NEW g \in BOOLEAN
      PROVE  Verdict(f, g) \in Stat /\ Bounded(Verdict(f, g))
  BY VerdictFields, TimeAssumption DEF Bounded
<1>3. /\ ZeroStat \in Stat /\ Bounded(ZeroStat)
      /\ Verdict(TRUE, FALSE) \in Stat /\ Bounded(Verdict(TRUE, FALSE))
      /\ Verdict(FALSE, TRUE) \in Stat /\ Bounded(Verdict(FALSE, TRUE))
  BY <1>2 DEF ZeroStat
<1>4. Judged(t) \in Stat /\ Bounded(Judged(t))
  <2>1. CASE t.reset > ResetTime \/ t.over > OverloadTime \/ t.idle > IdleTime
    BY <1>3, <2>1 DEF Judged
  <2>2. CASE ~(t.reset > ResetTime \/ t.over > OverloadTime \/ t.idle > IdleTime)
    <3>1. Bounded(t)
      BY <1>1, <2>2, FieldsType, TimeAssumption DEF Bounded
    <3> QED BY <1>1, <2>2, <3>1 DEF Judged
  <2> QED BY <2>1, <2>2
<1> QED BY <1>4 DEF t

LEMMA VerdictAgrees ==
  ASSUME NEW f \in BOOLEAN, NEW g \in BOOLEAN, ~f \/ ~g
  PROVE  Agree(Verdict(f, g))
<1> DEFINE t == Verdict(f, g)
<1>1. t.over = 0 /\ t.idle = 0 /\ t.reset = 0 /\ t.isOverloaded = f /\ t.canPowerOff = g
  BY VerdictFields
<1> HIDE DEF t
<1>2. Agree(t)
  BY <1>1 DEF Agree
<1> QED BY <1>2 DEF t

LEMMA SampleAgrees ==
  ASSUME NEW s \in Stat, Agree(s), NEW level \in Level
  PROVE  Agree(Judged(Counted(s, level)))
<1> DEFINE t == Counted(s, level)
<1>1. Agree(t)
  <2> USE DEF Agree
  <2>0. s.over \in Nat /\ s.idle \in Nat /\ s.reset \in Nat
    BY FieldsType
  <2>1. CASE level = "over"
    <3>1. t.over = s.over + 1 /\ t.idle = 0 /\ t.reset = 0
      BY <2>1, CountedFields
    <3>2. ~t.canPowerOff
      BY <2>1, CountedFields
    <3> HIDE DEF t
    <3> QED BY <2>0, <3>1, <3>2
  <2>2. CASE level = "idle"
    <3>1. t.over <= s.over /\ t.over \in Nat /\ t.idle = s.idle + 1 /\ t.reset = 0
      BY <2>2, CountedFields, FieldsType
    <3>2. t.isOverloaded => s.isOverloaded /\ t.idle <= 2
      BY <2>2, CountedFields
    <3>3. t.canPowerOff <=> s.canPowerOff
      BY <2>2, CountedFields
    <3> HIDE DEF t
    <3> QED BY <2>0, <3>1, <3>2, <3>3
  <2>3. CASE level = "low"
    <3>1. t.over <= s.over /\ t.over \in Nat /\ t.idle = 0 /\ t.reset = s.reset + 1
      BY <2>3, CountedFields, FieldsType
    <3>2. t.isOverloaded => s.isOverloaded /\ t.reset <= 3
      BY <2>3, CountedFields
    <3>3. t.canPowerOff <=> s.canPowerOff
      BY <2>3, CountedFields
    <3> HIDE DEF t
    <3> QED BY <2>0, <3>1, <3>2, <3>3
  <2>4. CASE level = "mid"
    BY <2>4, CountedFields
  <2> QED BY <2>1, <2>2, <2>3, <2>4 DEF Level
<1> HIDE DEF t
<1>2. Agree(ZeroStat) /\ Agree(Verdict(TRUE, FALSE)) /\ Agree(Verdict(FALSE, TRUE))
  BY VerdictAgrees DEF ZeroStat
<1>3. Agree(Judged(t))
  BY <1>1, <1>2 DEF Judged
<1> QED BY <1>3 DEF t

-----------------------------------------------------------------------------
(* Statistics and history go together: the counters never run ahead of the   *)
(* samples they stand for, and a flag means that there were enough of them.  *)
Earned(s, h, q) ==
  /\ s.over <= h /\ s.idle <= q
  /\ s.isOverloaded => h > OverloadTime
  /\ s.canPowerOff => q > IdleTime

HotAfter(h, level) == IF level = "over" /\ h <= OverloadTime THEN h + 1 ELSE h

QuietAfter(q, level) ==
  IF level = "over" THEN 0 ELSE IF level = "idle" /\ q <= IdleTime THEN q + 1 ELSE q

(* A sample raises no flag by itself, and only overload counts as such. *)
LEMMA CountedMonotone ==
  ASSUME NEW s \in Stat, NEW level \in Level
  PROVE  LET t == Counted(s, level) IN
         /\ level # "over" => t.over <= s.over
         /\ t.isOverloaded => s.isOverloaded
         /\ t.canPowerOff => s.canPowerOff /\ level # "over"
<1>0. s.over \in Nat
  BY FieldsType
<1>1. CASE level = "over"
  <2>1. Counted(s, level).isOverloaded => s.isOverloaded
    BY <1>1, CountedFields
  <2>2. ~Counted(s, level).canPowerOff
    BY <1>1, CountedFields
  <2> QED BY <1>1, <2>1, <2>2
<1>2. CASE level = "idle"
  BY <1>2, CountedFields
<1>3. CASE level = "low"
  BY <1>3, CountedFields
<1>4. CASE level = "mid"
  <2>1. Counted(s, level) = s /\ level # "over"
    BY <1>4, CountedFields
  <2>2. s.over <= s.over
    BY <1>0
  <2> QED BY <2>1, <2>2
<1> QED BY <1>1, <1>2, <1>3, <1>4 DEF Level

LEMMA VerdictEarned ==
  ASSUME NEW f \in BOOLEAN, NEW g \in BOOLEAN, NEW h \in Nat, NEW q \in Nat,
         f => h > OverloadTime, g => q > IdleTime
  PROVE  Earned(Verdict(f, g), h, q)
<1> DEFINE t == Verdict(f, g)
<1>1. t.over = 0 /\ t.idle = 0 /\ t.isOverloaded = f /\ t.canPowerOff = g
  BY VerdictFields
<1> HIDE DEF t
<1>2. Earned(t, h, q)
  BY <1>1 DEF Earned
<1> QED BY <1>2 DEF t

LEMMA SampleEarned ==
  ASSUME NEW s \in Stat, Bounded(s), NEW h \in Nat, NEW q \in Nat, Earned(s, h, q),
         NEW level \in Level
  PROVE  Earned(Judged(Counted(s, level)), HotAfter(h, level), QuietAfter(q, level))
<1> DEFINE t == Counted(s, level)
           hh == HotAfter(h, level)
           qq == QuietAfter(q, level)
<1>1. hh \in Nat /\ qq \in Nat /\ hh >= h
  BY DEF HotAfter, QuietAfter
<1>2. t \in Stat /\ t.over \in Nat /\ t.idle \in Nat
  BY CountedFields, FieldsType
<1>3. /\ s.over \in Nat /\ s.over <= OverloadTime /\ s.over <= h
      /\ s.idle \in Nat /\ s.idle <= IdleTime /\ s.idle <= q
  BY FieldsType DEF Bounded, Earned
<1>4. t.over <= hh
  <2>1. level = "over" => t.over = s.over + 1
    BY CountedFields
  <2>2. level # "over" => t.over <= s.over
    BY CountedMonotone
  <2> HIDE DEF t
  <2> QED BY <1>2, <1>3, <2>1, <2>2, TimeAssumption DEF HotAfter
<1>5. t.idle <= qq
  <2>1. level = "idle" => t.idle = s.idle + 1
    BY CountedFields
  <2>2. level = "over" \/ level = "low" => t.idle = 0
    BY CountedFields
  <2>3. level = "mid" => t.idle = s.idle
    BY CountedFields
  <2> HIDE DEF t
  <2> QED BY <1>2, <1>3, <2>1, <2>2, <2>3, TimeAssumption DEF QuietAfter, Level
<1>6. t.isOverloaded => hh > OverloadTime
  <2>1. t.isOverloaded => s.isOverloaded
    BY CountedMonotone
  <2>2. s.isOverloaded => h > OverloadTime
    BY DEF Earned
  <2> HIDE DEF t, hh
  <2> QED BY <1>1, <2>1, <2>2, TimeAssumption
<1>7. t.canPowerOff => qq > IdleTime
  <2>1. t.canPowerOff => s.canPowerOff /\ level # "over"
    BY CountedMonotone
  <2>2. s.canPowerOff => q > IdleTime
    BY DEF Earned
  <2> HIDE DEF t
  <2> QED BY <2>1, <2>2, TimeAssumption DEF QuietAfter
<1>8. Earned(t, hh, qq)
  BY <1>4, <1>5, <1>6, <1>7 DEF Earned
<1> HIDE DEF t, hh, qq
<1>9. Earned(Judged(t), hh, qq)
  <2>1. CASE t.reset > ResetTime
    <3>1. Earned(Verdict(FALSE, FALSE), hh, qq)
      BY <1>1, VerdictEarned
    <3> QED BY <2>1, <3>1 DEF Judged, ZeroStat
  <2>2. CASE ~(t.reset > ResetTime) /\ t.over > OverloadTime
    <3>1. hh > OverloadTime
      BY <1>1, <1>2, <1>4, <2>2, TimeAssumption
    <3>2. Earned(Verdict(TRUE, FALSE), hh, qq)
      BY <1>1, <3>1, VerdictEarned
    <3> QED BY <2>2, <3>2 DEF Judged
  <2>3. CASE ~(t.reset > ResetTime) /\ ~(t.over > OverloadTime) /\ t.idle > IdleTime
    <3>1. qq > IdleTime
      BY <1>1, <1>2, <1>5, <2>3, TimeAssumption
    <3>2. Earned(Verdict(FALSE, TRUE), hh, qq)
      BY <1>1, <3>1, VerdictEarned
    <3> QED BY <2>3, <3>2 DEF Judged
  <2>4. CASE ~(t.reset > ResetTime) /\ ~(t.over > OverloadTime) /\ ~(t.idle > IdleTime)
    BY <1>8, <2>4 DEF Judged
  <2> QED BY <2>1, <2>2, <2>3, <2>4
<1> QED BY <1>9 DEF t, hh, qq

-----------------------------------------------------------------------------
(* The inductive invariant.                                                  *)

StatOK(s, h, q) ==
  /\ s \in Stat /\ Bounded(s)
  /\ h \in 0 .. OverloadTime + 1 /\ q \in 0 .. IdleTime + 1
  /\ Agree(s) /\ Earned(s, h, q)

\* The statistics and their history.
StatsOK ==
  /\ load \in [VMs -> Stat]
  /\ hot \in [VMs -> 0 .. OverloadTime + 1]
  /\ quiet \in [VMs -> 0 .. IdleTime + 1]
  /\ \A v \in VMs : StatOK(load[v], hot[v], quiet[v])

\* The rest of the state.
RestOK ==
  /\ power \subseteq VMs /\ stopping \subseteq power /\ domains \subseteq VMs /\ dying \subseteq VMs
  /\ toVisit \subseteq VMs
  /\ terminating \in [VMs -> BOOLEAN]
  /\ watchers \in [VMs -> Nat] /\ measuring \in [VMs -> Nat]
  /\ util \in [VMs -> Level]
  /\ pc \in {"sleep", "check", "reset", "closing"}
  /\ overloadedServer \in BOOLEAN
  /\ toShutdown \in VMs \cup {None} /\ newVm \in VMs \cup {None}
  /\ events \in 0 .. MaxEvents

\* While the handler checks, it is not starting a machine, and if it has seen
\* only overloaded machines, these have been overloaded for long enough.
CheckOK ==
  /\ pc # "reset" => newVm = None
  /\ pc = "reset" /\ newVm = None => toShutdown \in VMs
  /\ pc = "closing" => toShutdown \in VMs
  /\ pc = "check" /\ overloadedServer => \A v \in domains \ toVisit : hot[v] > OverloadTime

IInv == StatsOK /\ RestOK /\ CheckOK

LEMMA ZeroStatOK == StatOK(ZeroStat, 0, 0)
<1>1. ASSUME NEW f \in BOOLEAN, NEW g \in BOOLEAN, ~f, ~g
      PROVE  StatOK(Verdict(f, g), 0, 0)
  <2> DEFINE t == Verdict(f, g)
  <2>1. t \in Stat /\ t.over = 0 /\ t.idle = 0 /\ t.reset = 0
    BY VerdictFields
  <2>2. Agree(t)
    BY <1>1, VerdictAgrees
  <2>3. Earned(t, 0, 0)
    BY <1>1, VerdictEarned
  <2> HIDE DEF t
  <2>4. StatOK(t, 0, 0)
    BY <2>1, <2>2, <2>3, TimeAssumption DEF StatOK, Bounded
  <2> QED BY <2>4 DEF t
<1> QED BY <1>1 DEF ZeroStat

(* All statistics but those of one machine stay, and its new ones are sound. *)
LEMMA StatsReplaced ==
  ASSUME StatsOK, NEW v \in VMs, NEW s, NEW h, NEW q, StatOK(s, h, q),
         load' = [load EXCEPT ![v] = s],
         hot' = [hot EXCEPT ![v] = h],
         quiet' = [quiet EXCEPT ![v] = q]
  PROVE  StatsOK'
<1>1. s \in Stat /\ h \in 0 .. OverloadTime + 1 /\ q \in 0 .. IdleTime + 1
  BY DEF StatOK
<1>2. /\ load' \in [VMs -> Stat]
      /\ hot' \in [VMs -> 0 .. OverloadTime + 1]
      /\ quiet' \in [VMs -> 0 .. IdleTime + 1]
  BY <1>1 DEF StatsOK
<1>3. ASSUME NEW w \in VMs
      PROVE  StatOK(load'[w], hot'[w], quiet'[w])
  <2>1. CASE w = v
    BY <2>1 DEF StatsOK
  <2>2. CASE w # v
    <3>1. load'[w] = load[w] /\ hot'[w] = hot[w] /\ quiet'[w] = quiet[w]
      BY <2>2 DEF StatsOK
    <3> QED BY <3>1 DEF StatsOK
  <2> QED BY <2>1, <2>2
<1> QED BY <1>2, <1>3 DEF StatsOK

LEMMA StatsKept ==
  ASSUME StatsOK, UNCHANGED <<load, hot, quiet>>
  PROVE  StatsOK'
BY DEF StatsOK

(* A sample keeps the statistics sound, and hides no overloaded second.      *)
LEMMA UpdateStats ==
  ASSUME StatsOK, NEW v \in VMs, NEW level \in Level, Update(v, level)
  PROVE  StatsOK' /\ \A w \in VMs : hot[w] > OverloadTime => hot'[w] > OverloadTime
<1>1. CASE v \notin domains
  BY <1>1, StatsKept DEF Update
<1>2. CASE v \in domains
  <2> DEFINE s == Judged(Counted(load[v], level))
             h == HotAfter(hot[v], level)
             q == QuietAfter(quiet[v], level)
  <2>1. /\ load[v] \in Stat /\ Bounded(load[v]) /\ Agree(load[v])
        /\ hot[v] \in 0 .. OverloadTime + 1 /\ quiet[v] \in 0 .. IdleTime + 1
        /\ Earned(load[v], hot[v], quiet[v])
    BY DEF StatsOK, StatOK
  <2>2. h \in 0 .. OverloadTime + 1 /\ q \in 0 .. IdleTime + 1 /\ h >= hot[v]
    BY <2>1, TimeAssumption DEF HotAfter, QuietAfter
  <2>3. s \in Stat /\ Bounded(s)
    BY <2>1, SampleType
  <2>4. Agree(s)
    BY <2>1, SampleAgrees
  <2>5. Earned(s, h, q)
    BY <2>1, SampleEarned, TimeAssumption
  <2>6. load' = [load EXCEPT ![v] = s]
    BY <1>2 DEF Update
  <2>7. hot' = [hot EXCEPT ![v] = h]
    BY <1>2 DEF Update, HotAfter
  <2>8. quiet' = [quiet EXCEPT ![v] = q]
    BY <1>2 DEF Update, QuietAfter
  <2> HIDE DEF s, h, q
  <2>9. StatOK(s, h, q)
    BY <2>2, <2>3, <2>4, <2>5 DEF StatOK
  <2>10. StatsOK'
    BY <2>6, <2>7, <2>8, <2>9, StatsReplaced
  <2>11. ASSUME NEW w \in VMs, hot[w] > OverloadTime
         PROVE  hot'[w] > OverloadTime
    <3>1. hot'[w] >= hot[w] /\ hot'[w] \in Nat /\ hot[w] \in Nat
      BY <2>1, <2>2, <2>7, TimeAssumption DEF StatsOK
    <3> QED BY <2>11, <3>1, TimeAssumption
  <2> QED BY <2>10, <2>11
<1> QED BY <1>1, <1>2

LEMMA EraseStats ==
  ASSUME StatsOK, NEW v \in VMs, Erase(v)
  PROVE  StatsOK'
BY ZeroStatOK, StatsReplaced DEF Erase

LEMMA DiscardKeeps ==
  ASSUME IInv, NEW v \in VMs, Discard(v)
  PROVE  /\ StatsOK'
         /\ power' \subseteq VMs /\ stopping' \subseteq power' /\ domains' \subseteq VMs
         /\ terminating' \in [VMs -> BOOLEAN]
<1>1. CASE v \in domains
  BY <1>1, EraseStats DEF IInv, RestOK, Discard, Erase
<1>2. CASE v \notin domains
  BY <1>2, StatsKept DEF IInv, RestOK, Discard, recordVars, guestVars
<1> QED BY <1>1, <1>2

-----------------------------------------------------------------------------
(* The invariant holds.                                                      *)

LEMMA InitInv == Init => IInv
<1> SUFFICES ASSUME Init PROVE IInv
  OBVIOUS
<1>1. load = [v \in VMs |-> ZeroStat] /\ hot = [v \in VMs |-> 0] /\ quiet = [v \in VMs |-> 0]
  BY DEF Init
<1>2. ZeroStat \in Stat
  BY ZeroStatOK DEF StatOK
<1>3. StatsOK
  BY <1>1, <1>2, ZeroStatOK, TimeAssumption DEF StatsOK
<1>4. RestOK
  <2> USE DEF Init
  <2>1. watchers \in [VMs -> Nat] /\ measuring \in [VMs -> Nat]
    OBVIOUS
  <2>2. terminating \in [VMs -> BOOLEAN] /\ util \in [VMs -> Level]
    BY DEF Level
  <2>3. /\ power \subseteq VMs /\ stopping \subseteq power /\ domains \subseteq VMs
        /\ dying \subseteq VMs /\ toVisit \subseteq VMs
    OBVIOUS
  <2>4. events \in 0 .. MaxEvents
    BY BoundAssumption
  <2> QED BY <2>1, <2>2, <2>3, <2>4 DEF RestOK
<1>5. CheckOK
  BY DEF Init, CheckOK
<1> QED BY <1>3, <1>4, <1>5 DEF IInv

(* A watch thread's step. *)
LEMMA WatchInv ==
  ASSUME IInv, NEW v \in VMs, Watch(v)
  PROVE  IInv'
<1> USE DEF IInv
<1>1. CASE CheckFlag(v)
  <2> USE <1>1 DEF CheckFlag, guestVars, recordVars, handlerVars
  <2>1. StatsOK'
    BY StatsKept
  <2>2. watchers' \in [VMs -> Nat] /\ measuring' \in [VMs -> Nat]
    BY DEF RestOK
  <2>3. RestOK'
    BY <2>2 DEF RestOK
  <2>4. CheckOK'
    BY DEF CheckOK
  <2> QED BY <2>1, <2>3, <2>4
<1>2. CASE Measure(v)
  <2>1. PICK level \in Levels : util' = [util EXCEPT ![v] = level] /\ Update(v, level)
    BY <1>2 DEF Measure
  <2>2. level \in Level
    BY BoundAssumption
  <2>3. StatsOK' /\ \A w \in VMs : hot[w] > OverloadTime => hot'[w] > OverloadTime
    BY <2>1, <2>2, UpdateStats
  <2> USE <1>2 DEF Measure, guestVars, handlerVars
  <2>4. watchers' \in [VMs -> Nat] /\ measuring' \in [VMs -> Nat]
    BY DEF RestOK
  <2>5. RestOK'
    BY <2>1, <2>2, <2>4 DEF RestOK, Update
  <2>6. CheckOK'
    BY <2>1, <2>3 DEF CheckOK, Update, RestOK
  <2> QED BY <2>3, <2>5, <2>6
<1>3. CASE MeasureOff(v)
  <2>1. Update(v, util[v]) /\ util[v] \in Level
    BY <1>3 DEF MeasureOff, RestOK
  <2>2. StatsOK' /\ \A w \in VMs : hot[w] > OverloadTime => hot'[w] > OverloadTime
    BY <2>1, UpdateStats
  <2> USE <1>3 DEF MeasureOff, guestVars, handlerVars
  <2>3. measuring' \in [VMs -> Nat]
    BY DEF RestOK
  <2>4. RestOK'
    BY <2>1, <2>3 DEF RestOK, Update
  <2>5. CheckOK'
    BY <2>1, <2>2 DEF CheckOK, Update, RestOK
  <2> QED BY <2>2, <2>4, <2>5
<1> QED BY <1>1, <1>2, <1>3 DEF Watch

(* A step of the load handler. *)
LEMMA HandlerInv ==
  ASSUME IInv, Handler
  PROVE  IInv'
<1> USE DEF IInv, guestVars, recordVars, watchVars
<1>1. CASE Wake
  BY <1>1, StatsKept DEF Wake, RestOK, CheckOK
<1>2. ASSUME NEW v \in VMs, Visit(v)
      PROVE  IInv'
  <2>1. StatOK(load[v], hot[v], quiet[v])
    BY DEF StatsOK
  <2>2. load[v].isOverloaded => hot[v] > OverloadTime
    BY <2>1 DEF StatOK, Earned
  <2> USE <1>2 DEF Visit
  <2>3. overloadedServer' => overloadedServer /\ load[v].isOverloaded
    OBVIOUS
  <2>4. overloadedServer' \in BOOLEAN
    OBVIOUS
  <2>5. RestOK'
    BY <2>4 DEF RestOK
  <2>6. CheckOK'
    BY <2>2, <2>3 DEF CheckOK
  <2> QED BY <2>5, <2>6, StatsKept
<1>3. ASSUME NEW v \in VMs, StartNewVm(v)
      PROVE  IInv'
  BY <1>3, StatsKept, VMsAssumption DEF StartNewVm, Insert, RestOK, CheckOK
<1>4. CASE ShutdownDue
  BY <1>4, StatsKept DEF ShutdownDue, RestOK, CheckOK
<1>5. CASE BackToSleep
  BY <1>5, StatsKept DEF BackToSleep, RestOK, CheckOK
<1>6. ASSUME NEW v \in VMs, ResetStat(v)
      PROVE  IInv'
  <2>1. StatsOK'
    BY <1>6, ZeroStatOK, StatsReplaced DEF ResetStat
  <2>2. RestOK' /\ CheckOK'
    BY <1>6 DEF ResetStat, RestOK, CheckOK
  <2> QED BY <2>1, <2>2
<1>7. CASE PowerOnNew
  <2> USE <1>7 DEF PowerOnNew
  <2>1. StatsOK'
    BY StatsKept
  <2>2. watchers' \in [VMs -> Nat] /\ terminating' \in [VMs -> BOOLEAN]
    <3>1. CASE newVm \in domains
      <4>1. watchers' = [watchers EXCEPT ![newVm] = watchers[newVm] + 1]
        BY <3>1 DEF StartWatching
      <4>2. terminating' = [terminating EXCEPT ![newVm] = FALSE]
        BY <3>1
      <4> QED BY <4>1, <4>2, <3>1 DEF RestOK
    <3>2. CASE newVm \notin domains
      BY <3>2 DEF RestOK
    <3> QED BY <3>1, <3>2
  <2>3. RestOK'
    BY <2>2 DEF RestOK
  <2>4. CheckOK'
    BY DEF CheckOK
  <2> QED BY <2>1, <2>3, <2>4
<1>8. CASE ShutdownIdle
  BY <1>8, StatsKept DEF ShutdownIdle, RestOK, CheckOK
<1>9. CASE CloseIdle
  <2>1. toShutdown \in VMs
    BY <1>9 DEF CloseIdle, CheckOK
  <2>2. /\ StatsOK'
        /\ power' \subseteq VMs /\ stopping' \subseteq power' /\ domains' \subseteq VMs
        /\ terminating' \in [VMs -> BOOLEAN]
    BY <1>9, <2>1, DiscardKeeps DEF CloseIdle
  <2>3. RestOK' /\ CheckOK'
    BY <1>9, <2>2 DEF CloseIdle, RestOK, CheckOK
  <2> QED BY <2>2, <2>3
<1> QED
  BY <1>1, <1>2, <1>3, <1>4, <1>5, <1>6, <1>7, <1>8, <1>9 DEF Handler

(* A step of a thread that leaves the handler alone. *)
LEMMA OthersInv ==
  ASSUME IInv, NEW v \in VMs,
         Others(v) \/ Sanitize(v) \/ Close(v) \/ GuestObeys(v)
  PROVE  IInv'
<1> USE DEF IInv, guestVars, recordVars, watchVars, handlerVars
<1>1. CASE UserStart(v)
  <2> USE <1>1 DEF UserStart
  <2>1. StatsOK'
    BY StatsKept
  <2>2. /\ watchers' \in [VMs -> Nat] /\ terminating' \in [VMs -> BOOLEAN]
        /\ power' \subseteq VMs /\ stopping' \subseteq power'
    <3>1. CASE v \in power
      <4>1. terminating' = [terminating EXCEPT ![v] = IF v \in domains THEN @ ELSE TRUE]
        BY <3>1 DEF Insert
      <4>2. UNCHANGED <<power, watchers>>
        BY <3>1
      <4> QED BY <4>1, <4>2 DEF RestOK
    <3>2. CASE v \notin power
      <4>1. watchers' = [watchers EXCEPT ![v] = watchers[v] + 1]
        BY <3>2 DEF StartWatching
      <4>2. terminating' = [terminating EXCEPT ![v] = FALSE] /\ power' = power \cup {v}
        BY <3>2
      <4> QED BY <4>1, <4>2 DEF RestOK
    <3> QED BY <3>1, <3>2
  <2>3. domains' = domains \cup {v}
    BY DEF Insert
  <2>4. events' \in 0 .. MaxEvents
    BY BoundAssumption DEF RestOK
  <2>5. RestOK'
    BY <2>2, <2>3, <2>4 DEF RestOK
  <2>6. CheckOK'
    BY DEF CheckOK, MapsQuiet
  <2> QED BY <2>1, <2>5, <2>6
<1>2. CASE UserShutdown(v)
  BY <1>2, StatsKept, BoundAssumption DEF UserShutdown, RestOK, CheckOK
<1>3. CASE GuestOff(v)
  BY <1>3, StatsKept, BoundAssumption DEF GuestOff, Off, RestOK, CheckOK
<1>4. CASE Sanitize(v)
  BY <1>4, StatsKept DEF Sanitize, RestOK, CheckOK
<1>5. CASE Close(v)
  <2>1. /\ StatsOK'
        /\ power' \subseteq VMs /\ stopping' \subseteq power' /\ domains' \subseteq VMs
        /\ terminating' \in [VMs -> BOOLEAN]
    BY <1>5, DiscardKeeps DEF Close
  <2>2. RestOK' /\ CheckOK'
    BY <1>5, <2>1 DEF Close, MapsQuiet, RestOK, CheckOK
  <2> QED BY <2>1, <2>2
<1>6. CASE GuestObeys(v)
  BY <1>6, StatsKept DEF GuestObeys, Off, RestOK, CheckOK
<1> QED BY <1>1, <1>2, <1>3, <1>4, <1>5, <1>6 DEF Others

LEMMA StepInv == IInv /\ [Next]_vars => IInv'
<1> SUFFICES ASSUME IInv, [Next]_vars PROVE IInv'
  OBVIOUS
<1>1. CASE Next
  BY <1>1, WatchInv, HandlerInv, OthersInv DEF Next
<1>2. CASE UNCHANGED vars
  BY <1>2, StatsKept DEF IInv, RestOK, CheckOK, vars, guestVars, recordVars, watchVars,
                         handlerVars
<1> QED BY <1>1, <1>2

LEMMA InvHolds == Spec => []IInv
BY InitInv, StepInv, PTL DEF Spec

-----------------------------------------------------------------------------
(* The properties.                                                           *)

(* The maps, the flags and the counters of the manager keep their types, and *)
(* no counter passes its threshold (Manager.cpp:349-373).                    *)
THEOREM TypeCorrect == Spec => []TypeOK
<1>1. IInv => TypeOK
  BY DEF IInv, StatsOK, RestOK, StatOK, TypeOK
<1> QED BY <1>1, InvHolds, PTL

(* The verdicts on a machine never contradict each other or the counters     *)
(* (Manager.cpp:327-373).                                                    *)
THEOREM FlagsNeverDisagree == Spec => []FlagsAgree
<1>1. IInv => FlagsAgree
  BY DEF IInv, StatsOK, StatOK, FlagsAgree
<1> QED BY <1>1, InvHolds, PTL

(* No machine is chosen to be shut down that has not been idle for long      *)
(* enough since the last decision (Manager.cpp:37-51, 80-96).                *)
THEOREM IdleShutdownIsEarned == Spec => IdleIsEarned
<1>1. ASSUME IInv, [Next]_vars, toShutdown' \notin {None, toShutdown}
      PROVE  quiet[toShutdown'] > IdleTime
  <2>1. PICK v \in VMs : Visit(v)
    BY <1>1 DEF Next, Handler, Watch, Others, Wake, ShutdownDue, BackToSleep, PowerOnNew,
                ShutdownIdle, CloseIdle, StartNewVm, ResetStat, CheckFlag, Measure, MeasureOff,
                UserStart, UserShutdown, GuestOff, Sanitize, Close, GuestObeys, vars,
                handlerVars
  <2>2. toShutdown' = v /\ load[v].canPowerOff
    BY <1>1, <2>1 DEF Visit
  <2>3. StatOK(load[v], hot[v], quiet[v])
    BY <1>1 DEF IInv, StatsOK
  <2> QED BY <2>2, <2>3 DEF StatOK, Earned
<1> QED BY <1>1, InvHolds, PTL DEF Spec, IdleIsEarned

(* No machine is started while one with a record has not been overloaded for *)
(* long enough since the last decision (Manager.cpp:37-72).                  *)
THEOREM NewMachineIsEarned == Spec => OverloadIsEarned
<1>1. ASSUME IInv, [Next]_vars, newVm = None, newVm' # None
      PROVE  \A v \in domains : hot[v] > OverloadTime
  <2>1. PICK v \in VMs : StartNewVm(v)
    BY <1>1 DEF Next, Handler, Watch, Others, Wake, ShutdownDue, BackToSleep, PowerOnNew,
                ShutdownIdle, CloseIdle, Visit, ResetStat, CheckFlag, Measure, MeasureOff,
                UserStart, UserShutdown, GuestOff, Sanitize, Close, GuestObeys, vars,
                handlerVars
  <2> QED BY <1>1, <2>1 DEF StartNewVm, IInv, CheckOK
<1> QED BY <1>1, InvHolds, PTL DEF Spec, OverloadIsEarned
=============================================================================
