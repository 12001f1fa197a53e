--------------------------- MODULE WaitReadyProofs ---------------------------
(***************************************************************************)
(* Proofs about WaitReady, for any timeout, pause, nap and probe time: how *)
(* far each loop can overrun its timeout, how soon redis notices a death,  *)
(* that the double check is fooled only by a temporary server that lives   *)
(* through the whole pause, and that each loop implements the readiness contract.   *)
(***************************************************************************)
EXTENDS WaitReady, TLAPS

(* What each place of the loop still has to spend.                         *)
Clock ==
  /\ pc \in {"top", "done"} => wait = 0
  /\ pc = "top"    => now < Timeout + Overrun
  /\ pc = "probe"  => now + wait < Timeout + ProbeTime
  /\ pc = "inspect" => now + wait < Timeout + ProbeTime + ProbeTime
  /\ pc = "nap"    => now + wait < Timeout + Overrun
  /\ pc = "pause"  => now + wait < Timeout + ProbeTime + Pause
  /\ pc = "second" => now + wait < Timeout + Overrun
  /\ pc = "done"   => now < Timeout + Overrun

(* Which loop goes where, and what its image can run.                      *)
Places ==
  /\ pc \in {"pause", "second"} => loop = "docker"
  /\ pc = "inspect" => loop = "redis"
  /\ server \in {"temporary", "restarting"} => loop = "docker"
  /\ server = "loading" => loop = "redis"

(* A server that answers all the probes is found at the next one: a nap,   *)
(* and for redis an inspection, is all that its absence at one can cost.   *)
Good == server = "real" /\ ~flaky /\ ~ctxDone

Fair ==
  /\ pc = "nap" => wait <= Nap[loop]
  /\ pc \in {"probe", "inspect"} => wait <= ProbeTime
  /\ pc = "inspect" /\ Good => age + wait <= ProbeTime
  /\ pc = "nap" /\ Good => age + wait <= Grace
  /\ pc = "top" /\ Good => age <= Grace
  /\ pc \in {"top", "done"} => wait = 0
  /\ pc # "done" => result = "none"
  /\ TimeoutIsFair

(* How long a dead redis has been dead at each place of its loop.          *)
Mourned ==
  loop = "redis" /\ server = "dead" =>
    /\ pc = "nap"     => age + wait <= Nap[loop]
    /\ pc = "top"     => age <= Nap[loop]
    /\ pc = "probe"   => age + wait <= Nap[loop] + ProbeTime
    /\ pc = "inspect" => age + wait <= Nap[loop] + ProbeTime + ProbeTime

(* A temporary server seen by the first probe is as old as the pause is    *)
(* long when the second probe comes.                                       *)
Twice ==
  /\ pc \in {"pause", "second"} => server # "booting"
  /\ pc = "pause" /\ server = "temporary" => age + wait >= Pause
  /\ pc = "second" /\ server = "temporary" => age >= Pause
  /\ result # "none" => pc = "done"

(* What the assumption says of the loop at hand.                           *)
LEMMA LoopFacts ==
  ASSUME loop \in Loops
  PROVE  /\ loop \in {"docker", "mongo", "redis"}
         /\ Nap[loop] \in Nat \ {0}
         /\ Timeout \in Nat \ {0} /\ Pause \in Nat \ {0}
         /\ ProbeTime \in Nat
  BY WaitReadyAssumption

(* The time between two looks at the deadline, loop by loop.               *)
LEMMA OverrunFits ==
  ASSUME loop \in Loops
  PROVE  /\ Overrun \in Nat \ {0}
         /\ Overrun > ProbeTime
         /\ loop = "docker" => Overrun = ProbeTime + Pause + ProbeTime
         /\ loop = "mongo" => Overrun = ProbeTime + Nap[loop]
         /\ loop = "redis" => Overrun = ProbeTime + ProbeTime + Nap[loop]
<1>1. CASE loop = "docker"
  <2>1. Overrun = ProbeTime + Pause + ProbeTime
    BY <1>1 DEF Overrun
  <2>2. QED
    BY <1>1, <2>1, LoopFacts
<1>2. CASE loop = "mongo"
  <2>1. Overrun = ProbeTime + Nap[loop]
    BY <1>2 DEF Overrun
  <2>2. QED
    BY <1>2, <2>1, LoopFacts
<1>3. CASE loop = "redis"
  <2>1. Overrun = ProbeTime + ProbeTime + Nap[loop]
    BY <1>3 DEF Overrun
  <2>2. QED
    BY <1>3, <2>1, LoopFacts
<1>4. QED
  BY <1>1, <1>2, <1>3, LoopFacts

(* A nap is never negative and never longer than Nap; DockerHost's ends    *)
(* with the time that is left.                                             *)
LEMMA NapTimeFits ==
  ASSUME now \in Nat, loop \in Loops
  PROVE  /\ NapTime \in 0 .. Nap[loop]
         /\ NapTime > 0 /\ loop = "docker" => now + NapTime <= Timeout
  BY LoopFacts DEF NapTime

(* Every variable keeps its type.                                          *)
LEMMA TypeStep == TypeOK /\ [Next]_vars => TypeOK'
<1> SUFFICES ASSUME TypeOK, [Next]_vars PROVE TypeOK'
  OBVIOUS
<1>0. /\ Timeout \in Nat /\ Pause \in Nat /\ Nap[loop] \in Nat /\ ProbeTime \in Nat
      /\ loop \in Loops /\ now \in Nat /\ NapTime \in Nat
  BY LoopFacts, NapTimeFits DEF TypeOK
<1>1. CASE Top
  BY <1>0, <1>1 DEF TypeOK, Top, Goes, Return
<1>2. CASE FirstProbe
  BY <1>0, <1>2 DEF TypeOK, FirstProbe, ProbeFailed, Goes, Return
<1>3. CASE SecondProbe
  BY <1>3 DEF TypeOK, SecondProbe, Goes, Return
<1>4. CASE SleepEnds
  BY <1>0, <1>4 DEF TypeOK, SleepEnds, Goes, Return
<1>5. CASE Inspect
  BY <1>0, <1>5 DEF TypeOK, Inspect, Goes, Return
<1>6. CASE Tick
  BY <1>6 DEF TypeOK, Tick
<1>7. CASE ServerMoves
  BY <1>7 DEF TypeOK, ServerMoves
<1>8. CASE Cancel
  BY <1>8 DEF TypeOK, Cancel
<1>9. CASE UNCHANGED vars
  BY <1>9 DEF TypeOK, vars
<1>10. QED
  BY <1>1, <1>2, <1>3, <1>4, <1>5, <1>6, <1>7, <1>8, <1>9 DEF Next, Step

(* Each loop keeps to its places.                                          *)
LEMMA PlacesStep == TypeOK /\ Places /\ [Next]_vars => Places'
<1> SUFFICES ASSUME TypeOK, Places, [Next]_vars PROVE Places'
  OBVIOUS
<1>1. CASE Top
  BY <1>1 DEF Places, Top, Goes, Return
<1>2. CASE FirstProbe
  BY <1>2 DEF Places, FirstProbe, ProbeFailed, Goes, Return
<1>3. CASE SecondProbe
  BY <1>3 DEF Places, SecondProbe, Goes, Return
<1>4. CASE SleepEnds
  BY <1>4 DEF Places, SleepEnds, Goes, Return
<1>5. CASE Inspect
  BY <1>5 DEF Places, Inspect, Goes, Return
<1>6. CASE Tick
  BY <1>6 DEF Places, Tick
<1>7. CASE ServerMoves
  BY <1>7 DEF Places, ServerMoves
<1>8. CASE Cancel
  BY <1>8 DEF Places, Cancel
<1>9. CASE UNCHANGED vars
  BY <1>9 DEF Places, vars
<1>10. QED
  BY <1>1, <1>2, <1>3, <1>4, <1>5, <1>6, <1>7, <1>8, <1>9 DEF Next, Step

(* No step changes which loop it is, nor what it may overrun.              *)
LEMMA LoopStays ==
  ASSUME [Next]_vars
  PROVE  loop' = loop /\ Overrun' = Overrun /\ Grace' = Grace
<1>1. loop' = loop
  BY DEF Next, Step, Top, FirstProbe, SecondProbe, Inspect, SleepEnds, Tick,
         ServerMoves, Cancel, vars
<1>2. QED
  BY <1>1 DEF Overrun, Grace

(* The deadline is looked at before each first probe.                      *)
LEMMA ClockStep == TypeOK /\ Places /\ Clock /\ [Next]_vars => Clock'
<1> SUFFICES ASSUME TypeOK, Places, Clock, [Next]_vars PROVE Clock'
  OBVIOUS
<1> DEFINE n == Nap[loop]  o == Overrun
<1>0. /\ Timeout \in Nat /\ Pause \in Nat \ {0} /\ n \in Nat /\ ProbeTime \in Nat
      /\ now \in Nat /\ wait \in Nat /\ o \in Nat \ {0} /\ Overrun' = o
      /\ loop \in {"docker", "mongo", "redis"} /\ loop' = loop
      /\ o > ProbeTime
      /\ loop = "docker" => o = ProbeTime + Pause + ProbeTime
      /\ loop = "mongo" => o = ProbeTime + n
      /\ loop = "redis" => o = ProbeTime + ProbeTime + n
      /\ NapTime \in 0 .. n
      /\ NapTime > 0 /\ loop = "docker" => now + NapTime <= Timeout
  BY LoopFacts, OverrunFits, LoopStays, NapTimeFits DEF TypeOK
<1> HIDE DEF n, o
<1>1. CASE Top
  BY <1>0, <1>1 DEF Clock, Top, Goes, Return, o
<1>2. CASE FirstProbe
  BY <1>0, <1>2 DEF Clock, FirstProbe, ProbeFailed, Goes, Return, o
<1>3. CASE SecondProbe
  BY <1>0, <1>3 DEF Clock, SecondProbe, Goes, Return, o
<1>4. CASE SleepEnds
  BY <1>0, <1>4 DEF Clock, Places, SleepEnds, Goes, Return, o
<1>5. CASE Inspect
  BY <1>0, <1>5 DEF Clock, Places, Inspect, Goes, Return, o
<1>6. CASE Tick
  BY <1>0, <1>6 DEF Clock, Tick, o
<1>7. CASE ServerMoves
  BY <1>0, <1>7 DEF Clock, ServerMoves, o
<1>8. CASE Cancel
  BY <1>0, <1>8 DEF Clock, Cancel, o
<1>9. CASE UNCHANGED vars
  BY <1>0, <1>9 DEF Clock, vars, o
<1>10. QED
  BY <1>1, <1>2, <1>3, <1>4, <1>5, <1>6, <1>7, <1>8, <1>9 DEF Next, Step

(* The pause ages a temporary server.                                      *)
LEMMA TwiceStep == TypeOK /\ Twice /\ [Next]_vars => Twice'
<1> SUFFICES ASSUME TypeOK, Twice, [Next]_vars PROVE Twice'
  OBVIOUS
<1>0. /\ Pause \in Nat
      /\ age \in Nat /\ wait \in Nat
  BY WaitReadyAssumption DEF TypeOK
<1>1. CASE Top
  BY <1>1 DEF Twice, Top, Goes, Return
<1>2. CASE FirstProbe
  BY <1>0, <1>2 DEF Twice, FirstProbe, ProbeFailed, Goes, Return, Answers
<1>3. CASE SecondProbe
  BY <1>3 DEF Twice, SecondProbe, Goes, Return
<1>4. CASE SleepEnds
  BY <1>0, <1>4 DEF Twice, SleepEnds, Goes, Return
<1>5. CASE Inspect
  BY <1>5 DEF Twice, Inspect, Goes, Return
<1>6. CASE Tick
  BY <1>0, <1>6 DEF Twice, Tick
<1>7. CASE ServerMoves
  BY <1>0, <1>7 DEF Twice, ServerMoves
<1>8. CASE Cancel
  BY <1>8 DEF Twice, Cancel
<1>9. CASE UNCHANGED vars
  BY <1>9 DEF Twice, vars
<1>10. QED
  BY <1>1, <1>2, <1>3, <1>4, <1>5, <1>6, <1>7, <1>8, <1>9 DEF Next, Step

(* A nap begins with a probe that failed, so with a server that is younger.*)
LEMMA FairStep == TypeOK /\ Places /\ Fair /\ [Next]_vars => Fair'
<1> SUFFICES ASSUME TypeOK, Places, Fair, [Next]_vars PROVE Fair'
  OBVIOUS
<1> DEFINE n == Nap[loop]  g == Grace
<1>0. /\ n \in Nat /\ ProbeTime \in Nat /\ now \in Nat /\ age \in Nat
      /\ wait \in Nat /\ wait' \in Nat
      /\ loop' = loop /\ g \in Nat /\ Grace' = g /\ Nap[loop'] = n
      /\ (loop # "redis" => g = n) /\ (loop = "redis" => g = n + ProbeTime)
      /\ NapTime \in 0 .. n
      /\ ctxDone \in BOOLEAN /\ flaky \in BOOLEAN
  BY TypeStep, LoopFacts, LoopStays, NapTimeFits DEF TypeOK, Grace
<1> HIDE DEF n, g
<1>1. CASE Top
  <2>1. UNCHANGED <<loop, now, ctxDone, server, age, flaky>> /\ pc = "top"
    BY <1>1 DEF Top, Goes, Return
  <2>2. CASE pc' = "probe" /\ wait' \in 0 .. ProbeTime /\ UNCHANGED result
    BY <1>0, <2>1, <2>2 DEF Fair, TimeoutIsFair
  <2>3. CASE Return("top", "timeout")
    <3>1. Good => age <= g
      BY <2>1 DEF Fair, g
    <3>2. TimeoutIsFair'
      BY <1>0, <2>1, <3>1 DEF TimeoutIsFair, Good
    <3>3. QED
      BY <2>3, <3>2 DEF Fair, Return
  <2>4. QED
    BY <1>1, <2>2, <2>3 DEF Top, Goes
<1>2. CASE FirstProbe
  <2>1. UNCHANGED <<loop, now, ctxDone, server, age, flaky>> /\ pc = "probe"
    BY <1>2 DEF FirstProbe, ProbeFailed, Goes, Return
  <2>2. CASE pc' = "pause" /\ UNCHANGED result
    BY <2>1, <2>2 DEF Fair, TimeoutIsFair
  <2>3. CASE Return("probe", "ready")
    BY <1>0, <2>1, <2>3 DEF Fair, TimeoutIsFair, Return
  <2>4. CASE ProbeFailed /\ (flaky \/ ~Answers) /\ UNCHANGED result
    <3>1. ~Good' /\ ~Good
      BY <2>1, <2>4 DEF Answers, Good
    <3>2. pc' \in {"nap", "inspect"}
      BY <2>4 DEF ProbeFailed, Goes
    <3>3. /\ pc' = "nap" => wait' <= n
          /\ pc' = "inspect" => wait' <= ProbeTime
      BY <1>0, <2>4 DEF ProbeFailed, Goes
    <3>4. QED
      BY <1>0, <2>1, <2>4, <3>1, <3>2, <3>3 DEF Fair, TimeoutIsFair, n
  <2>5. QED
    BY <1>2, <2>2, <2>3, <2>4 DEF FirstProbe, Goes
<1>3. CASE SecondProbe
  <2>1. loop = "docker" /\ pc = "second"
    BY <1>3 DEF SecondProbe, Places, Goes, Return
  <2>2. QED
    BY <1>0, <1>3, <2>1 DEF Fair, Good, TimeoutIsFair, SecondProbe, Goes, Return, Answers, n, g
<1>4. CASE SleepEnds
  <2>1. UNCHANGED <<loop, now, ctxDone, server, age, flaky>>
    BY <1>4 DEF SleepEnds
  <2>2. CASE pc' = "second" /\ UNCHANGED result /\ pc = "pause"
    BY <2>1, <2>2 DEF Fair, TimeoutIsFair
  <2>3. CASE pc = "nap" /\ pc' = "top" /\ wait = 0 /\ UNCHANGED <<wait, result>>
    BY <1>0, <2>1, <2>3 DEF Fair, Good, TimeoutIsFair, g
  <2>4. CASE pc' = "done" /\ result' = "cancelled" /\ wait' = 0
    BY <2>4 DEF Fair, TimeoutIsFair
  <2>5. QED
    BY <1>4, <2>2, <2>3, <2>4 DEF SleepEnds, Goes, Return
<1>5. CASE Inspect
  <2>1. UNCHANGED <<loop, now, ctxDone, server, age, flaky>> /\ pc = "inspect" /\ wait = 0
    BY <1>5 DEF Inspect, Goes, Return
  <2>2. loop = "redis"
    BY <2>1 DEF Places
  <2>3. CASE pc' = "nap" /\ wait' = NapTime /\ UNCHANGED result
    BY <1>0, <2>1, <2>2, <2>3 DEF Fair, Good, TimeoutIsFair, n, g
  <2>4. CASE Return("inspect", "died")
    BY <2>4 DEF Fair, TimeoutIsFair, Return
  <2>5. QED
    BY <1>5, <2>3, <2>4 DEF Inspect, Goes
<1>6. CASE Tick
  BY <1>0, <1>6 DEF Fair, Good, TimeoutIsFair, Tick, n, g
<1>7. CASE ServerMoves
  BY <1>0, <1>7 DEF Fair, Good, TimeoutIsFair, ServerMoves, n, g
<1>8. CASE Cancel
  BY <1>0, <1>8 DEF Fair, Good, TimeoutIsFair, Cancel, n, g
<1>9. CASE UNCHANGED vars
  BY <1>0, <1>9 DEF Fair, Good, TimeoutIsFair, vars, n, g
<1>10. QED
  BY <1>1, <1>2, <1>3, <1>4, <1>5, <1>6, <1>7, <1>8, <1>9 DEF Next, Step

(* A dead redis passes each place of the loop once: the inspection ends it.*)
LEMMA MournedStep == TypeOK /\ Places /\ Fair /\ Mourned /\ [Next]_vars => Mourned'
<1> SUFFICES ASSUME TypeOK, Places, Fair, Mourned, [Next]_vars,
                    loop' = "redis", server' = "dead"
             PROVE  Mourned'
  BY DEF Mourned
<1> DEFINE n == Nap[loop]
<1>0. /\ n \in Nat /\ ProbeTime \in Nat /\ age \in Nat /\ wait \in Nat
      /\ wait' \in Nat /\ loop = "redis" /\ loop' = loop /\ NapTime \in 0 .. n
  BY TypeStep, LoopFacts, LoopStays, NapTimeFits DEF TypeOK
<1>00. pc = "top" => wait = 0
  BY DEF Fair
<1> HIDE DEF n
<1>1. CASE Top
  BY <1>0, <1>1 DEF Mourned, Top, Goes, Return, n
<1>2. CASE FirstProbe
  <2>1. UNCHANGED <<loop, server, age>> /\ pc = "probe" /\ wait = 0
    BY <1>2 DEF FirstProbe, ProbeFailed, Goes, Return
  <2>2. pc' = "inspect" /\ wait' \in 0 .. ProbeTime
    BY <1>0, <1>2, <2>1 DEF FirstProbe, ProbeFailed, Goes, Return, Answers
  <2>3. QED
    BY <1>0, <2>1, <2>2 DEF Mourned, n
<1>3. CASE SecondProbe
  BY <1>0, <1>3 DEF Places, SecondProbe, Goes, Return
<1>4. CASE SleepEnds
  BY <1>0, <1>4 DEF Mourned, Places, SleepEnds, Goes, Return, n
<1>5. CASE Inspect
  <2>1. pc' = "done"
    BY <1>5 DEF Inspect, Goes, Return
  <2>2. QED
    BY <2>1 DEF Mourned
<1>6. CASE Tick
  BY <1>0, <1>00, <1>6 DEF Mourned, Tick, n
<1>7. CASE ServerMoves
  BY <1>0, <1>00, <1>7 DEF Mourned, Fair, ServerMoves, n
<1>8. CASE Cancel
  BY <1>0, <1>8 DEF Mourned, Cancel, n
<1>9. CASE UNCHANGED vars
  BY <1>0, <1>9 DEF Mourned, vars, n
<1>10. QED
  BY <1>1, <1>2, <1>3, <1>4, <1>5, <1>6, <1>7, <1>8, <1>9 DEF Next, Step

IndInv == TypeOK /\ Places /\ Clock /\ Twice /\ Fair /\ Mourned

(* The invariant of every reachable state.                                 *)
THEOREM InvHolds == Spec => []IndInv
<1>1. ASSUME Init PROVE IndInv
  <2>1. TypeOK
    BY <1>1 DEF Init, TypeOK
  <2>2. Clock
    <3>1. Overrun \in Nat \ {0} /\ Timeout \in Nat
      BY <1>1, OverrunFits, LoopFacts DEF Init
    <3>2. 0 < Timeout + Overrun
      BY <3>1
    <3>3. QED
      BY <1>1, <3>2 DEF Init, Clock
  <2>3. Twice /\ Places /\ Mourned
    BY <1>1 DEF Init, Twice, Places, Mourned
  <2>4. Fair
    BY <1>1 DEF Init, Fair, Good, TimeoutIsFair
  <2>5. QED
    BY <2>1, <2>2, <2>3, <2>4 DEF IndInv
<1>2. IndInv /\ [Next]_vars => IndInv'
  BY TypeStep, PlacesStep, ClockStep, TwiceStep, FairStep, MournedStep DEF IndInv
<1>3. QED
  BY <1>1, <1>2, PTL DEF Spec

(* The sleeps of WaitReady are never negative, whatever time it is.        *)
THEOREM TypeCorrect == Spec => []TypeOK
<1>1. IndInv => TypeOK
  BY DEF IndInv
<1>2. QED
  BY <1>1, InvHolds, PTL

(* The timeout is exceeded by less than what lies between two looks at it: *)
(* two probes and a pause for DockerHost, a ping and a nap for mongo, a    *)
(* PING, an inspection and a nap for redis.                                *)
THEOREM BoundedOverrun == Spec => []TimeoutIsKept
<1>1. IndInv => TimeoutIsKept
  <2> SUFFICES ASSUME IndInv PROVE now < Timeout + Overrun
    BY DEF TimeoutIsKept
  <2> DEFINE o == Overrun
  <2>1. /\ o \in Nat /\ o > ProbeTime /\ now \in Nat /\ wait \in Nat
        /\ Timeout \in Nat /\ ProbeTime \in Nat /\ Pause \in Nat
        /\ loop = "docker" => o = ProbeTime + Pause + ProbeTime
        /\ loop = "redis" => o > ProbeTime + ProbeTime
    BY OverrunFits, LoopFacts DEF IndInv, TypeOK
  <2> HIDE DEF o
  <2>2. now < Timeout + o
    BY <2>1 DEF IndInv, TypeOK, Places, Clock, o
  <2>3. QED
    BY <2>2 DEF o
<1>2. QED
  BY <1>1, InvHolds, PTL

(* Every timeout is earned: with the server up and answering, and no       *)
(* Ctrl+C, a loop gives up only a server that came up since its last probe.*)
THEOREM EarnedTimeout == Spec => []TimeoutIsFair
<1>1. IndInv => TimeoutIsFair
  BY DEF IndInv, Fair
<1>2. QED
  BY <1>1, InvHolds, PTL

(* redis.go:324-327 for any nap and probe time: a redis that died is still *)
(* waited for no longer than a nap, a PING and an inspection.              *)
THEOREM DeathSeen == Spec => []DeathIsNoticed
<1>1. IndInv => DeathIsNoticed
  <2> SUFFICES ASSUME IndInv, loop = "redis", server = "dead", pc # "done"
               PROVE  age <= Nap[loop] + ProbeTime + ProbeTime
    BY DEF DeathIsNoticed
  <2> DEFINE n == Nap[loop]
  <2>1. n \in Nat /\ ProbeTime \in Nat /\ age \in Nat /\ wait \in Nat
    BY LoopFacts DEF IndInv, TypeOK
  <2> HIDE DEF n
  <2>2. pc \in {"top", "probe", "inspect", "nap"}
    BY DEF IndInv, TypeOK, Places
  <2>3. age <= n + ProbeTime + ProbeTime
    BY <2>1, <2>2 DEF IndInv, Mourned, n
  <2>4. QED
    BY <2>3 DEF n
<1>2. QED
  BY <1>1, InvHolds, PTL

(* The double check of dockerhost.go:208-216, for a temporary server of    *)
(* any life: ready is the real server, or a temporary one that was already *)
(* there at the first probe and is at least as old as the pause is long.   *)
THEOREM DoubleCheck == Spec => []ReadyOutlivesPause
<1>1. Init => ReadyOutlivesPause
  BY DEF Init, ReadyOutlivesPause
<1>2. IndInv /\ ReadyOutlivesPause /\ [Next]_vars => ReadyOutlivesPause'
  <2> SUFFICES ASSUME IndInv, ReadyOutlivesPause, [Next]_vars,
                      result' = "ready", loop' # "redis"
               PROVE  server' = "real" \/ (server' = "temporary" /\ loop' = "docker" /\ age' >= Pause)
    BY DEF ReadyOutlivesPause
  <2>0. loop # "redis" /\ loop' = loop
    BY LoopStays
  <2>1. CASE result = "ready"
    <3>1. pc = "done" /\ wait = 0
      BY <2>1 DEF IndInv, Clock, Twice
    <3>2. server' = server /\ age' = age
      BY <3>1 DEF Next, Step, Top, FirstProbe, SecondProbe, Inspect, SleepEnds,
                  Tick, ServerMoves, Cancel, vars, Goes, Return
    <3>3. QED
      BY <2>0, <2>1, <3>2 DEF ReadyOutlivesPause
  <2>2. CASE result # "ready"
    <3>1. /\ Answers /\ server' = server /\ age' = age
          /\ pc = "second" \/ (pc = "probe" /\ loop # "docker")
      BY <2>2 DEF Next, Step, Top, FirstProbe, SecondProbe, Inspect, SleepEnds,
                  Tick, ServerMoves, Cancel, vars, Goes, Return
    <3>2. server = "temporary" => loop = "docker" /\ pc = "second" /\ age >= Pause
      BY <3>1 DEF IndInv, Places, Twice
    <3>3. server # "loading"
      BY <2>0 DEF IndInv, Places
    <3>4. QED
      BY <2>0, <3>1, <3>2, <3>3 DEF Answers
  <2>3. QED
    BY <2>1, <2>2
<1>3. QED
  BY <1>1, <1>2, InvHolds, PTL DEF Spec

(* Each of the three loops implements the contract of readiness: its       *)
(* internal steps are stutters or the passing of time, and each return is  *)
(* an outcome with its cause.                                              *)
THEOREM Refinement == Spec => ImplementsReady
<1>1. Init => Contract!Init
  BY DEF Init, Contract!Init
<1>2. IndInv /\ [Next]_vars => [Contract!Next]_(Contract!vars)
  <2> SUFFICES ASSUME IndInv, [Next]_vars PROVE [Contract!Next]_(Contract!vars)
    OBVIOUS
  <2>0. /\ now \in Nat /\ (pc # "done" => result = "none")
        /\ (pc = "done" => wait = 0)
    BY DEF IndInv, TypeOK, Fair
  <2>1. CASE Top
    BY <2>0, <2>1 DEF Top, Goes, Return, Contract!Next, Contract!Conclude,
                      Contract!GiveUp, Contract!vars
  <2>2. CASE FirstProbe
    BY <2>0, <2>2 DEF FirstProbe, ProbeFailed, Goes, Return, Answers, Contract!Next,
                      Contract!Conclude, Contract!Ready, Contract!vars
  <2>3. CASE SecondProbe
    BY <2>0, <2>3 DEF SecondProbe, Goes, Return, Answers, Contract!Next,
                      Contract!Conclude, Contract!Ready, Contract!vars
  <2>4. CASE Inspect
    BY <2>0, <2>4 DEF Inspect, Goes, Return, Contract!Next, Contract!Conclude,
                      Contract!Bury, Contract!vars
  <2>5. CASE SleepEnds
    BY <2>0, <2>5 DEF SleepEnds, Goes, Return, Contract!Next, Contract!Conclude,
                      Contract!GiveIn, Contract!vars
  <2>6. CASE Tick
    BY <2>0, <2>6 DEF Tick, Contract!Next, Contract!World
  <2>7. CASE ServerMoves
    BY <2>0, <2>7 DEF ServerMoves, Contract!Next, Contract!World
  <2>8. CASE Cancel
    BY <2>0, <2>8 DEF Cancel, Contract!Next, Contract!World
  <2>9. CASE UNCHANGED vars
    BY <2>9 DEF vars, Contract!vars
  <2>10. QED
    BY <2>1, <2>2, <2>3, <2>4, <2>5, <2>6, <2>7, <2>8, <2>9 DEF Next, Step
<1>3. QED
  BY <1>1, <1>2, InvHolds, PTL DEF Spec, ImplementsReady, Contract!Spec
=============================================================================
