------------------------------ MODULE WaitReady ------------------------------
(***************************************************************************)
(* The three loops that wait for a server to be up: DockerHost.WaitReady   *)
(* (internal/docker/dockerhost.go; Postgres, MySQL, MariaDB), which wants  *)
(* two probes in a row to succeed, a pause apart; mongoContainer.WaitReady *)
(* (engines/mongo/mongo.go), content with one ping of the driver; and      *)
(* redisContainer.WaitReady (engines/redis/redis.go), which also looks     *)
(* after each failed PING whether the container still runs.                *)
(*                                                                         *)
(* The images of Postgres and MySQL first run a temporary server for their *)
(* initialisation, for as long as it takes, then restart: a probe cannot   *)
(* tell the temporary server from the real one.  A redis that still loads its RDB answers PING with  *)
(* an error, for which redis-cli exits with 0 all the same.                *)
(*                                                                         *)
(* Time is a count of ticks; it passes only while the code sleeps or waits *)
(* for a probe, and each probe reads the server as it is when it ends.     *)
(***************************************************************************)
EXTENDS Integers

CONSTANTS
  Loops,      \* the loops considered
  Timeout,    \* the timeout argument
  Pause,      \* between the two probes, 300 ms in the code
  Nap,        \* after a failed probe: 1 s, or 500 ms (mongo), or 300 ms (redis)
  ProbeTime   \* the longest a probe or a `docker inspect' takes

ASSUME WaitReadyAssumption ==
  /\ Loops \subseteq {"docker", "mongo", "redis"}
  /\ Timeout \in Nat \ {0} /\ Pause \in Nat \ {0}
  /\ Nap \in [Loops -> Nat \ {0}]
  /\ ProbeTime \in Nat

VARIABLES
  loop,    \* which of the loops this is
  pc,      \* where it is
  wait,    \* ticks before the sleep or the probe under way ends
  now,     \* ticks since WaitReady was called
  ctxDone, \* ctx.Err() # nil
  result,  \* what WaitReady has returned
  server,  \* what runs in the container
  age,     \* ticks since the server is what it is
  flaky    \* a probe or an inspection may fail although the server answers

vars == <<loop, pc, wait, now, ctxDone, result, server, age, flaky>>

TypeOK ==
  /\ loop \in Loops
  /\ pc \in {"top", "probe", "pause", "second", "inspect", "nap", "done"}
  /\ wait \in Nat
  /\ now \in Nat
  /\ ctxDone \in BOOLEAN
  /\ result \in {"none", "ready", "cancelled", "timeout", "died"}
  /\ server \in {"booting", "temporary", "restarting", "loading", "real", "dead"}
  /\ age \in Nat
  /\ flaky \in BOOLEAN

Init ==
  /\ loop \in Loops
  /\ pc = "top"
  /\ wait = 0
  /\ now = 0
  /\ ctxDone = FALSE
  /\ result = "none"
  /\ server = "booting"
  /\ age = 0
  /\ flaky \in BOOLEAN

Goes(from, to) == pc = from /\ wait = 0 /\ pc' = to

Return(from, r) == pc = from /\ pc' = "done" /\ result' = r /\ wait' = 0

(* A probe succeeds: under a dead ctx docker and the driver only fail.     *)
Answers == server \in {"temporary", "loading", "real"} /\ ~ctxDone

-----------------------------------------------------------------------------
(* The head of the loop: the only place where the deadline is looked at.   *)
Top ==
  /\ \/ /\ now < Timeout
        /\ Goes("top", "probe")
        /\ wait' \in 0 .. ProbeTime
        /\ UNCHANGED result
     \/ /\ now >= Timeout
        /\ Return("top", "timeout")
  /\ UNCHANGED <<loop, now, ctxDone, server, age, flaky>>

\* Mutants: a nap past the deadline; DockerHost naps to the deadline.
NapWhole == Nap[loop]

NapLong ==
  IF loop # "docker" THEN Nap[loop] ELSE IF now < Timeout THEN Timeout - now ELSE 0

(* DockerHost: min(time.Second, time.Until(deadline)), where a negative    *)
(* sleep ends at once; mongo and redis do not look at the deadline.        *)
NapTime ==
  IF loop # "docker" \/ Timeout - now >= Nap[loop] THEN Nap[loop]
  ELSE IF now < Timeout THEN Timeout - now ELSE 0

(* A failed probe ends: redis inspects the container, the others nap.      *)
ProbeFailed ==
  \/ /\ loop = "redis"
     /\ Goes("probe", "inspect")
     /\ wait' \in 0 .. ProbeTime
  \/ /\ loop # "redis"
     /\ Goes("probe", "nap")
     /\ wait' = NapTime

\* Mutants: the second probe follows at once; the first is tried again at once.
FirstProbeNoPause ==
  /\ \/ Answers /\ loop = "docker" /\ Goes("probe", "second") /\ UNCHANGED <<wait, result>>
     \/ Answers /\ loop # "docker" /\ wait = 0 /\ Return("probe", "ready")
     \/ (flaky \/ ~Answers) /\ ProbeFailed /\ UNCHANGED result
  /\ UNCHANGED <<loop, now, ctxDone, server, age, flaky>>

FirstProbeSpins ==
  /\ \/ Answers /\ loop = "docker" /\ Goes("probe", "pause") /\ wait' = Pause /\ UNCHANGED result
     \/ Answers /\ loop # "docker" /\ wait = 0 /\ Return("probe", "ready")
     \/ (flaky \/ ~Answers) /\ Goes("probe", "probe") /\ UNCHANGED <<wait, result>>
  /\ UNCHANGED <<loop, now, ctxDone, server, age, flaky>>

(* The first probe ends: a success is doubted by DockerHost only.          *)
FirstProbe ==
  /\ \/ /\ Answers /\ loop = "docker"
        /\ Goes("probe", "pause")
        /\ wait' = Pause
        /\ UNCHANGED result
     \/ /\ Answers /\ loop # "docker"
        /\ wait = 0
        /\ Return("probe", "ready")
     \/ /\ flaky \/ ~Answers
        /\ ProbeFailed
        /\ UNCHANGED result
  /\ UNCHANGED <<loop, now, ctxDone, server, age, flaky>>

(* The second probe ends.                                                  *)
SecondProbe ==
  /\ wait = 0
  /\ \/ Answers /\ Return("second", "ready")
     \/ (flaky \/ ~Answers) /\ Goes("second", "top") /\ UNCHANGED <<wait, result>>
  /\ UNCHANGED <<loop, now, ctxDone, server, age, flaky>>

\* Mutants: the inspection runs under the ctx of the caller; it is left out.
InspectUnderCtx ==
  /\ wait = 0
  /\ \/ server # "dead" /\ ~ctxDone /\ Goes("inspect", "nap") /\ wait' = NapTime /\ UNCHANGED result
     \/ (flaky \/ server = "dead" \/ ctxDone) /\ Return("inspect", "died")
  /\ UNCHANGED <<loop, now, ctxDone, server, age, flaky>>

InspectNothing ==
  /\ Goes("inspect", "nap") /\ wait' = NapTime
  /\ UNCHANGED <<loop, now, ctxDone, result, server, age, flaky>>

(* isRunning, under context.Background(): an inspection that fails counts  *)
(* as a container that does not run.                                       *)
Inspect ==
  /\ wait = 0
  /\ \/ /\ server # "dead"
        /\ Goes("inspect", "nap")
        /\ wait' = NapTime
        /\ UNCHANGED result
     \/ /\ flaky \/ server = "dead"
        /\ Return("inspect", "died")
  /\ UNCHANGED <<loop, now, ctxDone, server, age, flaky>>

(* A sleep: the timer fires, or ctx is done first.                         *)
SleepEnds ==
  /\ \/ /\ Goes("pause", "second")
        /\ wait' \in 0 .. ProbeTime
        /\ UNCHANGED result
     \/ /\ Goes("nap", "top")
        /\ UNCHANGED <<wait, result>>
     \/ /\ ctxDone
        /\ Return("pause", "cancelled") \/ Return("nap", "cancelled")
  /\ UNCHANGED <<loop, now, ctxDone, server, age, flaky>>

-----------------------------------------------------------------------------
(* A tick, while a sleep or a probe is under way.                          *)
Tick ==
  /\ wait > 0
  /\ wait' = wait - 1
  /\ now' = now + 1
  /\ age' = age + 1
  /\ UNCHANGED <<loop, pc, ctxDone, result, server, flaky>>

(* The life of the server inside each image: nothing says how long any of  *)
(* its states lasts.                                                       *)
ServerMoves ==
  /\ pc # "done"
  /\ \/ loop = "docker" /\ server = "booting"    /\ server' = "temporary"
     \/ loop = "docker" /\ server = "temporary"  /\ server' = "restarting"
     \/ loop = "docker" /\ server = "restarting" /\ server' = "real"
     \/ loop = "mongo"  /\ server = "booting"    /\ server' = "real"
     \/ loop = "redis"  /\ server = "booting"    /\ server' = "loading"
     \/ loop = "redis"  /\ server = "loading"    /\ server' = "real"
     \/ server # "dead" /\ server' = "dead"
  /\ age' = 0
  /\ UNCHANGED <<loop, pc, wait, now, ctxDone, result, flaky>>

Cancel ==
  /\ pc # "done"
  /\ ~ctxDone
  /\ ctxDone' = TRUE
  /\ UNCHANGED <<loop, pc, wait, now, result, server, age, flaky>>

Step == Top \/ FirstProbe \/ SecondProbe \/ Inspect \/ SleepEnds

Next == Step \/ Tick \/ ServerMoves \/ Cancel

(* Time passes and the code runs; nothing is owed by the container.        *)
Spec ==
  /\ Init /\ [][Next]_vars
  /\ WF_vars(Step) /\ WF_vars(Tick)

-----------------------------------------------------------------------------
(* dockerhost.go:186-190, "dai a segunda checagem": what the second check  *)
(* at 208-216 earns, however long an initialisation takes.  It is not that *)
(* ready means the real server: an initialisation longer than the pause    *)
(* passes both probes.  What is reported ready is the real server, or a    *)
(* temporary one that was there for the whole pause; one that came up or   *)
(* went down during it is never reported.  One ping of mongo's driver      *)
(* finds the real server, as its image has no other; redis, which pings    *)
(* once, may find one that still loads its RDB, and is left out.           *)
ReadyOutlivesPause ==
  result = "ready" /\ loop # "redis"
    => server = "real" \/ (server = "temporary" /\ loop = "docker" /\ age >= Pause)

(* The timeout is looked at only between probes: it may be exceeded, but   *)
(* by no more than what lies between two looks at it.                      *)
Overrun ==
  CASE loop = "docker" -> ProbeTime + Pause + ProbeTime
    [] loop = "mongo"  -> ProbeTime + Nap[loop]
    [] loop = "redis"  -> ProbeTime + ProbeTime + Nap[loop]

TimeoutIsKept == now < Timeout + Overrun

(* A server that answers every probe is not given up: when the timeout is  *)
(* reported with the real server up, it came up since the last probe.      *)
Grace == IF loop = "redis" THEN Nap[loop] + ProbeTime ELSE Nap[loop]

TimeoutIsFair ==
  result = "timeout" /\ server = "real" /\ ~flaky /\ ~ctxDone => age <= Grace

(* redis.go:324-327: a container that dies by itself is noticed at once,   *)
(* not when the timeout is over: within a nap, a PING and an inspection.   *)
DeathIsNoticed ==
  loop = "redis" /\ server = "dead" /\ pc # "done"
    => age <= Nap[loop] + ProbeTime + ProbeTime

(* What the callers in Provision rely on, whichever loop it is.            *)
Contract == INSTANCE ReadyContract
              WITH outcome <- result, elapsed <- now, ctxDone <- ctxDone,
                   server <- server, flaky <- flaky, Timeout <- Timeout

(* Each loop implements the contract of readiness: no outcome without its  *)
(* cause, and none that is taken back.                                     *)
ImplementsReady == Contract!Spec

(* A server that dies, or never comes up, does not keep WaitReady waiting. *)
Returns == <>(result # "none")
=============================================================================
