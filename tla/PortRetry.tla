------------------------------ MODULE PortRetry ------------------------------
(***************************************************************************)
(* Choosing the host port of the verification container, and starting it:  *)
(* DockerHost.Preflight, FreePortFrom, StartWithPortRetry, offerToFreePort *)
(* (internal/docker/dockerhost.go).  The ports of the host are shared with *)
(* other processes and other containers, which come and go between any two *)
(* of its commands; ctx may be cancelled and the daemon may fail at each.  *)
(***************************************************************************)
EXTENDS Integers, FiniteSets

CONSTANTS
  MaxRetries,    \* maxPortRetries, 5 in the code
  DefaultPort,   \* the engine's <engine>DefaultPort
  ScanSpan,      \* how many ports FreePortFrom probes, 100 in the code
  PortFlags,     \* values of --port a run considers; 0 is "not given"
  HostPorts,     \* the ports that others may occupy
  Others         \* containers of other owners on this host

ASSUME PortRetryAssumption ==
  /\ MaxRetries \in Nat \ {0}
  /\ DefaultPort \in Nat
  /\ ScanSpan \in Nat
  /\ PortFlags \subseteq Nat
  /\ HostPorts \subseteq Nat

VARIABLES
  pc,        \* where StartWithPortRetry and its callees are
  first,     \* startPort: the first port of both cycles
  port,      \* the port of the current attempt
  i,         \* attempts made in this cycle
  extra,     \* extraCycle: the operator has freed a container
  attemptErr,\* what the attempt that just failed reported
  listed,    \* ports already given to `docker ps'
  seen,      \* containers those calls showed
  result,    \* what Start has returned, "none" while it runs
  ctxDone,   \* ctx.Err() # nil
  own,       \* the container named db-verify-<pid>
  stuck,     \* a `rm -f' of it failed (the code ignores that)
  taken,     \* ports listened on by processes outside docker
  pub,       \* ports published by each of the other containers
  killed,    \* history: the others removed by us
  released,  \* history: the ports the removed one was publishing
  regrabbed  \* history: ports somebody took since then

code == <<pc, first, port, i, extra, attemptErr, listed, seen, result>>
host == <<own, stuck, taken, pub>>
past == <<killed, released, regrabbed>>
vars == <<code, ctxDone, host, past>>

Results == {"none", "ok", "unavailable", "cancelled", "attempt failed",
            "no free port", "ps failed", "bad choice", "not freed"}

Window == first .. first + MaxRetries - 1

Occupied(p) ==
  \/ p \in taken
  \/ \E c \in Others : p \in pub[c]

TypeOK ==
  /\ pc \in {"preflight", "check", "attempt", "remove", "list", "prompt", "done"}
  /\ first \in Nat
  /\ port \in Nat
  /\ i \in 0 .. MaxRetries
  /\ extra \in BOOLEAN
  /\ attemptErr \in {"none", "conflict", "other"}
  /\ listed \subseteq Nat
  /\ seen \subseteq Others
  /\ result \in Results
  /\ ctxDone \in BOOLEAN
  /\ own \in {"absent", "created", "running"}
  /\ stuck \in BOOLEAN
  /\ taken \subseteq HostPorts
  /\ pub \in [Others -> SUBSET HostPorts]
  /\ killed \subseteq Others
  /\ released \subseteq HostPorts
  /\ regrabbed \subseteq HostPorts

(* No two owners share a port.                                             *)
PortsExclusive ==
  \A c \in Others :
    /\ pub[c] \cap taken = {}
    /\ \A d \in Others \ {c} : pub[c] \cap pub[d] = {}

Init ==
  /\ pc = "preflight"
  /\ first = DefaultPort
  /\ port = DefaultPort
  /\ i = 0
  /\ extra = FALSE
  /\ attemptErr = "none"
  /\ listed = {}
  /\ seen = {}
  /\ result = "none"
  /\ ctxDone = FALSE
  /\ own = "absent"
  /\ stuck = FALSE
  /\ taken \in SUBSET HostPorts
  /\ pub \in [Others -> SUBSET HostPorts]
  /\ PortsExclusive
  /\ killed = {}
  /\ released = {}
  /\ regrabbed = {}

Return(r) ==
  /\ pc' = "done"
  /\ result' = r

-----------------------------------------------------------------------------
(* FreePortFrom: the first port of the span a listen accepts, the default  *)
(* one when there is none.                                                 *)
FreePorts == {p \in DefaultPort .. DefaultPort + ScanSpan - 1 : ~Occupied(p)}

FreePortFrom ==
  IF FreePorts = {} THEN {DefaultPort}
                    ELSE {p \in FreePorts : \A q \in FreePorts : p <= q}

(* Preflight: the daemon answers `docker info', and the first port is      *)
(* --port, or that of FreePortFrom.  The listen is closed again at once:   *)
(* nothing keeps the port until docker publishes it.                       *)
Preflight ==
  /\ pc = "preflight"
  /\ \/ /\ Return("unavailable")
        /\ UNCHANGED <<first, port>>
     \/ /\ ~ctxDone
        /\ \E flag \in PortFlags :
             first' \in IF flag = 0 THEN FreePortFrom ELSE {flag}
        /\ port' = first'
        /\ pc' = "check"
        /\ UNCHANGED result
  /\ UNCHANGED <<i, extra, attemptErr, listed, seen, ctxDone, host, past>>

\* Mutant: nothing is removed.
RemoveNothing == UNCHANGED <<own, stuck>>

(* removeContainer: `rm -f' under a context of its own; its error is lost. *)
RemoveOwn ==
  \/ /\ own' = "absent"
     /\ UNCHANGED stuck
  \/ /\ own # "absent"
     /\ stuck' = TRUE
     /\ UNCHANGED own

(* Loop head of startWithPortRetry.  `i' is below MaxRetries here.         *)
CheckContext ==
  /\ pc = "check"
  /\ IF ctxDone
       THEN /\ RemoveOwn
            /\ Return("cancelled")
       ELSE /\ pc' = "attempt"
            /\ UNCHANGED <<result, own, stuck>>
  /\ UNCHANGED <<first, port, i, extra, attemptErr, listed, seen, ctxDone,
                 taken, pub, past>>

(* attempt(port) succeeds: `docker run' published the port.                *)
AttemptSucceeds ==
  /\ pc = "attempt"
  /\ ~ctxDone
  /\ own = "absent"
  /\ ~Occupied(port)
  /\ own' = "running"
  /\ Return("ok")
  /\ UNCHANGED <<first, port, i, extra, attemptErr, listed, seen, ctxDone,
                 stuck, taken, pub, past>>

(* attempt(port) fails.  On a port conflict docker leaves the container    *)
(* created but not started; any other failure may leave it in any state.   *)
(* With ctx done no command starts, and with a container of that name      *)
(* still there (its removal failed) docker refuses the name.               *)
AttemptFails ==
  /\ pc = "attempt"
  /\ \/ /\ ~ctxDone /\ own = "absent" /\ Occupied(port)
        /\ attemptErr' = "conflict"
        /\ own' \in {"absent", "created"}
     \/ /\ ~ctxDone /\ own = "absent"
        /\ attemptErr' = "other"
        /\ own' \in {"absent", "created", "running"}
     \/ /\ ctxDone \/ own # "absent"
        /\ attemptErr' = "other"
        /\ UNCHANGED own
  /\ pc' = "remove"
  /\ UNCHANGED <<first, port, i, extra, listed, seen, result, ctxDone,
                 stuck, taken, pub, past>>

\* Mutant: the same port again, and the attempt is not counted.
SamePort == UNCHANGED <<port, i>>

NextPort == port' = port + 1 /\ i' = i + 1

(* The clean-up after a failed attempt, and what follows from its error.   *)
AfterFailure ==
  /\ pc = "remove"
  /\ RemoveOwn
  /\ IF attemptErr # "conflict"
       THEN /\ Return("attempt failed")
            /\ UNCHANGED <<port, i>>
       ELSE /\ NextPort
            /\ \/ /\ i' < MaxRetries
                  /\ pc' = "check"
                  /\ UNCHANGED result
               \/ /\ i' = MaxRetries /\ extra
                  /\ Return("no free port")
               \/ /\ i' = MaxRetries /\ ~extra
                  /\ pc' = "list"
                  /\ UNCHANGED result
  /\ UNCHANGED <<first, extra, attemptErr, listed, seen, ctxDone,
                 taken, pub, past>>

(* The port of the next `docker ps', and what follows from its answer.     *)
Asked == first + Cardinality(listed)

Shows(cs) ==
  /\ listed' = listed \cup {Asked}
  /\ seen' = seen \cup cs
  /\ \/ /\ listed' # Window
        /\ UNCHANGED <<pc, result>>
     \/ /\ listed' = Window /\ seen' = {}
        /\ Return("no free port")
     \/ /\ listed' = Window /\ seen' # {}
        /\ pc' = "prompt"
        /\ UNCHANGED result

PsFails == Return("ps failed") /\ UNCHANGED <<listed, seen>>

(* containersUsingPorts: one `docker ps' per tried port, in order.  A      *)
(* failed ps is an error of its own, never "no container there".           *)
ListPort ==
  /\ pc = "list"
  /\ \/ PsFails
     \/ ~ctxDone /\ Shows({c \in Others : Asked \in pub[c]})
  /\ UNCHANGED <<first, port, i, extra, attemptErr, ctxDone, host, past>>

(* The operator answers with enter or end of input, or with something that *)
(* is no number of the list.                                               *)
AnswerNone ==
  /\ pc = "prompt"
  /\ Return("no free port") \/ Return("bad choice")
  /\ UNCHANGED <<first, port, i, extra, attemptErr, listed, seen, ctxDone,
                 host, past>>

\* Mutants: extraCycle is not set; the ports start at the last one.
CycleUnmarked == UNCHANGED extra /\ i' = 0 /\ port' = first
CycleFromLast == extra' = TRUE /\ i' = 0 /\ port' = port - 1

SecondCycle == extra' = TRUE /\ i' = 0 /\ port' = first

(* The operator picks container c: `rm -f' under ctx.  If it works a       *)
(* second and last cycle starts from the first port again.                 *)
AnswerFree(c) ==
  /\ pc = "prompt"
  /\ c \in seen
  /\ \/ /\ Return("not freed")
        /\ UNCHANGED <<port, i, extra, listed, seen, pub, past>>
     \/ /\ ~ctxDone
        /\ pub' = [pub EXCEPT ![c] = {}]
        /\ killed' = killed \cup {c}
        /\ released' = pub[c]
        /\ regrabbed' = {}
        /\ SecondCycle
        /\ listed' = {} /\ seen' = {}
        /\ pc' = "check"
        /\ UNCHANGED result
  /\ UNCHANGED <<first, attemptErr, ctxDone, own, stuck, taken>>

-----------------------------------------------------------------------------
(* The rest of the host.  Our own container holds its port while it runs.  *)
Mine == IF own = "running" THEN {port} ELSE {}

Cancel ==
  /\ ~ctxDone
  /\ ctxDone' = TRUE
  /\ UNCHANGED <<code, host, past>>

Take(p) ==
  /\ ~Occupied(p) /\ p \notin Mine
  /\ taken' = taken \cup {p}
  /\ regrabbed' = regrabbed \cup {p}
  /\ UNCHANGED <<code, ctxDone, own, stuck, pub, killed, released>>

GiveBack(p) ==
  /\ p \in taken
  /\ taken' = taken \ {p}
  /\ UNCHANGED <<code, ctxDone, own, stuck, pub, past>>

(* Another container starts on port p, or stops.                           *)
OtherStarts(c, p) ==
  /\ pub[c] = {} /\ ~Occupied(p) /\ p \notin Mine
  /\ pub' = [pub EXCEPT ![c] = {p}]
  /\ regrabbed' = regrabbed \cup {p}
  /\ UNCHANGED <<code, ctxDone, own, stuck, taken, killed, released>>

OtherStops(c) ==
  /\ pub[c] # {}
  /\ pub' = [pub EXCEPT ![c] = {}]
  /\ UNCHANGED <<code, ctxDone, own, stuck, taken, past>>

Environment ==
  \/ Cancel
  \/ \E p \in HostPorts : Take(p) \/ GiveBack(p)
  \/ \E c \in Others : OtherStops(c) \/ \E p \in HostPorts : OtherStarts(c, p)

(* The code's own steps, those that need no answer of the operator.        *)
Run ==
  \/ Preflight \/ CheckContext \/ AttemptSucceeds \/ AttemptFails
  \/ AfterFailure \/ ListPort

Answer == AnswerNone \/ \E c \in Others : AnswerFree(c)

Next == Run \/ Answer \/ (pc # "done" /\ Environment)

(* Each command of the code returns; the operator and the other owners of  *)
(* ports owe nothing.                                                      *)
Spec == Init /\ [][Next]_vars /\ WF_vars(Run)

-----------------------------------------------------------------------------
(* dockerhost.go:264-265, "quem chama nao precisa limpar o container de    *)
(* uma subida que falhou": whatever went wrong, in either cycle, before or *)
(* after the prompt, no container of ours is left unless its own removal   *)
(* failed.                                                                 *)
ErrorLeavesNoContainer ==
  result \notin {"none", "ok"} => own = "absent" \/ stuck

(* dockerhost.go:266-267, "segundo esgotamento e erro (sem loop)": at most *)
(* one container of somebody else is ever removed.                         *)
FreesAtMostOne == Cardinality(killed) <= 1

(* What the operator paid for is used: if the second cycle still ends      *)
(* without a port, every port of the window that the removed container     *)
(* published was taken by somebody else since.                             *)
FreedPortIsTried ==
  extra /\ result = "no free port" => released \cap Window \subseteq regrabbed

(* A run whose context is cancelled never starts to ask the operator.      *)
CancelledNeverAsks ==
  [][pc # "prompt" /\ pc' = "prompt" => ~ctxDone]_vars

(* Start returns, or is at the prompt waiting for the operator.            *)
ReturnsOrAsks == []<>(pc \in {"done", "prompt"})

=============================================================================
