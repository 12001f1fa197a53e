------------------------------ MODULE Lifecycle ------------------------------
(***************************************************************************)
(* The life of one verification, from main.run to the exit of the process: *)
(* the goroutine of run, the goroutine that waits for a signal, the mutex  *)
(* between them, and the two of them closing the session (main.go).        *)
(*                                                                         *)
(* Provision is its promise, module ProvisionContract: run's steps inside  *)
(* it are the actions of that module.  The TUI is its queries in flight;   *)
(* what it shows is module Tui.                                            *)
(***************************************************************************)
EXTENDS Naturals

CONSTANT SigBuffer   \* capacity of the channel sigs, 1 in the code

ASSUME SigBufferAssumption == SigBuffer \in Nat \ {0}

VARIABLES
  ctxDone,     \* the context of run is cancelled
  held,        \* container, client, copy and log that exist
  stuck,       \* what a removal failed to remove
  outcome,     \* what Provision has returned
  keep,        \* --keep
  drains,      \* Close of the client waits for the queries in flight
  runPc,       \* where the goroutine of run is
  sigPc,       \* where the goroutine of the signal is
  mu,          \* who holds the mutex: "free", "run" or "handler"
  live,        \* the variable live: the session is published
  pending,     \* signals in the channel
  listening,   \* signal.Stop has not run yet
  interrupted, \* run's own reading of ctx.Err() when it published
  sawLive,     \* the handler's reading of live when it cancelled
  recent,      \* a query of the TUI is in flight
  code,        \* the exit code run's error will give
  exit         \* how the process has ended, "none" while it lives

resources == <<held, stuck, outcome>>
flags     == <<keep, drains>>
shared    == <<ctxDone, mu, live>>
handler   == <<sigPc, pending, sawLive>>
ending    == <<listening, code, exit>>
vars == <<resources, flags, shared, handler, ending, runPc, interrupted, recent>>

Contract == INSTANCE ProvisionContract

Box == {"container", "tmp"}

RunStates == {"inspect", "provision", "prompt", "failed", "publish", "publishing",
              "checking", "health", "collections", "tui", "close client",
              "close box", "stop", "return", "exit"}

SigStates == {"wait", "lock", "cancel", "read", "close client", "close box",
              "exit", "gone"}

TypeOK ==
  /\ Contract!TypeOK
  /\ keep \in BOOLEAN /\ drains \in BOOLEAN
  /\ runPc \in RunStates
  /\ sigPc \in SigStates
  /\ mu \in {"free", "run", "handler"}
  /\ live \in BOOLEAN
  /\ pending \in 0 .. SigBuffer
  /\ listening \in BOOLEAN
  /\ interrupted \in BOOLEAN
  /\ sawLive \in BOOLEAN
  /\ recent \in BOOLEAN
  /\ code \in {"0", "1", "130"}
  /\ exit \in {"none", "0", "1", "130", "killed"}

Init ==
  /\ Contract!Init
  /\ keep \in BOOLEAN /\ drains \in BOOLEAN
  /\ runPc = "inspect"
  /\ sigPc = "wait"
  /\ mu = "free"
  /\ live = FALSE
  /\ pending = 0
  /\ listening = TRUE
  /\ interrupted = FALSE
  /\ sawLive = FALSE
  /\ recent = FALSE
  /\ code = "0"
  /\ exit = "none"

Alive == exit = "none"

-----------------------------------------------------------------------------
(* sync.Mutex, for one of the goroutines.                                  *)
\* Mutants: it excludes nobody; it is never released.
LockFree(who) == mu' = who
UnlockNever   == UNCHANGED mu

Lock(who) == mu = "free" /\ mu' = who
Unlock    == mu' = "free"

-----------------------------------------------------------------------------
(* The goroutine of run.                                                   *)

RunGoes(from, to) == Alive /\ runPc = from /\ runPc' = to

\* Mutants: the close is not deferred; it ignores --keep.
LeaveUnclosed(from, c) == RunGoes(from, "stop") /\ code' = c
LeaveCloses(from, c) ==
  /\ RunGoes(from, IF outcome = "session" THEN "close client" ELSE "stop")
  /\ code' = c

(* run returns an error, or nil: the deferred close when there is a        *)
(* session, else straight to signal.Stop and cancel.                       *)
Leave(from, c) ==
  /\ RunGoes(from, IF outcome = "session" /\ ~keep THEN "close client" ELSE "stop")
  /\ code' = c

(* filepath.Abs and detect.InspectDumpAs, which never look at ctx.  Their  *)
(* error is returned as it is (no interruptedErr).                         *)
Inspect ==
  /\ \/ RunGoes("inspect", "provision") /\ UNCHANGED code
     \/ Leave("inspect", "1")
  /\ UNCHANGED <<resources, flags, shared, handler, listening, exit,
                 interrupted, recent>>

(* eng.Provision(ctx, ...), by its promise.                                *)
Provision ==
  /\ \/ Contract!Work    /\ RunGoes("provision", "provision")
     \/ Contract!Succeed /\ RunGoes("provision", "publish")
     \/ Contract!Fail    /\ RunGoes("provision", "failed")
  /\ UNCHANGED <<flags, mu, live, handler, ending, interrupted, recent>>

\* Mutant: the error of Provision, whatever caused it.
FailureCodePlain == "1"

FailureCode == IF ctxDone THEN "130" ELSE "1"

(* offerToFreePort: with no port left, and the context alive when docker   *)
(* listed the containers, Provision asks the operator which one to remove. *)
(* It reads standard input, which no context ends.                         *)
Ask ==
  /\ ~ctxDone
  /\ RunGoes("provision", "prompt")
  /\ UNCHANGED <<resources, flags, shared, handler, ending, interrupted, recent>>

(* A line, or the end of the input: Provision goes on with it.             *)
OperatorAnswers ==
  /\ RunGoes("prompt", "provision")
  /\ UNCHANGED <<resources, flags, shared, handler, ending, interrupted, recent>>

(* interruptedErr: 130 when ctx is done by now, the error itself if not.   *)
InterruptedErr ==
  /\ Leave("failed", FailureCode)
  /\ UNCHANGED <<resources, flags, shared, handler, listening, exit,
                 interrupted, recent>>

(* mu.Lock(); live = sess; interrupted := ctx.Err() # nil; mu.Unlock()     *)
PublishLock ==
  /\ RunGoes("publish", "publishing")
  /\ Lock("run")
  /\ UNCHANGED <<resources, flags, ctxDone, live, handler, ending,
                 interrupted, recent>>

PublishLive ==
  /\ RunGoes("publishing", "checking")
  /\ live' = TRUE
  /\ UNCHANGED <<resources, flags, ctxDone, mu, handler, ending,
                 interrupted, recent>>

PublishCheck ==
  /\ interrupted' = ctxDone
  /\ Unlock
  /\ \/ interrupted' /\ Leave("checking", "130")
     \/ ~interrupted' /\ RunGoes("checking", "health") /\ UNCHANGED code
  /\ UNCHANGED <<resources, flags, ctxDone, live, handler, listening, exit,
                 recent>>

(* sess.Health(ctx), sess.Collections(ctx): under ctx, any failure is      *)
(* returned as it is (no interruptedErr); an empty list is an error too.   *)
Query(from, to) ==
  /\ \/ ~ctxDone /\ RunGoes(from, to) /\ UNCHANGED code
     \/ Leave(from, "1")
  /\ UNCHANGED <<resources, flags, shared, handler, listening, exit,
                 interrupted, recent>>

Health      == Query("health", "collections")
Collections == Query("collections", "tui")

(* The TUI sends a query under context.Background(); nothing but its own   *)
(* answer ends it, not even the end of the TUI.  A client that is closing  *)
(* accepts no new one.                                                     *)
RecentStarts ==
  /\ Alive /\ runPc = "tui"
  /\ sigPc \notin {"close client", "close box"}
  /\ ~recent
  /\ recent' = TRUE
  /\ UNCHANGED <<resources, flags, shared, handler, ending, runPc, interrupted>>

RecentEnds ==
  /\ Alive
  /\ recent
  /\ recent' = FALSE
  /\ UNCHANGED <<resources, flags, shared, handler, ending, runPc, interrupted>>

(* p.Run() returns: the operator quits, the terminal fails, or bubbletea's *)
(* own signal handler ends it (SIGTERM as a quit, SIGINT as an error).     *)
TuiEnds ==
  /\ \E c \in {"0", "1"} : Leave("tui", c)
  /\ UNCHANGED <<resources, flags, shared, handler, listening, exit,
                 interrupted, recent>>

-----------------------------------------------------------------------------
(* Session.Close, run by either goroutine, or by both at once: the client, *)
(* which may first wait for the queries in flight; then the container or   *)
(* the copy.  The error of `rm -f' is lost.                                *)
Querying == recent \/ runPc \in {"health", "collections"}

CloseClient ==
  /\ drains => ~Querying
  /\ held' = held \ {"client"}
  /\ UNCHANGED <<stuck, outcome>>

RemoveBox ==
  /\ \E left \in SUBSET (held \cap Box) :
       /\ held' = (held \ Box) \cup left
       /\ stuck' = stuck \cup left
  /\ UNCHANGED outcome

RunCloses ==
  /\ \/ RunGoes("close client", "close box") /\ CloseClient
     \/ RunGoes("close box", "stop") /\ RemoveBox
  /\ UNCHANGED <<flags, shared, handler, ending, interrupted, recent>>

(* The other deferred calls, signal.Stop(sigs) and cancel(); then main     *)
(* exits with the code of the error.                                       *)
RunStops ==
  /\ \/ RunGoes("stop", "return") /\ listening' = FALSE
        /\ UNCHANGED <<ctxDone, exit>>
     \/ RunGoes("return", "exit") /\ ctxDone' = TRUE
        /\ UNCHANGED <<listening, exit>>
     \/ Alive /\ runPc = "exit" /\ exit' = code
        /\ UNCHANGED <<runPc, ctxDone, listening>>
  /\ UNCHANGED <<resources, flags, mu, live, handler, code, interrupted, recent>>

-----------------------------------------------------------------------------
(* The goroutine of the signal.                                            *)

SigGoes(from, to) == Alive /\ sigPc = from /\ sigPc' = to

(* select: a signal, or the end of run.                                    *)
HandlerWakes ==
  /\ \/ SigGoes("wait", "lock") /\ pending > 0 /\ pending' = pending - 1
     \/ SigGoes("wait", "gone") /\ ctxDone /\ UNCHANGED pending
  /\ UNCHANGED <<resources, flags, shared, ending, runPc, sawLive,
                 interrupted, recent>>

(* mu.Lock(); cancel(); sess := live; mu.Unlock()                          *)
HandlerLock ==
  /\ SigGoes("lock", "cancel")
  /\ Lock("handler")
  /\ UNCHANGED <<resources, flags, ctxDone, live, ending, runPc, pending,
                 sawLive, interrupted, recent>>

HandlerCancels ==
  /\ SigGoes("cancel", "read")
  /\ ctxDone' = TRUE
  /\ UNCHANGED <<resources, flags, mu, live, ending, runPc, pending,
                 sawLive, interrupted, recent>>

HandlerReads ==
  /\ SigGoes("read", IF ~live THEN "gone"
                     ELSE IF keep THEN "exit" ELSE "close client")
  /\ sawLive' = live
  /\ Unlock
  /\ UNCHANGED <<resources, flags, ctxDone, live, ending, runPc, pending,
                 interrupted, recent>>

HandlerCloses ==
  /\ \/ SigGoes("close client", "close box") /\ CloseClient
     \/ SigGoes("close box", "exit") /\ RemoveBox
  /\ UNCHANGED <<flags, shared, ending, runPc, pending, sawLive,
                 interrupted, recent>>

HandlerExits ==
  /\ Alive /\ sigPc = "exit"
  /\ exit' = "130"
  /\ UNCHANGED <<resources, flags, shared, handler, listening, code, runPc,
                 interrupted, recent>>

-----------------------------------------------------------------------------
Queue == pending < SigBuffer /\ pending' = pending + 1

(* SIGINT or SIGTERM: queued, dropped when the channel is full, and deadly *)
(* once signal.Stop has run.                                               *)
Signal ==
  /\ Alive
  /\ \/ /\ listening /\ Queue
        /\ UNCHANGED exit
     \/ /\ ~listening
        /\ exit' = "killed"
        /\ UNCHANGED pending
  /\ UNCHANGED <<resources, flags, shared, listening, code, runPc, sigPc,
                 sawLive, interrupted, recent>>

Run ==
  \/ Inspect \/ Provision \/ Ask \/ InterruptedErr
  \/ PublishLock \/ PublishLive \/ PublishCheck
  \/ Health \/ Collections \/ RunCloses \/ RunStops

Handler ==
  \/ HandlerWakes \/ HandlerLock \/ HandlerCancels \/ HandlerReads
  \/ HandlerCloses \/ HandlerExits

Next ==
  \/ Run \/ Handler \/ RecentStarts \/ RecentEnds
  \/ OperatorAnswers \/ TuiEnds \/ Signal

(* Both goroutines are scheduled, the mutex is starvation free, and every  *)
(* command and query ends.  Nothing is owed by the operator: the prompt    *)
(* may wait for ever, the TUI may stay open, and no signal needs to come.  *)
Spec ==
  /\ Init /\ [][Next]_vars
  /\ WF_vars(Run) /\ WF_vars(RecentEnds)
  /\ WF_vars(Handler)

-----------------------------------------------------------------------------
(* The comment at main.go:122-124, "para um sinal no fim do Provision nao  *)
(* fechar a sessao duas vezes nem nenhuma": when a signal has been handled *)
(* and run has published its session, exactly one of the two goroutines    *)
(* learnt that the session is its to close: run by reading ctx, or the     *)
(* handler by reading live.                                                *)
SignalHasOneOwner ==
  /\ ~(interrupted /\ sawLive)
  /\ runPc \in {"health", "collections", "tui"} /\ ctxDone => sigPc # "gone"

(* README.md:47: whatever happened (an error, a signal at any point, two   *)
(* closes at once, the handler exiting under run's feet), no container, no *)
(* copy is left when the process ends, but one that refused to be removed. *)
NothingLeftBehind ==
  exit # "none" /\ ~keep => held \cap Box \subseteq stuck

(* README.md:41, --keep: a session that was handed over keeps its          *)
(* container or copy on every way out, and its client is never closed.     *)
KeepIsHonoured ==
  [][outcome = "session" /\ keep => held' = held]_vars

(* The places of run before it has published a session.                    *)
Unpublished == {"inspect", "provision", "prompt", "failed", "publish",
                "publishing", "checking"}

(* main.go:97-98, "errInterrupted marca a saida por SIGINT/SIGTERM", and   *)
(* 119-120, "SIGINT/SIGTERM cancelam o ctx desde ja, antes do Provision":  *)
(* a signal handled before run has published a session, wherever run is,   *)
(* ends the process with 130.                                              *)
EarlyInterruptExits130 ==
  []((sigPc = "gone" /\ runPc \in Unpublished) => [](exit \notin {"0", "1"}))

(* What main.go:101-109 and 209-217 keep of it: after such a signal the    *)
(* process never ends as a success, nor with the plain error of anything   *)
(* from Provision on, also when the signal landed after Provision's last   *)
(* look at ctx.  The one plain error left is that of the inspection of the *)
(* dump (151-166): Provision was never called.                             *)
InterruptIsReported ==
  []((sigPc = "gone" /\ runPc \in Unpublished)
       => [](exit # "0" /\ (exit = "1" => outcome = "running")))

(* main.go:119-122: once the handler has a signal in hand the process      *)
(* ends, however many queries are in flight.  The exception is the port    *)
(* prompt (dockerhost.go:374), which no ctx interrupts: unless the process *)
(* is left there for good by the operator.                                 *)
SignalEndsOrPromptStays ==
  sigPc = "lock" ~> (exit # "none" \/ [](runPc = "prompt"))
=============================================================================
