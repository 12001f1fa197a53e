------------------------------ MODULE Provision ------------------------------
(***************************************************************************)
(* Engine.Provision of every engine, as the sequence of calls it makes and *)
(* the clean-up each failing call runs.                                    *)
(*                                                                         *)
(* The code writes the clean-up by hand at every `if err != nil': about    *)
(* fifty return statements over five files, each of which must undo        *)
(* exactly what the calls above it created.  A plan lists, for one engine, *)
(* the calls in order; an entry holds                                      *)
(*   op    how the call treats the context and what it may do (see below), *)
(*   gain  the resources it has created when it succeeds,                  *)
(*   undo  the resources its error branch removes before returning.        *)
(* The retry over ports inside "start" is module PortRetry, the two probes *)
(* of "ready" module WaitReady.                                            *)
(***************************************************************************)
EXTENDS Naturals, Sequences

CONSTANT Engines   \* the engines a run considers

ASSUME EnginesAssumption ==
  Engines \subseteq {"postgres", "mysql", "mongo", "redis", "sqlite"}

VARIABLES
  ctxDone,   \* ctx.Err() # nil
  held,      \* external resources that exist
  stuck,     \* resources whose removal failed (errors of rm -f are ignored)
  outcome,   \* "running", or what Provision has returned
  engine,    \* the engine being provisioned
  pc,        \* the entry of the plan about to run
  resErr     \* len(res.Errors) > 0

vars == <<ctxDone, held, stuck, outcome, engine, pc, resErr>>

Contract == INSTANCE ProvisionContract

Resources == Contract!Resources

-----------------------------------------------------------------------------
(* How a call treats the context, and what it may do:                      *)
(*   check    ctx.Err(), or Step, which reports and returns ctx.Err()      *)
(*   moved    Step, taken only when the final port is not the first one    *)
(*   call     a command under ctx: fails when ctx is done, or on its own   *)
(*   blind    a call that never looks at ctx: it can only fail on its own  *)
(*   open     a call that cannot fail                                      *)
(*   restore  a command under ctx that yields a RestoreResult              *)
(*   verify   the same, but a dead ctx becomes a result with errors        *)
(*   report   the same, and no failure of its own: everything is a result  *)
(*   bail     ctx.Err(), then the Session at once if the result has errors *)
(* A RestoreResult with errors saves the output it judged in a log file.   *)
Ops == {"check", "moved", "call", "blind", "open",
        "restore", "verify", "report", "bail"}

StopsWhenDone == {"check", "moved", "call", "restore", "bail"}
CanFail       == {"call", "blind", "restore", "verify"}
YieldsResult  == {"restore", "verify", "report"}

Entry(op, gain, undo) == [op |-> op, gain |-> gain, undo |-> undo]

\* Mutant: Step drops the ctx.Err() it has to return.
CheckNothing(undo) == Entry("open", {}, undo)

Check(undo) == Entry("check", {}, undo)
Call(gain, undo) == Entry("call", gain, undo)

\* Mutant: the error branch after a failed connect forgets DiscardLog.
BlindKeepsLog(gain, undo) == Entry("blind", gain, undo \ {"log"})

Blind(gain, undo) == Entry("blind", gain, undo)

Box == {"container"}

PostgresPlan ==
  << Call({}, {}),                                       \* Preflight
     Check({}),
     Call(Box, {}),                                      \* StartWithPortRetry
     Entry("moved", {}, Box),
     Check(Box),
     Call({}, Box),                                      \* WaitReady
     Check(Box),
     Call({}, Box),                                      \* CopyDump
     Check(Box),
     Entry("restore", {"log"}, {"log", "container"}),    \* Restore
     Check({"log", "container"}),
     Blind({"client"}, {"log", "container"}),            \* pgConnect
     Check({"client", "log", "container"}) >>

(* mysql and mariadb: provisionMySQLFamily.                                *)
MySQLPlan ==
  << Call({}, {}),                                       \* Preflight
     Check({}),
     Call(Box, {}),                                      \* StartWithPortRetry
     Entry("moved", {}, Box),
     Check(Box),
     Call({}, Box),                                      \* WaitReady
     Check(Box),
     Call({}, Box),                                      \* CopyDump
     Check(Box),
     Entry("restore", {"log"}, {"log", "container"}),    \* Restore
     Check({"log", "container"}),
     Blind({"client"}, {"log", "container"}),            \* mysqlConnect
     Check({"client", "log", "container"}) >>

MongoPlan ==
  << Call({}, {}),                                       \* Preflight
     Check({}),
     Call(Box, {}),                                      \* StartWithPortRetry
     Entry("moved", {}, Box),
     Check(Box),
     Call({}, Box),                                      \* WaitReady
     Check(Box),
     Entry("restore", {"log"}, {"log", "container"}),    \* Restore, from stdin
     Check({"log", "container"}),
     Call({"client"}, {"log", "container"}),             \* mongoConnect pings
     Call({}, {"client", "log", "container"}),           \* mongoRestoredDBs
     Check({"client", "log", "container"}) >>

(* The attempt of StartWithPortRetry creates the container, copies the     *)
(* dump and starts it; each of its failures removes the container.         *)
RedisPlan ==
  << Call({}, {}),                                       \* Preflight
     Check({}),
     Call(Box, {}),                                      \* StartWithPortRetry
     Entry("moved", {}, Box),
     Check(Box),
     Entry("report", {"log"}, Box),                      \* WaitReady
     Entry("bail", {}, {"log", "container"}),
     Entry("open", {"client"}, Box),                     \* redisConnect
     Call({}, {"client", "container"}),                  \* Ping
     Check({"client", "container"}) >>

SQLitePlan ==
  << Check({}),
     Blind({"tmp"}, {}),                                 \* sqliteCopyToTemp
     Blind({"client"}, {"tmp"}),                         \* sql.Open
     Check({"client", "tmp"}),
     Entry("verify", {"log"}, {"client", "tmp", "log"}), \* sqliteIntegrityCheck
     Check({"client", "tmp", "log"}) >>

PlanOf(e) ==
  CASE e = "postgres" -> PostgresPlan
    [] e = "mysql"    -> MySQLPlan
    [] e = "mongo"    -> MongoPlan
    [] e = "redis"    -> RedisPlan
    [] e = "sqlite"   -> SQLitePlan

Plan == PlanOf(engine)
Now  == Plan[pc]
Last == pc = Len(Plan)

TypeOK ==
  /\ Contract!TypeOK
  /\ engine \in Engines
  /\ pc \in 1 .. Len(Plan)
  /\ resErr \in BOOLEAN

Init ==
  /\ Contract!Init
  /\ engine \in Engines
  /\ pc = 1
  /\ resErr = FALSE

-----------------------------------------------------------------------------
(* Ctrl+C: the signal handler of main.run cancels ctx, whatever is running.*)
Cancel ==
  /\ ~ctxDone
  /\ ctxDone' = TRUE
  /\ UNCHANGED <<held, stuck, outcome, engine, pc, resErr>>

(* The call returned nil: on to the next one, or to `return session, nil'. *)
Advance ==
  IF Last THEN /\ outcome' = "session"
               /\ UNCHANGED pc
          ELSE /\ pc' = pc + 1
               /\ UNCHANGED outcome

(* A call that neither judges the restore nor returns early succeeds.  A   *)
(* "moved" entry also passes when the first port was the final one.        *)
Pass ==
  /\ outcome = "running"
  /\ Now.op \notin YieldsResult \cup {"bail"}
  /\ (ctxDone /\ Now.op \in StopsWhenDone) => Now.op = "moved"
  /\ held' = held \cup Now.gain
  /\ Advance
  /\ UNCHANGED <<ctxDone, stuck, engine, resErr>>

(* Restore, WaitReady of redis and sqliteIntegrityCheck: the result may    *)
(* carry errors, and then a log file unless CreateTemp failed.             *)
Judge ==
  /\ outcome = "running"
  /\ Now.op \in YieldsResult
  /\ ~(ctxDone /\ Now.op \in StopsWhenDone)
  /\ resErr' \in (IF ctxDone THEN {TRUE} ELSE BOOLEAN)
  /\ \E log \in IF resErr' THEN SUBSET Now.gain ELSE {{}} :
        held' = held \cup log
  /\ Advance
  /\ UNCHANGED <<ctxDone, stuck, engine>>

\* Mutant: the early return is taken whatever the restore reported.
BailAlways ==
  /\ outcome = "running" /\ Now.op = "bail" /\ ~ctxDone
  /\ outcome' = "session"
  /\ UNCHANGED <<ctxDone, held, stuck, engine, pc, resErr>>

(* redis.go: a server that never came up still makes a Session, one        *)
(* without a client, so that the caller can show the restore errors.       *)
Bail ==
  /\ outcome = "running"
  /\ Now.op = "bail"
  /\ ~ctxDone
  /\ IF resErr THEN /\ outcome' = "session"
                    /\ UNCHANGED pc
               ELSE Advance
  /\ UNCHANGED <<ctxDone, held, stuck, engine, resErr>>

\* Mutant: the failed call does not remove what it had created itself.
FailKeepsGain ==
  /\ outcome = "running"
  /\ Now.op \in CanFail \/ (ctxDone /\ Now.op \in StopsWhenDone)
  /\ held' = (held \ Now.undo) \cup (Now.gain \ {"log"})
  /\ outcome' = "error"
  /\ UNCHANGED <<ctxDone, stuck, engine, pc, resErr>>

(* The call failed: its error branch removes Now.undo and returns.  What   *)
(* the call itself had created it removed itself (StartWithPortRetry,      *)
(* sqliteCopyToTemp, mongoConnect).  Any removal but a client's Close can  *)
(* fail, and then the resource stays.                                      *)
Fail ==
  /\ outcome = "running"
  /\ Now.op \in CanFail \/ (ctxDone /\ Now.op \in StopsWhenDone)
  /\ LET removed == (held \cap Now.undo) \cup (Now.gain \ {"log"})
     IN  \E left \in SUBSET (removed \ {"client"}) :
           /\ held' = (held \ Now.undo) \cup left
           /\ stuck' = stuck \cup left
  /\ outcome' = "error"
  /\ UNCHANGED <<ctxDone, engine, pc, resErr>>

Next == Cancel \/ Pass \/ Judge \/ Bail \/ Fail

Spec == Init /\ [][Next]_vars

-----------------------------------------------------------------------------
(* Inductive core: at every call, what exists is exactly what the error    *)
(* branch of that call removes: a failure here leaks nothing, and closes   *)
(* no client that was never opened.  Only the log is optional, and it      *)
(* exists only to explain errors.  One forgotten Remove, Close or          *)
(* DiscardLog in one branch of one engine breaks it.  (redis.go:191-200    *)
(* discards no log: there is none when the result has no errors.)          *)
HeldIsUndone ==
  outcome = "running" =>
    /\ held \ {"log"} = Now.undo \ {"log"}
    /\ "log" \in held => "log" \in Now.undo /\ resErr

(* engine.go:191-193: an error leaves no container, copy, client or log    *)
(* behind, but what refused to be removed.                                 *)
ErrorLeavesNothing == Contract!ErrorLeavesNothing

(* A Session has its container (or copy) and an open client; the one       *)
(* exception is redis's Session of a server that never came up, and that   *)
(* one carries the errors to show (redis.go:181-188).                      *)
SessionIsUsable ==
  outcome = "session" =>
    /\ held \cap {"container", "tmp"} # {}
    /\ "client" \in held \/ (engine = "redis" /\ resErr)

(* engine.go:192-193, "ctx cancelado no meio resulta em erro, nunca numa   *)
(* Session parcialmente pronta": the step that returns a Session runs with *)
(* a live context, though pgConnect, mysqlConnect and the sqlite calls     *)
(* never look at it.                                                       *)
NoSessionAfterCancel ==
  [][outcome' = "session" /\ outcome = "running" => ~ctxDone]_vars

(* Every engine keeps the promise written on the Engine interface.         *)
ImplementsContract == Contract!Spec
=============================================================================
