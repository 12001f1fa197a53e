-------------------------- MODULE ProvisionContract --------------------------
(***************************************************************************)
(* What Engine.Provision promises its caller, whatever the engine          *)
(* (internal/engine/engine.go, the comment on the Engine interface): while *)
(* it runs it may create and destroy external resources at will; when it   *)
(* returns an error none is left; a cancelled context never yields a       *)
(* Session.                                                                *)
(*                                                                         *)
(* The clean-up commands themselves can fail, and every caller ignores     *)
(* their errors (DockerHost.Remove, DiscardLog, os.Remove).  `stuck' is    *)
(* the set of resources whose removal was tried and failed: the promise is *)
(* "nothing is left except what refused to go".                            *)
(***************************************************************************)

\* container: the docker container.     tmp: sqlite's copy of the backup.
\* client: the open pool or connection. log: the file at RestoreResult.LogPath.
Resources == {"container", "tmp", "client", "log"}

Outcomes == {"running", "session", "error"}

VARIABLES
  ctxDone,   \* the context given to Provision is cancelled
  held,      \* resources that exist now
  stuck,     \* resources whose removal failed
  outcome    \* what Provision has returned, if it has

vars == <<ctxDone, held, stuck, outcome>>

TypeOK ==
  /\ ctxDone \in BOOLEAN
  /\ held \in SUBSET Resources
  /\ stuck \in SUBSET Resources
  /\ outcome \in Outcomes

Init ==
  /\ ctxDone = FALSE
  /\ held = {}
  /\ stuck = {}
  /\ outcome = "running"

(* The caller cancels: at any time, also after Provision has returned.     *)
Cancel ==
  /\ ~ctxDone
  /\ ctxDone' = TRUE
  /\ UNCHANGED <<held, stuck, outcome>>

(* A step inside Provision: resources come, and go only with an error.     *)
Work ==
  /\ outcome = "running"
  /\ held' \in {h \in SUBSET Resources : held \subseteq h}
  /\ UNCHANGED <<ctxDone, stuck, outcome>>

(* Provision hands a Session over, with the resources it lives on.         *)
Succeed ==
  /\ outcome = "running"
  /\ ~ctxDone
  /\ outcome' = "session"
  /\ held' \in {h \in SUBSET Resources :
                  held \subseteq h /\ h \cap {"container", "tmp"} # {}}
  /\ UNCHANGED <<ctxDone, stuck>>

(* Provision returns an error: only what could not be removed is left.     *)
Fail ==
  /\ outcome = "running"
  /\ outcome' = "error"
  /\ stuck' \in {s \in SUBSET Resources : stuck \subseteq s}
  /\ held' \in SUBSET stuck'
  /\ UNCHANGED ctxDone

Next == Cancel \/ Work \/ Succeed \/ Fail

Spec == Init /\ [][Next]_vars

-----------------------------------------------------------------------------
(* engine.go:191-193, "Se devolve erro [...] nao resta container nem outro *)
(* recurso externo criado por ela": an error leaves nothing behind but     *)
(* what its own removal command could not remove.                          *)
ErrorLeavesNothing == outcome = "error" => held \subseteq stuck
=============================================================================
