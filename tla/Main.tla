-------------------------------- MODULE Main --------------------------------
(***************************************************************************)
(* From the command line to a Session: the dump is chosen and inspected    *)
(* (module Detect), and the engine that was detected, or forced, is        *)
(* provisioned (module Provision).                                         *)
(*                                                                         *)
(* run makes the context and waits for signals before it inspects the      *)
(* dump, and the inspection never looks at the context: it may hand over   *)
(* a context that is already cancelled.  Before run there is no context;   *)
(* a signal then ends the process, which has created nothing.              *)
(***************************************************************************)
EXTENDS Detect, Provision

(* The engine registered under a name, as Provision calls it: mariadb      *)
(* shares mysql's code.                                                    *)
Lookup(name) ==
  CASE name \in {"mysql", "mariadb"} -> "mysql"
    [] name = "mongodb" -> "mongo"
    [] OTHER -> name

ASSUME LookupAssumption == \A name \in Registered : Lookup(name) \in Engines

(* The engine is not known yet: nothing looks at that variable before the  *)
(* inspection sets it.                                                     *)
MainInit ==
  /\ DetectInit
  /\ Init
  /\ engine = CHOOSE e \in Engines : TRUE

Choose == ChooseDump /\ UNCHANGED vars

\* The signal, while the dump is inspected.
CancelEarly == stage = "inspect" /\ Cancel /\ UNCHANGED detectVars

(* eng := Lookup(backup.Engine), and on to its Provision.                  *)
HandOver ==
  /\ InspectDump
  /\ engine' = IF backup'.ok THEN Lookup(backup'.engine) ELSE engine
  /\ UNCHANGED <<ctxDone, held, stuck, outcome, pc, resErr>>

ProvisionStep == stage = "provision" /\ Next /\ UNCHANGED detectVars

MainNext == Choose \/ CancelEarly \/ HandOver \/ ProvisionStep

MainSpec == MainInit /\ [][MainNext]_<<detectVars, vars>>
=============================================================================
