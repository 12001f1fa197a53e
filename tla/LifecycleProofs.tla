--------------------------- MODULE LifecycleProofs ---------------------------
(***************************************************************************)
(* Proofs about Lifecycle: the invariant is split into what the program    *)
(* counters say of the session (Control), of the mutex and the two         *)
(* readings made under it (Locking), and of what is left to remove (Boxes).*)
(* They hold for any capacity of the channel of signals.                   *)
(***************************************************************************)
EXTENDS Lifecycle, TLAPS

InUse   == {"health", "collections", "tui"}
Closing == {"close client", "close box"}
Done    == {"stop", "return", "exit"}
Fresh   == {"wait", "lock", "cancel"}

(* Where run can be for each outcome of Provision, and when the process    *)
(* may have ended.  With --keep neither goroutine goes to close anything.  *)
Control ==
  /\ runPc \in {"inspect", "provision", "prompt"} => outcome = "running"
  /\ runPc \in {"publish", "publishing", "checking"} \cup InUse \cup Closing
       => outcome = "session"
  /\ runPc = "failed" => outcome = "error"
  /\ keep => runPc \notin Closing /\ sigPc \notin Closing
  /\ ~listening <=> runPc \in {"return", "exit"}
  /\ exit # "none" => ~listening \/ sigPc = "exit"

(* Who holds the mutex; when the session is published; who has cancelled   *)
(* the context; and what each goroutine concluded from the other's state.  *)
Locking ==
  /\ mu = "run" <=> runPc \in {"publishing", "checking"}
  /\ mu = "handler" <=> sigPc \in {"cancel", "read"}
  /\ live => runPc \notin Unpublished \ {"checking"} /\ outcome = "session"
  /\ runPc \in {"checking"} \cup InUse => live
  /\ sawLive <=> sigPc \in Closing \cup {"exit"}
  /\ sawLive => live /\ runPc # "checking"
  /\ ctxDone /\ runPc # "exit" => sigPc \notin Fresh
  /\ sigPc \in {"read", "gone"} \cup Closing \cup {"exit"} => ctxDone
  /\ interrupted => sigPc = "gone" /\ ctxDone /\ runPc \in Closing \cup Done
  /\ ctxDone /\ runPc \in InUse => sigPc # "gone"

(* Before Provision nothing exists; after a close nothing is left but what *)
(* its removal left; after an error of Provision neither.                  *)
Boxes ==
  /\ outcome = "running" /\ runPc \notin {"provision", "prompt"} => held = {}
  /\ outcome = "error" => held \subseteq stuck
  /\ outcome = "session" /\ ~keep /\ runPc \in Done => held \cap Box \subseteq stuck
  /\ ~keep /\ sigPc = "exit" => held \cap Box \subseteq stuck

IndInv == TypeOK /\ Control /\ Locking /\ Boxes

(* Close of the client only shrinks what is held.                          *)
LEMMA CloseClientType ==
  ASSUME TypeOK, CloseClient
  PROVE  held' \in SUBSET Contract!Resources /\ UNCHANGED <<stuck, outcome>>
BY DEF TypeOK, Contract!TypeOK, CloseClient

(* `rm -f' only shrinks what is held, and blames only what was there.      *)
LEMMA RemoveBoxType ==
  ASSUME TypeOK, RemoveBox
  PROVE  held' \in SUBSET Contract!Resources /\ stuck' \in SUBSET Contract!Resources
BY DEF TypeOK, Contract!TypeOK, RemoveBox

(* Every variable keeps its type.                                          *)
LEMMA TypeStep == TypeOK /\ [Next]_vars => TypeOK'
<1> SUFFICES ASSUME TypeOK, [Next]_vars PROVE TypeOK'
  OBVIOUS
<1> USE DEF Contract!TypeOK
<1>0. TypeOK
  OBVIOUS
<1>1. Next \/ UNCHANGED vars
  OBVIOUS
<1>2. CASE Inspect
  <2>1. CASE RunGoes("inspect", "provision")
    BY <1>0, <1>2, <2>1
    DEF Inspect, RunGoes, Leave, RunStates, Alive, resources,
        flags, shared, handler, TypeOK
  <2>2. CASE Leave("inspect", "1")
    BY <1>0, <1>2, <2>2
    DEF Inspect, RunGoes, Leave, RunStates, Alive, resources,
        flags, shared, handler, TypeOK
  <2>3. QED
    BY <1>2, <2>1, <2>2 DEF Inspect
<1>3. CASE Provision
  <2>1. CASE Contract!Work /\ RunGoes("provision", "provision")
    BY <1>0, <1>3, <2>1
    DEF Provision, RunGoes, Contract!Work, Contract!Succeed,
        Contract!Fail, RunStates, Contract!Outcomes, Alive, flags,
        handler, ending, TypeOK
  <2>2. CASE Contract!Succeed /\ RunGoes("provision", "publish")
    BY <1>0, <1>3, <2>2
    DEF Provision, RunGoes, Contract!Work, Contract!Succeed,
        Contract!Fail, RunStates, Contract!Outcomes, Alive, flags,
        handler, ending, TypeOK
  <2>3. CASE Contract!Fail /\ RunGoes("provision", "failed")
    BY <1>0, <1>3, <2>3
    DEF Provision, RunGoes, Contract!Work, Contract!Succeed,
        Contract!Fail, RunStates, Contract!Outcomes, Alive, flags,
        handler, ending, TypeOK
  <2>4. QED
    BY <1>3, <2>1, <2>2, <2>3 DEF Provision
<1>4. CASE InterruptedErr
  BY <1>0, <1>4
  DEF InterruptedErr, FailureCode, RunGoes, Leave, RunStates, Alive,
      resources, flags, shared, handler, TypeOK
<1>5. CASE PublishLock
  BY <1>0, <1>5
  DEF PublishLock, Lock, RunGoes, RunStates, Alive, resources, flags,
      handler, ending, TypeOK
<1>6. CASE PublishLive
  BY <1>0, <1>6
  DEF PublishLive, RunGoes, RunStates, Alive, resources, flags,
      handler, ending, TypeOK
<1>7. CASE PublishCheck
  BY <1>0, <1>7
  DEF PublishCheck, Unlock, RunGoes, Leave, RunStates, Alive, resources,
      flags, handler, TypeOK
<1>8. CASE Health
  BY <1>0, <1>8
  DEF Health, Query, RunGoes, Leave, RunStates, Alive, resources,
      flags, shared, handler, TypeOK
<1>9. CASE Collections
  BY <1>0, <1>9
  DEF Collections, Query, RunGoes, Leave, RunStates, Alive,
      resources, flags, shared, handler, TypeOK
<1>10. CASE RunCloses
  <2>1. CASE RunGoes("close client", "close box") /\ CloseClient
    <3>1. held' \in SUBSET Contract!Resources /\ UNCHANGED <<stuck, outcome>>
      BY <1>0, <2>1, CloseClientType
    <3>2. QED
      BY <1>0, <1>10, <2>1, <3>1
      DEF RunCloses, RunGoes, RunStates, Alive, flags, shared,
          handler, ending, TypeOK
  <2>2. CASE RunGoes("close box", "stop") /\ RemoveBox
    <3>1. held' \in SUBSET Contract!Resources /\ stuck' \in SUBSET Contract!Resources
      BY <1>0, <2>2, RemoveBoxType
    <3>2. outcome' = outcome
      BY <2>2 DEF RemoveBox
    <3>3. runPc' \in RunStates
      BY <2>2 DEF RunGoes, RunStates
    <3>4. QED
      BY <1>0, <1>10, <2>2, <3>1, <3>2, <3>3
      DEF RunCloses, RunGoes, Alive, flags, shared, handler, ending,
          TypeOK
  <2>3. QED
    BY <1>10, <2>1, <2>2 DEF RunCloses
<1>11. CASE RunStops
  <2>1. CASE runPc = "stop"
    BY <1>0, <1>11, <2>1
    DEF RunStops, RunGoes, RunStates, Alive, resources, flags,
        handler, TypeOK
  <2>2. CASE runPc = "return"
    BY <1>0, <1>11, <2>2
    DEF RunStops, RunGoes, RunStates, Alive, resources, flags,
        handler, TypeOK
  <2>3. CASE runPc = "exit"
    BY <1>0, <1>11, <2>3
    DEF RunStops, RunGoes, RunStates, Alive, resources, flags,
        handler, TypeOK
  <2>4. QED
    BY <1>11, <2>1, <2>2, <2>3 DEF RunStops, RunGoes
<1>12. CASE HandlerWakes
  <2>1. CASE SigGoes("wait", "lock") /\ pending > 0 /\ pending' = pending - 1
    <3>1. pending' \in 0 .. SigBuffer
      BY <1>0, <2>1, SigBufferAssumption DEF TypeOK
    <3>2. QED
      BY <1>0, <1>12, <2>1, <3>1
      DEF HandlerWakes, SigGoes, SigStates, Alive, resources, flags,
          shared, ending, TypeOK
  <2>2. CASE SigGoes("wait", "gone") /\ UNCHANGED pending
    BY <1>0, <1>12, <2>2
    DEF HandlerWakes, SigGoes, SigStates, Alive, resources, flags,
        shared, ending, TypeOK
  <2>3. QED
    BY <1>12, <2>1, <2>2 DEF HandlerWakes
<1>13. CASE HandlerLock
  BY <1>0, <1>13
  DEF HandlerLock, Lock, SigGoes, SigStates, Alive, resources, flags,
      handler, ending, TypeOK
<1>14. CASE HandlerCancels
  BY <1>0, <1>14
  DEF HandlerCancels, SigGoes, SigStates, Alive, resources,
      flags, ending, TypeOK
<1>15. CASE HandlerReads
  BY <1>0, <1>15
  DEF HandlerReads, Unlock, SigGoes, SigStates, Alive, resources, flags,
      ending, TypeOK
<1>16. CASE HandlerCloses
  <2>1. CASE SigGoes("close client", "close box") /\ CloseClient
    <3>1. held' \in SUBSET Contract!Resources /\ UNCHANGED <<stuck, outcome>>
      BY <1>0, <2>1, CloseClientType
    <3>2. QED
      BY <1>0, <1>16, <2>1, <3>1
      DEF HandlerCloses, SigGoes, SigStates, Alive, flags, shared,
          ending, TypeOK
  <2>2. CASE SigGoes("close box", "exit") /\ RemoveBox
    <3>1. held' \in SUBSET Contract!Resources /\ stuck' \in SUBSET Contract!Resources
      BY <1>0, <2>2, RemoveBoxType
    <3>2. outcome' = outcome
      BY <2>2 DEF RemoveBox
    <3>3. sigPc' \in SigStates
      BY <2>2 DEF SigGoes, SigStates
    <3>4. QED
      BY <1>0, <1>16, <2>2, <3>1, <3>2, <3>3
      DEF HandlerCloses, SigGoes, Alive, flags, shared, ending,
          TypeOK
  <2>3. QED
    BY <1>16, <2>1, <2>2 DEF HandlerCloses
<1>17. CASE HandlerExits
  BY <1>0, <1>17
  DEF HandlerExits, SigStates, Alive, resources, flags, shared,
      handler, TypeOK
<1>18. CASE RecentStarts
  BY <1>0, <1>18
  DEF RecentStarts, Alive, resources, flags, shared, handler,
      ending, TypeOK
<1>19. CASE RecentEnds
  BY <1>0, <1>19
  DEF RecentEnds, Alive, resources, flags, shared, handler,
      ending, TypeOK
<1>20. CASE TuiEnds
  BY <1>0, <1>20
  DEF TuiEnds, RunGoes, Leave, RunStates, Alive, resources,
      flags, shared, handler, TypeOK
<1>21. CASE Signal
  <2>1. CASE listening
    <3>1. pending' \in 0 .. SigBuffer
      BY <1>0, <1>21, <2>1, SigBufferAssumption DEF TypeOK, Signal, Queue
    <3>2. QED
      BY <1>0, <1>21, <2>1, <3>1
      DEF Signal, Queue, Alive, resources, flags, shared, TypeOK
  <2>2. CASE ~listening
    BY <1>0, <1>21, <2>2
    DEF Signal, Queue, Alive, resources, flags, shared, TypeOK
  <2>3. QED
    BY <1>21, <2>1, <2>2 DEF Signal, Queue
<1>22. CASE Ask
  BY <1>0, <1>22
  DEF Ask, RunGoes, RunStates, Alive, resources, flags, shared, handler,
      ending, TypeOK
<1>23. CASE OperatorAnswers
  BY <1>0, <1>23
  DEF OperatorAnswers, RunGoes, RunStates, Alive, resources, flags, shared, handler,
      ending, TypeOK
<1>24. CASE UNCHANGED vars
  BY <1>0, <1>24
  DEF vars, resources, flags, shared, handler, ending, TypeOK
<1>25. QED
  BY <1>1, <1>2, <1>3, <1>4, <1>5, <1>6, <1>7, <1>8, <1>9, <1>10,
     <1>11, <1>12, <1>13, <1>14, <1>15, <1>16, <1>17, <1>18,
     <1>19, <1>20, <1>21, <1>22, <1>23, <1>24
  DEF Next, Run, Handler

(* The control states stay consistent.                                     *)
LEMMA ControlStep == TypeOK /\ Control /\ [Next]_vars => Control'
<1> SUFFICES ASSUME TypeOK, Control, [Next]_vars PROVE Control'
  OBVIOUS
<1> USE DEF InUse, Closing
<1>0. TypeOK /\ Control
  OBVIOUS
<1>1. Next \/ UNCHANGED vars
  OBVIOUS
<1>2. CASE Inspect
  BY <1>0, <1>2
  DEF Inspect, RunGoes, Leave, Alive, resources, flags, shared,
      handler, Control, TypeOK
<1>3. CASE Provision
  BY <1>0, <1>3
  DEF Provision, RunGoes, Contract!Work, Contract!Succeed,
      Contract!Fail, Alive, flags, handler, ending, Control,
      TypeOK
<1>4. CASE InterruptedErr
  BY <1>0, <1>4
  DEF InterruptedErr, FailureCode, RunGoes, Leave, Alive, resources, flags,
      shared, handler, Control, TypeOK
<1>5. CASE PublishLock
  BY <1>0, <1>5
  DEF PublishLock, Lock, RunGoes, Alive, resources, flags, handler,
      ending, Control, TypeOK
<1>6. CASE PublishLive
  BY <1>0, <1>6
  DEF PublishLive, RunGoes, Alive, resources, flags, handler,
      ending, Control, TypeOK
<1>7. CASE PublishCheck
  BY <1>0, <1>7
  DEF PublishCheck, Unlock, RunGoes, Leave, Alive, resources, flags,
      handler, Control, TypeOK
<1>8. CASE Health
  BY <1>0, <1>8
  DEF Health, Query, RunGoes, Leave, Alive, resources, flags,
      shared, handler, Control, TypeOK
<1>9. CASE Collections
  BY <1>0, <1>9
  DEF Collections, Query, RunGoes, Leave, Alive, resources,
      flags, shared, handler, Control, TypeOK
<1>10. CASE RunCloses
  BY <1>0, <1>10
  DEF RunCloses, RunGoes, CloseClient, RemoveBox, Alive, flags,
      shared, handler, ending, Control, TypeOK
<1>11. CASE RunStops
  <2>1. CASE runPc = "stop"
    BY <1>0, <1>11, <2>1
    DEF RunStops, RunGoes, Alive, resources, flags, handler,
        Control, TypeOK
  <2>2. CASE runPc = "return"
    <3>1. runPc' = "exit" /\ UNCHANGED <<outcome, keep, sigPc, listening, exit>>
      BY <1>11, <2>2 DEF RunStops, RunGoes, Alive, resources, flags, handler
    <3>2. ~listening
      BY <1>0, <2>2 DEF Control
    <3>3. QED
      BY <1>0, <2>2, <3>1, <3>2 DEF Control
  <2>3. CASE runPc = "exit"
    <3>1. UNCHANGED <<runPc, outcome, keep, sigPc, listening>>
      BY <1>11, <2>3 DEF RunStops, RunGoes, Alive, resources, flags, handler, ending
    <3>2. ~listening
      BY <1>0, <2>3 DEF Control
    <3>3. QED
      BY <1>0, <2>3, <3>1, <3>2 DEF Control
  <2>4. QED
    BY <1>11, <2>1, <2>2, <2>3 DEF RunStops, RunGoes
<1>12. CASE HandlerWakes
  BY <1>0, <1>12
  DEF HandlerWakes, SigGoes, Alive, resources, flags, shared,
      ending, Control, TypeOK
<1>13. CASE HandlerLock
  BY <1>0, <1>13
  DEF HandlerLock, Lock, SigGoes, Alive, resources, flags, handler,
      ending, Control, TypeOK
<1>14. CASE HandlerCancels
  BY <1>0, <1>14
  DEF HandlerCancels, SigGoes, Alive, resources, flags, ending,
      Control, TypeOK
<1>15. CASE HandlerReads
  BY <1>0, <1>15
  DEF HandlerReads, Unlock, SigGoes, Alive, resources, flags, ending,
      Control, TypeOK
<1>16. CASE HandlerCloses
  BY <1>0, <1>16
  DEF HandlerCloses, SigGoes, CloseClient, RemoveBox, Alive,
      flags, shared, ending, Control, TypeOK
<1>17. CASE HandlerExits
  BY <1>0, <1>17
  DEF HandlerExits, Alive, resources, flags, shared, handler,
      Control, TypeOK
<1>18. CASE RecentStarts
  BY <1>0, <1>18
  DEF RecentStarts, Alive, resources, flags, shared, handler,
      ending, Control, TypeOK
<1>19. CASE RecentEnds
  BY <1>0, <1>19
  DEF RecentEnds, Alive, resources, flags, shared, handler,
      ending, Control, TypeOK
<1>20. CASE TuiEnds
  BY <1>0, <1>20
  DEF TuiEnds, RunGoes, Leave, Alive, resources, flags, shared,
      handler, Control, TypeOK
<1>21. CASE Signal
  BY <1>0, <1>21
  DEF Signal, Queue, Alive, resources, flags, shared, Control, TypeOK
<1>22. CASE Ask
  BY <1>0, <1>22
  DEF Ask, RunGoes, Alive, resources, flags, shared, handler,
      ending, Control, TypeOK
<1>23. CASE OperatorAnswers
  BY <1>0, <1>23
  DEF OperatorAnswers, RunGoes, Alive, resources, flags, shared, handler,
      ending, Control, TypeOK
<1>24. CASE UNCHANGED vars
  BY <1>0, <1>24
  DEF vars, resources, flags, shared, handler, ending, Control, TypeOK
<1>25. QED
  BY <1>1, <1>2, <1>3, <1>4, <1>5, <1>6, <1>7, <1>8, <1>9, <1>10,
     <1>11, <1>12, <1>13, <1>14, <1>15, <1>16, <1>17, <1>18,
     <1>19, <1>20, <1>21, <1>22, <1>23, <1>24
  DEF Next, Run, Handler

(* The mutex keeps the two readings apart.                                 *)
LEMMA LockingStep ==
  TypeOK /\ Control /\ Locking /\ [Next]_vars => Locking'
<1> SUFFICES ASSUME TypeOK, Control, Locking, [Next]_vars PROVE Locking'
  OBVIOUS
<1> USE DEF InUse, Closing, Unpublished, Done, Fresh
<1>0. TypeOK /\ Control /\ Locking
  OBVIOUS
<1>1. Next \/ UNCHANGED vars
  OBVIOUS
<1>2. CASE Inspect
  BY <1>0, <1>2
  DEF Inspect, RunGoes, Leave, Alive, resources, flags, shared,
      handler, Locking, Control, TypeOK
<1>3. CASE Provision
  <2>1. CASE Contract!Work /\ RunGoes("provision", "provision")
    BY <1>0, <1>3, <2>1
    DEF Provision, RunGoes, Contract!Work, Contract!Succeed,
        Contract!Fail, Alive, flags, handler, ending, Locking,
        Control, TypeOK
  <2>2. CASE Contract!Succeed /\ RunGoes("provision", "publish")
    BY <1>0, <1>3, <2>2
    DEF Provision, RunGoes, Contract!Work, Contract!Succeed,
        Contract!Fail, Alive, flags, handler, ending, Locking,
        Control, TypeOK
  <2>3. CASE Contract!Fail /\ RunGoes("provision", "failed")
    BY <1>0, <1>3, <2>3
    DEF Provision, RunGoes, Contract!Work, Contract!Succeed,
        Contract!Fail, Alive, flags, handler, ending, Locking,
        Control, TypeOK
  <2>4. QED
    BY <1>3, <2>1, <2>2, <2>3 DEF Provision
<1>4. CASE InterruptedErr
  BY <1>0, <1>4
  DEF InterruptedErr, FailureCode, RunGoes, Leave, Alive, resources, flags,
      shared, handler, Locking, Control, TypeOK
<1>5. CASE PublishLock
  BY <1>0, <1>5
  DEF PublishLock, Lock, RunGoes, Alive, resources, flags, handler,
      ending, Locking, Control, TypeOK
<1>6. CASE PublishLive
  BY <1>0, <1>6
  DEF PublishLive, RunGoes, Alive, resources, flags, handler,
      ending, Locking, Control, TypeOK
<1>7. CASE PublishCheck
  <2>1. CASE interrupted'
    <3>1. ctxDone /\ ctxDone' = ctxDone /\ mu' = "free" /\ runPc = "checking"
      BY <1>7, <2>1 DEF PublishCheck, Unlock, Leave, RunGoes
    <3>2. runPc' \in {"close client", "stop"}
      BY <1>7, <2>1 DEF PublishCheck, Unlock, Leave, RunGoes
    <3>3. UNCHANGED <<outcome, live, sawLive, sigPc>>
      BY <1>7 DEF PublishCheck, Unlock, resources, handler
    <3>4. sigPc = "gone"
      BY <1>0, <3>1 DEF Locking, TypeOK, SigStates
    <3>5. QED
      BY <1>0, <2>1, <3>1, <3>2, <3>3, <3>4 DEF Locking
  <2>2. CASE ~interrupted'
    BY <1>0, <1>7, <2>2
    DEF PublishCheck, Unlock, RunGoes, Leave, Alive, resources, flags,
        handler, Locking, Control, TypeOK
  <2>3. QED
    BY <1>7, <2>1, <2>2 DEF PublishCheck, Unlock
<1>8. CASE Health
  BY <1>0, <1>8
  DEF Health, Query, RunGoes, Leave, Alive, resources, flags,
      shared, handler, Locking, Control, TypeOK
<1>9. CASE Collections
  BY <1>0, <1>9
  DEF Collections, Query, RunGoes, Leave, Alive, resources,
      flags, shared, handler, Locking, Control, TypeOK
<1>10. CASE RunCloses
  BY <1>0, <1>10
  DEF RunCloses, RunGoes, CloseClient, RemoveBox, Alive, flags,
      shared, handler, ending, Locking, Control, TypeOK
<1>11. CASE RunStops
  <2>1. CASE runPc = "stop"
    <3>1. runPc' = "return" /\ UNCHANGED <<outcome, mu, live, sawLive, sigPc, ctxDone, interrupted>>
      BY <1>11, <2>1 DEF RunStops, RunGoes, Alive, resources, flags, handler, ending
    <3>2. QED
      BY <1>0, <2>1, <3>1 DEF Locking
  <2>2. CASE runPc = "return"
    BY <1>0, <1>11, <2>2
    DEF RunStops, RunGoes, Alive, resources, flags, handler,
        Locking, Control, TypeOK
  <2>3. CASE runPc = "exit"
    BY <1>0, <1>11, <2>3
    DEF RunStops, RunGoes, Alive, resources, flags, handler,
        Locking, Control, TypeOK
  <2>4. QED
    BY <1>11, <2>1, <2>2, <2>3 DEF RunStops, RunGoes
<1>12. CASE HandlerWakes
  BY <1>0, <1>12
  DEF HandlerWakes, SigGoes, Alive, resources, flags, shared,
      ending, Locking, Control, TypeOK
<1>13. CASE HandlerLock
  BY <1>0, <1>13
  DEF HandlerLock, Lock, SigGoes, Alive, resources, flags, handler,
      ending, Locking, Control, TypeOK
<1>14. CASE HandlerCancels
  BY <1>0, <1>14
  DEF HandlerCancels, SigGoes, Alive, resources, flags, ending,
      Locking, Control, TypeOK
<1>15. CASE HandlerReads
  BY <1>0, <1>15
  DEF HandlerReads, Unlock, SigGoes, Alive, resources, flags, ending,
      Locking, Control, TypeOK
<1>16. CASE HandlerCloses
  BY <1>0, <1>16
  DEF HandlerCloses, SigGoes, CloseClient, RemoveBox, Alive,
      flags, shared, ending, Locking, Control, TypeOK
<1>17. CASE HandlerExits
  BY <1>0, <1>17
  DEF HandlerExits, Alive, resources, flags, shared, handler,
      Locking, Control, TypeOK
<1>18. CASE RecentStarts
  BY <1>0, <1>18
  DEF RecentStarts, Alive, resources, flags, shared, handler,
      ending, Locking, Control, TypeOK
<1>19. CASE RecentEnds
  BY <1>0, <1>19
  DEF RecentEnds, Alive, resources, flags, shared, handler,
      ending, Locking, Control, TypeOK
<1>20. CASE TuiEnds
  BY <1>0, <1>20
  DEF TuiEnds, RunGoes, Leave, Alive, resources, flags, shared,
      handler, Locking, Control, TypeOK
<1>21. CASE Signal
  BY <1>0, <1>21
  DEF Signal, Queue, Alive, resources, flags, shared, Locking, Control,
      TypeOK
<1>22. CASE Ask
  BY <1>0, <1>22
  DEF Ask, RunGoes, Alive, resources, flags, shared, handler,
      ending, Locking, Control, TypeOK
<1>23. CASE OperatorAnswers
  BY <1>0, <1>23
  DEF OperatorAnswers, RunGoes, Alive, resources, flags, shared, handler,
      ending, Locking, Control, TypeOK
<1>24. CASE UNCHANGED vars
  BY <1>0, <1>24
  DEF vars, resources, flags, shared, handler, ending, Locking,
      Control, TypeOK
<1>25. QED
  BY <1>1, <1>2, <1>3, <1>4, <1>5, <1>6, <1>7, <1>8, <1>9, <1>10,
     <1>11, <1>12, <1>13, <1>14, <1>15, <1>16, <1>17, <1>18,
     <1>19, <1>20, <1>21, <1>22, <1>23, <1>24
  DEF Next, Run, Handler

(* Every way out of run or of the handler removes what there is to remove. *)
LEMMA BoxesStep == IndInv /\ [Next]_vars => Boxes'
<1> SUFFICES ASSUME IndInv, [Next]_vars PROVE Boxes'
  OBVIOUS
<1> USE DEF InUse, Closing, Done, Unpublished
<1>0. IndInv
  OBVIOUS
<1>1. Next \/ UNCHANGED vars
  OBVIOUS
<1>2. CASE Inspect
  BY <1>0, <1>2
  DEF Inspect, RunGoes, Leave, Alive, resources, flags, shared,
      handler, IndInv, Boxes, Locking, Control, TypeOK
<1>3. CASE Provision
  BY <1>0, <1>3
  DEF Provision, RunGoes, Contract!Work, Contract!Succeed,
      Contract!Fail, Alive, flags, handler, ending, IndInv,
      Boxes, Locking, Control, TypeOK
<1>4. CASE InterruptedErr
  BY <1>0, <1>4
  DEF InterruptedErr, FailureCode, RunGoes, Leave, Alive, resources, flags,
      shared, handler, IndInv, Boxes, Locking, Control, TypeOK
<1>5. CASE PublishLock
  BY <1>0, <1>5
  DEF PublishLock, Lock, RunGoes, Alive, resources, flags, handler,
      ending, IndInv, Boxes, Locking, Control, TypeOK
<1>6. CASE PublishLive
  BY <1>0, <1>6
  DEF PublishLive, RunGoes, Alive, resources, flags, handler,
      ending, IndInv, Boxes, Locking, Control, TypeOK
<1>7. CASE PublishCheck
  BY <1>0, <1>7
  DEF PublishCheck, Unlock, RunGoes, Leave, Alive, resources, flags,
      handler, IndInv, Boxes, Locking, Control, TypeOK
<1>8. CASE Health
  BY <1>0, <1>8
  DEF Health, Query, RunGoes, Leave, Alive, resources, flags,
      shared, handler, IndInv, Boxes, Locking, Control, TypeOK
<1>9. CASE Collections
  BY <1>0, <1>9
  DEF Collections, Query, RunGoes, Leave, Alive, resources,
      flags, shared, handler, IndInv, Boxes, Locking, Control,
      TypeOK
<1>10. CASE RunCloses
  BY <1>0, <1>10
  DEF RunCloses, RunGoes, CloseClient, RemoveBox, Alive, flags,
      shared, handler, ending, IndInv, Boxes, Locking, Control,
      TypeOK
<1>11. CASE RunStops
  BY <1>0, <1>11
  DEF RunStops, RunGoes, Alive, resources, flags, handler,
      IndInv, Boxes, Locking, Control, TypeOK
<1>12. CASE HandlerWakes
  BY <1>0, <1>12
  DEF HandlerWakes, SigGoes, Alive, resources, flags, shared,
      ending, IndInv, Boxes, Locking, Control, TypeOK
<1>13. CASE HandlerLock
  BY <1>0, <1>13
  DEF HandlerLock, Lock, SigGoes, Alive, resources, flags, handler,
      ending, IndInv, Boxes, Locking, Control, TypeOK
<1>14. CASE HandlerCancels
  BY <1>0, <1>14
  DEF HandlerCancels, SigGoes, Alive, resources, flags, ending,
      IndInv, Boxes, Locking, Control, TypeOK
<1>15. CASE HandlerReads
  BY <1>0, <1>15
  DEF HandlerReads, Unlock, SigGoes, Alive, resources, flags, ending,
      IndInv, Boxes, Locking, Control, TypeOK
<1>16. CASE HandlerCloses
  BY <1>0, <1>16
  DEF HandlerCloses, SigGoes, CloseClient, RemoveBox, Alive,
      flags, shared, ending, IndInv, Boxes, Locking, Control,
      TypeOK
<1>17. CASE HandlerExits
  BY <1>0, <1>17
  DEF HandlerExits, Alive, resources, flags, shared, handler,
      IndInv, Boxes, Locking, Control, TypeOK
<1>18. CASE RecentStarts
  BY <1>0, <1>18
  DEF RecentStarts, Alive, resources, flags, shared, handler,
      ending, IndInv, Boxes, Locking, Control, TypeOK
<1>19. CASE RecentEnds
  BY <1>0, <1>19
  DEF RecentEnds, Alive, resources, flags, shared, handler,
      ending, IndInv, Boxes, Locking, Control, TypeOK
<1>20. CASE TuiEnds
  BY <1>0, <1>20
  DEF TuiEnds, RunGoes, Leave, Alive, resources, flags, shared,
      handler, IndInv, Boxes, Locking, Control, TypeOK
<1>21. CASE Signal
  BY <1>0, <1>21
  DEF Signal, Queue, Alive, resources, flags, shared, IndInv, Boxes,
      Locking, Control, TypeOK
<1>22. CASE Ask
  BY <1>0, <1>22
  DEF Ask, RunGoes, Alive, resources, flags, shared, handler,
      ending, IndInv, Boxes, Locking, Control, TypeOK
<1>23. CASE OperatorAnswers
  BY <1>0, <1>23
  DEF OperatorAnswers, RunGoes, Alive, resources, flags, shared, handler,
      ending, IndInv, Boxes, Locking, Control, TypeOK
<1>24. CASE UNCHANGED vars
  BY <1>0, <1>24
  DEF vars, resources, flags, shared, handler, ending, IndInv, Boxes,
      Locking, Control, TypeOK
<1>25. QED
  BY <1>1, <1>2, <1>3, <1>4, <1>5, <1>6, <1>7, <1>8, <1>9, <1>10,
     <1>11, <1>12, <1>13, <1>14, <1>15, <1>16, <1>17, <1>18,
     <1>19, <1>20, <1>21, <1>22, <1>23, <1>24
  DEF Next, Run, Handler

(* The invariant of every reachable state.                                 *)
THEOREM InvHolds == Spec => []IndInv
<1>1. ASSUME Init PROVE IndInv
  <2>1. TypeOK
    <3>1. pending \in 0 .. SigBuffer
      BY <1>1, SigBufferAssumption DEF Init
    <3>2. Contract!TypeOK
      BY <1>1 DEF Init, Contract!Init, Contract!TypeOK, Contract!Outcomes
    <3>3. runPc \in RunStates /\ sigPc \in SigStates
      BY <1>1 DEF Init, RunStates, SigStates
    <3>4. QED
      BY <1>1, <3>1, <3>2, <3>3 DEF Init, TypeOK
  <2>2. Control
    BY <1>1 DEF Init, Control, Contract!Init, InUse, Closing
  <2>3. Locking
    BY <1>1 DEF Init, Locking, Contract!Init, InUse, Closing, Unpublished, Fresh
  <2>4. Boxes
    BY <1>1 DEF Init, Boxes, Contract!Init, Done
  <2>5. QED
    BY <2>1, <2>2, <2>3, <2>4 DEF IndInv
<1>2. IndInv /\ [Next]_vars => IndInv'
  BY TypeStep, ControlStep, LockingStep, BoxesStep DEF IndInv
<1>3. QED
  BY <1>1, <1>2, PTL DEF Spec

(* The state of main.run stays in its types.                               *)
THEOREM TypeCorrect == Spec => []TypeOK
<1>1. IndInv => TypeOK
  BY DEF IndInv
<1>2. QED
  BY <1>1, InvHolds, PTL

(* main.go:122-124: a signal at the end of Provision leaves the session to *)
(* exactly one of the two goroutines.                                      *)
THEOREM OneOwner == Spec => []SignalHasOneOwner
<1>1. IndInv => SignalHasOneOwner
  BY DEF IndInv, Locking, SignalHasOneOwner, InUse, Closing
<1>2. QED
  BY <1>1, InvHolds, PTL

(* README.md:47: no container outlives the process without --keep.         *)
THEOREM CleanExit == Spec => []NothingLeftBehind
<1>1. IndInv => NothingLeftBehind
  <2> SUFFICES ASSUME IndInv, exit # "none", ~keep
               PROVE  held \cap Box \subseteq stuck
    BY DEF NothingLeftBehind
  <2>1. CASE sigPc = "exit"
    BY <2>1 DEF IndInv, Boxes
  <2>2. CASE runPc \in {"return", "exit"}
    BY <2>2 DEF IndInv, Boxes, Control, TypeOK, Contract!TypeOK,
                Contract!Outcomes, Done
  <2>3. QED
    BY <2>1, <2>2 DEF IndInv, Control
<1>2. QED
  BY <1>1, InvHolds, PTL

(* README.md:41: with --keep a session loses nothing it was handed over    *)
(* with.                                                                   *)
THEOREM KeepWorks == Spec => KeepIsHonoured
<1>1. IndInv /\ [Next]_vars => (outcome = "session" /\ keep => held' = held)
  <2> SUFFICES ASSUME IndInv, [Next]_vars, outcome = "session", keep
               PROVE  held' = held
    OBVIOUS
  <2>1. runPc \notin Closing \cup {"provision"} /\ sigPc \notin Closing
    BY DEF IndInv, Control
  <2>2. ~Provision /\ ~RunCloses /\ ~HandlerCloses
    BY <2>1 DEF Provision, RunCloses, HandlerCloses, RunGoes, SigGoes, Closing
  <2>3. QED
    BY <2>2
    DEF Next, Run, Handler, vars, resources, Inspect, InterruptedErr,
        Ask, OperatorAnswers, PublishLock, PublishLive, PublishCheck, Health,
        Collections, Query, RunStops, HandlerWakes, HandlerLock, HandlerCancels, HandlerReads,
        HandlerExits, RecentStarts, RecentEnds, TuiEnds, Signal
<1>2. QED
  BY <1>1, InvHolds, PTL DEF Spec, KeepIsHonoured

(* A run that was interrupted early, from then on: it has not published    *)
(* yet and will see the dead context, or it has settled for 130, or for    *)
(* the error of an inspection.                                             *)
Settled == code = "130" \/ (code = "1" /\ outcome = "running")

Doomed ==
  /\ ctxDone /\ sigPc = "gone"
  /\ runPc \in Unpublished \/ (runPc \in Closing \cup Done /\ Settled)
  /\ exit # "0" /\ (exit = "1" => outcome = "running")

(* A doomed run stays doomed.                                              *)
LEMMA DoomedStep == IndInv /\ Doomed /\ [Next]_vars => Doomed'
<1> SUFFICES ASSUME IndInv, Doomed, [Next]_vars PROVE Doomed'
  OBVIOUS
<1> USE DEF Closing, Done, Unpublished, InUse, Settled
<1>0. Doomed
  OBVIOUS
<1>1. Next \/ UNCHANGED vars
  OBVIOUS
<1>2. CASE Inspect
  <2>1. runPc = "inspect" => outcome = "running"
    BY DEF IndInv, Control
  <2>2. QED
    BY <1>0, <1>2, <2>1
    DEF Inspect, RunGoes, Leave, Alive, resources, flags, shared,
        handler, Doomed
<1>3. CASE Provision
  BY <1>0, <1>3
  DEF Provision, RunGoes, Contract!Work, Contract!Succeed,
      Contract!Fail, Alive, flags, handler, ending, Doomed
<1>4. CASE InterruptedErr
  BY <1>0, <1>4
  DEF InterruptedErr, FailureCode, RunGoes, Leave, Alive, resources, flags,
      shared, handler, Doomed
<1>5. CASE PublishLock
  BY <1>0, <1>5
  DEF PublishLock, Lock, RunGoes, Alive, resources, flags, handler,
      ending, Doomed
<1>6. CASE PublishLive
  BY <1>0, <1>6
  DEF PublishLive, RunGoes, Alive, resources, flags, handler,
      ending, Doomed
<1>7. CASE PublishCheck
  BY <1>0, <1>7
  DEF PublishCheck, Unlock, RunGoes, Leave, Alive, resources, flags,
      handler, Doomed
<1>8. CASE Health
  BY <1>0, <1>8
  DEF Health, Query, RunGoes, Leave, Alive, resources, flags,
      shared, handler, Doomed
<1>9. CASE Collections
  BY <1>0, <1>9
  DEF Collections, Query, RunGoes, Leave, Alive, resources,
      flags, shared, handler, Doomed
<1>10. CASE RunCloses
  BY <1>0, <1>10
  DEF RunCloses, RunGoes, CloseClient, RemoveBox, Alive, flags,
      shared, handler, ending, Doomed
<1>11. CASE RunStops
  BY <1>0, <1>11
  DEF RunStops, RunGoes, Alive, resources, flags, handler,
      Doomed
<1>12. CASE HandlerWakes
  BY <1>0, <1>12
  DEF HandlerWakes, SigGoes, Alive, resources, flags, shared,
      ending, Doomed
<1>13. CASE HandlerLock
  BY <1>0, <1>13
  DEF HandlerLock, Lock, SigGoes, Alive, resources, flags, handler,
      ending, Doomed
<1>14. CASE HandlerCancels
  BY <1>0, <1>14
  DEF HandlerCancels, SigGoes, Alive, resources, flags, ending,
      Doomed
<1>15. CASE HandlerReads
  BY <1>0, <1>15
  DEF HandlerReads, Unlock, SigGoes, Alive, resources, flags, ending,
      Doomed
<1>16. CASE HandlerCloses
  BY <1>0, <1>16
  DEF HandlerCloses, SigGoes, CloseClient, RemoveBox, Alive,
      flags, shared, ending, Doomed
<1>17. CASE HandlerExits
  BY <1>0, <1>17
  DEF HandlerExits, Alive, resources, flags, shared, handler,
      Doomed
<1>18. CASE RecentStarts
  BY <1>0, <1>18
  DEF RecentStarts, Alive, resources, flags, shared, handler,
      ending, Doomed
<1>19. CASE RecentEnds
  BY <1>0, <1>19
  DEF RecentEnds, Alive, resources, flags, shared, handler,
      ending, Doomed
<1>20. CASE TuiEnds
  BY <1>0, <1>20
  DEF TuiEnds, RunGoes, Leave, Alive, resources, flags, shared,
      handler, Doomed
<1>21. CASE Signal
  BY <1>0, <1>21
  DEF Signal, Queue, Alive, resources, flags, shared, Doomed
<1>22. CASE Ask
  BY <1>0, <1>22
  DEF Ask, RunGoes, Alive, resources, flags, shared, handler,
      ending, Doomed
<1>23. CASE OperatorAnswers
  BY <1>0, <1>23
  DEF OperatorAnswers, RunGoes, Alive, resources, flags, shared, handler,
      ending, Doomed
<1>24. CASE UNCHANGED vars
  BY <1>0, <1>24
  DEF vars, resources, flags, shared, handler, ending, Doomed
<1>25. QED
  BY <1>1, <1>2, <1>3, <1>4, <1>5, <1>6, <1>7, <1>8, <1>9, <1>10,
     <1>11, <1>12, <1>13, <1>14, <1>15, <1>16, <1>17, <1>18,
     <1>19, <1>20, <1>21, <1>22, <1>23, <1>24
  DEF Next, Run, Handler

(* main.go:101-109, 209-217: an interruption before the session is         *)
(* published never ends the process as a success, and with the plain error *)
(* of an inspection only.                                                  *)
THEOREM InterruptsReported == Spec => InterruptIsReported
<1> DEFINE Interrupted == sigPc = "gone" /\ runPc \in Unpublished
           Reported    == exit # "0" /\ (exit = "1" => outcome = "running")
<1>1. IndInv /\ Interrupted => Doomed
  BY DEF IndInv, Locking, Control, TypeOK, Doomed, Unpublished
<1>2. Doomed => Reported
  BY DEF Doomed
<1>3. IndInv /\ Doomed /\ [Next]_vars => Doomed'
  BY DoomedStep
<1>4. Spec => [](Interrupted => []Reported)
  BY <1>1, <1>2, <1>3, InvHolds, PTL DEF Spec
<1>5. QED
  BY <1>4 DEF InterruptIsReported
==============================================================================
