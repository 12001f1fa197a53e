--------------------------- MODULE PortRetryProofs ---------------------------
(***************************************************************************)
(* Proofs about PortRetry, for any number of retries, any first port, any  *)
(* set of host ports and of other containers: what StartWithPortRetry      *)
(* leaves behind, what it removes of others, and that the port it freed is *)
(* tried again.                                                            *)
(***************************************************************************)
EXTENDS PortRetry, FiniteSetTheorems, TLAPS

Typed == TypeOK /\ IsFiniteSet(listed)

(* Outside the instant between a failed attempt and its clean-up, nothing  *)
(* of ours is left, unless the start succeeded or a removal failed.        *)
OwnGone == pc # "remove" /\ result # "ok" => own = "absent" \/ stuck

(* Where each cycle stands, and that there are at most two.                *)
Cycle ==
  /\ pc = "preflight" => i = 0 /\ ~extra
  /\ pc \in {"check", "attempt", "remove"} => i < MaxRetries /\ port = first + i
  /\ pc \in {"list", "prompt"} => ~extra
  /\ result # "none" => pc = "done"
  /\ extra /\ result = "no free port" => port = first + MaxRetries

(* One container of another owner is removed when the second cycle starts. *)
OneKilled ==
  /\ ~extra => killed = {}
  /\ extra => \E c \in Others : killed = {c}

(* In the second cycle, a port of the removed container that is occupied   *)
(* again, or was tried in vain, has been taken by somebody since.          *)
Reused ==
  /\ PortsExclusive
  /\ extra => \A p \in released :
       \/ Occupied(p)
       \/ p \in first .. port - 1
       \/ p = port /\ pc = "remove" /\ attemptErr = "conflict"
       => p \in regrabbed

IndInv == Typed /\ OwnGone /\ Cycle /\ OneKilled /\ Reused

(* The window of a cycle ends before its next port.                        *)
LEMMA WindowEnd ==
  ASSUME NEW a \in Nat, NEW n \in Nat, NEW b, b = a + n
  PROVE  a .. a + n - 1 = a .. b - 1
OBVIOUS

(* The first attempt of a cycle is at the first port of its window.        *)
LEMMA PlusZero == ASSUME NEW a \in Nat PROVE a = a + 0
OBVIOUS

(* FreePortFrom yields ports.                                              *)
LEMMA FreePortFromType == FreePortFrom \subseteq Nat
BY PortRetryAssumption DEF FreePortFrom, FreePorts

(* Every variable keeps its type.                                          *)
LEMMA TypedStep == Typed /\ Cycle /\ [Next]_vars => Typed'
<1> SUFFICES ASSUME Typed, Cycle, [Next]_vars PROVE Typed'
  OBVIOUS
<1>0. Typed /\ Cycle
  OBVIOUS
<1>1. Next \/ UNCHANGED vars
  OBVIOUS
<1>2. CASE Preflight
  <2>1. first' \in Nat /\ port' \in Nat
    BY <1>0, <1>2, PortRetryAssumption, FreePortFromType
    DEF Preflight, Typed, TypeOK
  <2>2. pc' \in {"check", "done"} /\ result' \in Results
    BY <1>0, <1>2 DEF Preflight, Return, Results, Typed, TypeOK
  <2>3. QED
    BY <1>0, <1>2, <2>1, <2>2 DEF Preflight, host, past, Typed, TypeOK
<1>3. CASE CheckContext
  <2>1. pc' \in {"attempt", "done"} /\ result' \in Results
    BY <1>0, <1>3 DEF CheckContext, Return, Results, Typed, TypeOK
  <2>2. own' \in {"absent", "created", "running"} /\ stuck' \in BOOLEAN
    BY <1>0, <1>3 DEF CheckContext, RemoveOwn, Typed, TypeOK
  <2>3. QED
    BY <1>0, <1>3, <2>1, <2>2 DEF CheckContext, past, Typed, TypeOK
<1>4. CASE AttemptSucceeds
  <2>1. pc' = "done" /\ result' \in Results
    BY <1>4 DEF AttemptSucceeds, Return, Results
  <2>2. QED
    BY <1>0, <1>4, <2>1 DEF AttemptSucceeds, past, Typed, TypeOK
<1>5. CASE AttemptFails
  BY <1>0, <1>5 DEF AttemptFails, past, Typed, TypeOK
<1>6. CASE AfterFailure
  <2>1. pc' \in {"check", "list", "done"} /\ result' \in Results
    BY <1>0, <1>6 DEF AfterFailure, NextPort, Return, Results, Typed, TypeOK
  <2>2. own' \in {"absent", "created", "running"} /\ stuck' \in BOOLEAN
    BY <1>0, <1>6 DEF AfterFailure, NextPort, RemoveOwn, Typed, TypeOK
  <2>3. port' \in Nat /\ i' \in 0 .. MaxRetries
    <3>1. i \in 0 .. MaxRetries /\ i < MaxRetries /\ port \in Nat
      BY <1>0, <1>6 DEF AfterFailure, NextPort, Cycle, Typed, TypeOK
    <3>2. (port' = port /\ i' = i) \/ (port' = port + 1 /\ i' = i + 1)
      BY <1>6 DEF AfterFailure, NextPort
    <3>3. QED
      BY <3>1, <3>2, PortRetryAssumption
  <2>4. QED
    BY <1>0, <1>6, <2>1, <2>2, <2>3 DEF AfterFailure, NextPort, past, Typed, TypeOK
<1>7. CASE ListPort
  <2>1. pc' \in {"list", "prompt", "done"} /\ result' \in Results
    BY <1>0, <1>7 DEF ListPort, PsFails, Shows, Asked, Return, Results, Typed, TypeOK
  <2>2. listed' \subseteq Nat /\ IsFiniteSet(listed')
    <3>1. first + Cardinality(listed) \in Nat
      BY <1>0, FS_CardinalityType DEF Typed, TypeOK
    <3>2. listed' = listed \/ listed' = listed \cup {first + Cardinality(listed)}
      BY <1>7 DEF ListPort, PsFails, Shows, Asked
    <3>3. QED
      BY <1>0, <3>1, <3>2, FS_AddElement DEF Typed, TypeOK
  <2>3. seen' \subseteq Others
    BY <1>0, <1>7 DEF ListPort, PsFails, Shows, Asked, Typed, TypeOK
  <2>4. QED
    BY <1>0, <1>7, <2>1, <2>2, <2>3 DEF ListPort, PsFails, Shows, Asked, host, past, Typed, TypeOK
<1>8. CASE AnswerNone
  <2>1. pc' = "done" /\ result' \in Results
    BY <1>8 DEF AnswerNone, Return, Results
  <2>2. QED
    BY <1>0, <1>8, <2>1 DEF AnswerNone, host, past, Typed, TypeOK
<1>9. ASSUME NEW c \in Others, AnswerFree(c) PROVE Typed'
  <2>1. pc' \in {"check", "done"} /\ result' \in Results
    BY <1>0, <1>9 DEF AnswerFree, SecondCycle, Return, Results, Typed, TypeOK
  <2>2. port' \in Nat /\ i' \in 0 .. MaxRetries /\ extra' \in BOOLEAN
    <3>1. /\ first \in Nat /\ port \in Nat
          /\ i \in 0 .. MaxRetries /\ extra \in BOOLEAN
      BY <1>0 DEF Typed, TypeOK
    <3>2. \/ port' = port /\ i' = i /\ extra' = extra
          \/ port' = first /\ i' = 0 /\ extra' = TRUE
      BY <1>9 DEF AnswerFree, SecondCycle
    <3>3. 0 \in 0 .. MaxRetries
      BY PortRetryAssumption
    <3>4. QED
      BY <3>1, <3>2, <3>3
  <2>3. pub' \in [Others -> SUBSET HostPorts]
    BY <1>0, <1>9 DEF AnswerFree, SecondCycle, Typed, TypeOK
  <2>4. killed' \subseteq Others /\ released' \subseteq HostPorts
        /\ regrabbed' \subseteq HostPorts
    BY <1>0, <1>9 DEF AnswerFree, SecondCycle, past, Typed, TypeOK
  <2>5. listed' \subseteq Nat /\ seen' \subseteq Others /\ IsFiniteSet(listed')
    BY <1>0, <1>9, FS_EmptySet DEF AnswerFree, Typed, TypeOK
  <2>6. result' \in Results /\ UNCHANGED <<first, attemptErr, ctxDone, own, stuck, taken>>
    BY <1>0, <1>9 DEF AnswerFree, Return, Results, Typed, TypeOK
  <2>7. QED
    BY <1>0, <2>1, <2>2, <2>3, <2>4, <2>5, <2>6 DEF Typed, TypeOK
<1>10. CASE Cancel
  BY <1>0, <1>10 DEF Cancel, code, host, past, Typed, TypeOK
<1>11. ASSUME NEW p \in HostPorts, Take(p) PROVE Typed'
  BY <1>0, <1>11 DEF Take, code, Typed, TypeOK
<1>12. ASSUME NEW p \in HostPorts, GiveBack(p) PROVE Typed'
  BY <1>0, <1>12 DEF GiveBack, code, past, Typed, TypeOK
<1>13. ASSUME NEW c \in Others, NEW p \in HostPorts, OtherStarts(c, p) PROVE Typed'
  BY <1>0, <1>13 DEF OtherStarts, code, Typed, TypeOK
<1>14. ASSUME NEW c \in Others, OtherStops(c) PROVE Typed'
  BY <1>0, <1>14 DEF OtherStops, code, past, Typed, TypeOK
<1>15. CASE UNCHANGED vars
  BY <1>0, <1>15 DEF vars, code, host, past, Typed, TypeOK
<1>16. QED
  BY <1>1, <1>2, <1>3, <1>4, <1>5, <1>6, <1>7, <1>8, <1>9, <1>10,
     <1>11, <1>12, <1>13, <1>14, <1>15
  DEF Next, Run, Answer, Environment

(* Each failed attempt is cleaned up before anything else happens.         *)
LEMMA OwnGoneStep == Cycle /\ OwnGone /\ [Next]_vars => OwnGone'
<1> SUFFICES ASSUME Cycle, OwnGone, [Next]_vars PROVE OwnGone'
  OBVIOUS
<1>0. Cycle /\ OwnGone
  OBVIOUS
<1>1. Next \/ UNCHANGED vars
  OBVIOUS
<1>2. CASE Preflight
  BY <1>0, <1>2 DEF Preflight, Return, host, past, OwnGone, Cycle
<1>3. CASE CheckContext
  BY <1>0, <1>3 DEF CheckContext, Return, RemoveOwn, past, OwnGone, Cycle
<1>4. CASE AttemptSucceeds
  BY <1>0, <1>4 DEF AttemptSucceeds, Return, past, OwnGone, Cycle
<1>5. CASE AttemptFails
  BY <1>0, <1>5 DEF AttemptFails, past, OwnGone, Cycle
<1>6. CASE AfterFailure
  BY <1>0, <1>6 DEF AfterFailure, NextPort, Return, RemoveOwn, past, OwnGone, Cycle
<1>7. CASE ListPort
  BY <1>0, <1>7 DEF ListPort, PsFails, Shows, Asked, Return, host, past, OwnGone, Cycle
<1>8. CASE AnswerNone
  BY <1>0, <1>8 DEF AnswerNone, Return, host, past, OwnGone, Cycle
<1>9. ASSUME NEW c \in Others, AnswerFree(c) PROVE OwnGone'
  BY <1>0, <1>9 DEF AnswerFree, SecondCycle, Return, past, OwnGone, Cycle
<1>10. CASE Cancel
  BY <1>0, <1>10 DEF Cancel, code, host, past, OwnGone, Cycle
<1>11. ASSUME NEW p \in HostPorts, Take(p) PROVE OwnGone'
  BY <1>0, <1>11 DEF Take, code, OwnGone, Cycle
<1>12. ASSUME NEW p \in HostPorts, GiveBack(p) PROVE OwnGone'
  BY <1>0, <1>12 DEF GiveBack, code, past, OwnGone, Cycle
<1>13. ASSUME NEW c \in Others, NEW p \in HostPorts, OtherStarts(c, p) PROVE OwnGone'
  BY <1>0, <1>13 DEF OtherStarts, code, OwnGone, Cycle
<1>14. ASSUME NEW c \in Others, OtherStops(c) PROVE OwnGone'
  BY <1>0, <1>14 DEF OtherStops, code, past, OwnGone, Cycle
<1>15. CASE UNCHANGED vars
  BY <1>0, <1>15 DEF vars, code, host, past, OwnGone, Cycle
<1>16. QED
  BY <1>1, <1>2, <1>3, <1>4, <1>5, <1>6, <1>7, <1>8, <1>9, <1>10,
     <1>11, <1>12, <1>13, <1>14, <1>15
  DEF Next, Run, Answer, Environment

(* The attempts of a cycle follow the ports of its window.                 *)
LEMMA CycleStep == Typed /\ Cycle /\ [Next]_vars => Cycle'
<1> SUFFICES ASSUME Typed, Cycle, [Next]_vars PROVE Cycle'
  OBVIOUS
<1>0. Typed /\ Cycle
  OBVIOUS
<1>1. Next \/ UNCHANGED vars
  OBVIOUS
<1>2. CASE Preflight
  <2>1. CASE pc' = "done"
    BY <1>0, <1>2, <2>1 DEF Preflight, Return, Cycle
  <2>2. CASE pc' = "check" /\ port' = first' /\ UNCHANGED result
    <3>1. first' \in Nat
      BY <1>0, <1>2, <2>2, FreePortFromType, PortRetryAssumption
      DEF Preflight, Typed, TypeOK
    <3>2. QED
      <4>1. i' = 0 /\ ~extra' /\ result' = "none"
        BY <1>0, <1>2, <2>2 DEF Preflight, Cycle
      <4>2. MaxRetries \in Nat \ {0}
        BY PortRetryAssumption
      <4>3. port' = first' + i' /\ i' < MaxRetries
        <5>1. first' = first' + 0
          BY <3>1, PlusZero
        <5>2. 0 < MaxRetries
          BY <4>2
        <5>3. QED
          BY <2>2, <4>1, <5>1, <5>2
      <4>4. QED
        BY <2>2, <4>1, <4>3 DEF Cycle
  <2>3. QED
    BY <1>2, <2>1, <2>2 DEF Preflight, Return
<1>3. CASE CheckContext
  BY <1>0, <1>3 DEF CheckContext, Return, RemoveOwn, past, Cycle, Typed,
      TypeOK
<1>4. CASE AttemptSucceeds
  BY <1>0, <1>4 DEF AttemptSucceeds, Return, past, Cycle, Typed, TypeOK
<1>5. CASE AttemptFails
  BY <1>0, <1>5 DEF AttemptFails, past, Cycle, Typed, TypeOK
<1>6. CASE AfterFailure
  <2>1. /\ i \in 0 .. MaxRetries /\ first \in Nat
        /\ i < MaxRetries /\ port = first + i
        /\ result = "none"
    BY <1>0, <1>6 DEF AfterFailure, NextPort, Cycle, Typed, TypeOK
  <2>5. first' = first /\ extra' = extra
    BY <1>6 DEF AfterFailure, NextPort
  <2>2. CASE attemptErr # "conflict"
    <3>1. pc' = "done" /\ result' = "attempt failed"
      BY <1>6, <2>2 DEF AfterFailure, NextPort, Return
    <3>2. QED
      BY <3>1 DEF Cycle
  <2>3. CASE attemptErr = "conflict"
    <3>1. i' = i + 1 /\ port' = first' + i'
      <4>1. i' = i + 1 /\ port' = port + 1
        BY <1>6, <2>3 DEF AfterFailure, NextPort
      <4>2. QED
        BY <2>5, <2>1, <4>1
    <3>2. \/ i' < MaxRetries /\ pc' = "check" /\ result' = result
          \/ i' = MaxRetries /\ pc' = "done"
          \/ ~extra /\ pc' = "list" /\ result' = result
      BY <1>6, <2>3 DEF AfterFailure, NextPort, Return
    <3>3. QED
      BY <2>5, <2>1, <3>1, <3>2 DEF Cycle
  <2>4. QED
    BY <2>2, <2>3
<1>7. CASE ListPort
  BY <1>0, <1>7 DEF ListPort, PsFails, Shows, Asked, Return, host, past, Cycle, Typed, TypeOK
<1>8. CASE AnswerNone
  BY <1>0, <1>8 DEF AnswerNone, Return, host, past, Cycle, Typed, TypeOK
<1>9. ASSUME NEW c \in Others, AnswerFree(c) PROVE Cycle'
  <2>1. CASE Return("not freed")
    BY <1>0, <1>9, <2>1 DEF AnswerFree, SecondCycle, Return, Cycle
  <2>2. CASE i' = 0 /\ port' = first /\ pc' = "check" /\ UNCHANGED result
    <3>1. i' < MaxRetries /\ port' = first' + i'
      <4>1. first \in Nat /\ first' = first
        BY <1>0, <1>9 DEF AnswerFree, SecondCycle, Typed, TypeOK
      <4>2. MaxRetries \in Nat \ {0}
        BY PortRetryAssumption
      <4>3. i' \in Nat /\ port' \in Nat /\ first' \in Nat
        BY <2>2, <4>1
      <4>4. QED
        BY <2>2, <4>1, <4>2, <4>3
    <3>2. result' = "none"
      BY <1>0, <1>9, <2>2 DEF AnswerFree, SecondCycle, Cycle
    <3>3. QED
      BY <2>2, <3>1, <3>2 DEF Cycle
  <2>3. QED
    BY <1>9, <2>1, <2>2 DEF AnswerFree, SecondCycle
<1>10. CASE Cancel
  BY <1>0, <1>10 DEF Cancel, code, host, past, Cycle, Typed, TypeOK
<1>11. ASSUME NEW p \in HostPorts, Take(p) PROVE Cycle'
  BY <1>0, <1>11 DEF Take, code, Cycle, Typed, TypeOK
<1>12. ASSUME NEW p \in HostPorts, GiveBack(p) PROVE Cycle'
  BY <1>0, <1>12 DEF GiveBack, code, past, Cycle, Typed, TypeOK
<1>13. ASSUME NEW c \in Others, NEW p \in HostPorts, OtherStarts(c, p) PROVE Cycle'
  BY <1>0, <1>13 DEF OtherStarts, code, Cycle, Typed, TypeOK
<1>14. ASSUME NEW c \in Others, OtherStops(c) PROVE Cycle'
  BY <1>0, <1>14 DEF OtherStops, code, past, Cycle, Typed, TypeOK
<1>15. CASE UNCHANGED vars
  BY <1>0, <1>15 DEF vars, code, host, past, Cycle, Typed, TypeOK
<1>16. QED
  BY <1>1, <1>2, <1>3, <1>4, <1>5, <1>6, <1>7, <1>8, <1>9, <1>10,
     <1>11, <1>12, <1>13, <1>14, <1>15
  DEF Next, Run, Answer, Environment

(* Only the answer at the prompt removes a container, and it is asked once.*)
LEMMA OneKilledStep == Cycle /\ OneKilled /\ [Next]_vars => OneKilled'
<1> SUFFICES ASSUME Cycle, OneKilled, [Next]_vars PROVE OneKilled'
  OBVIOUS
<1>0. Cycle /\ OneKilled
  OBVIOUS
<1>1. Next \/ UNCHANGED vars
  OBVIOUS
<1>2. CASE Preflight
  BY <1>0, <1>2 DEF Preflight, Return, host, past, OneKilled, Cycle
<1>3. CASE CheckContext
  BY <1>0, <1>3 DEF CheckContext, Return, RemoveOwn, past, OneKilled, Cycle
<1>4. CASE AttemptSucceeds
  BY <1>0, <1>4 DEF AttemptSucceeds, Return, past, OneKilled, Cycle
<1>5. CASE AttemptFails
  BY <1>0, <1>5 DEF AttemptFails, past, OneKilled, Cycle
<1>6. CASE AfterFailure
  BY <1>0, <1>6 DEF AfterFailure, NextPort, Return, RemoveOwn, past, OneKilled, Cycle
<1>7. CASE ListPort
  BY <1>0, <1>7 DEF ListPort, PsFails, Shows, Asked, Return, host, past, OneKilled, Cycle
<1>8. CASE AnswerNone
  BY <1>0, <1>8 DEF AnswerNone, Return, host, past, OneKilled, Cycle
<1>9. ASSUME NEW c \in Others, AnswerFree(c) PROVE OneKilled'
  <2>1. ~extra /\ killed = {}
    BY <1>0, <1>9 DEF AnswerFree, SecondCycle, OneKilled, Cycle
  <2>2. \/ extra' = extra /\ killed' = killed
        \/ extra' /\ killed' = {c}
    BY <1>9, <2>1 DEF AnswerFree, SecondCycle, past
  <2>3. QED
    BY <2>1, <2>2 DEF OneKilled
<1>10. CASE Cancel
  BY <1>0, <1>10 DEF Cancel, code, host, past, OneKilled, Cycle
<1>11. ASSUME NEW p \in HostPorts, Take(p) PROVE OneKilled'
  BY <1>0, <1>11 DEF Take, code, OneKilled, Cycle
<1>12. ASSUME NEW p \in HostPorts, GiveBack(p) PROVE OneKilled'
  BY <1>0, <1>12 DEF GiveBack, code, past, OneKilled, Cycle
<1>13. ASSUME NEW c \in Others, NEW p \in HostPorts, OtherStarts(c, p) PROVE OneKilled'
  BY <1>0, <1>13 DEF OtherStarts, code, OneKilled, Cycle
<1>14. ASSUME NEW c \in Others, OtherStops(c) PROVE OneKilled'
  BY <1>0, <1>14 DEF OtherStops, code, past, OneKilled, Cycle
<1>15. CASE UNCHANGED vars
  BY <1>0, <1>15 DEF vars, code, host, past, OneKilled, Cycle
<1>16. QED
  BY <1>1, <1>2, <1>3, <1>4, <1>5, <1>6, <1>7, <1>8, <1>9, <1>10,
     <1>11, <1>12, <1>13, <1>14, <1>15
  DEF Next, Run, Answer, Environment

(* What the freed ports have seen since they were freed.                   *)
LEMMA ReusedStep == Typed /\ Cycle /\ Reused /\ [Next]_vars => Reused'
<1> SUFFICES ASSUME Typed, Cycle, Reused, [Next]_vars PROVE Reused'
  OBVIOUS
<1>0. Typed /\ Cycle /\ Reused
  OBVIOUS
<1>1. Next \/ UNCHANGED vars
  OBVIOUS
<1>2. CASE Preflight
  BY <1>0, <1>2 DEF Preflight, Return, host, past, Reused, Cycle, Typed,
      TypeOK, Occupied, PortsExclusive
<1>3. CASE CheckContext
  BY <1>0, <1>3 DEF CheckContext, Return, RemoveOwn, past, Reused, Cycle,
      Typed, TypeOK, Occupied, PortsExclusive
<1>4. CASE AttemptSucceeds
  BY <1>0, <1>4 DEF AttemptSucceeds, Return, past, Reused, Cycle, Typed,
      TypeOK, Occupied, PortsExclusive
<1>5. CASE AttemptFails
  BY <1>0, <1>5 DEF AttemptFails, past, Reused, Cycle, Typed, TypeOK, Occupied,
      PortsExclusive
<1>6. CASE AfterFailure
  <2>1. PortsExclusive' /\ \A p : Occupied(p)' <=> Occupied(p)
    BY <1>0, <1>6 DEF AfterFailure, NextPort, Reused, PortsExclusive, Occupied
  <2>2. UNCHANGED <<extra, first, released, regrabbed>>
    BY <1>6 DEF AfterFailure, NextPort, past
  <2>3. CASE port' = port
    <3>1. pc' # "remove"
      BY <1>6 DEF AfterFailure, NextPort, Return
    <3>2. QED
      BY <1>0, <2>1, <2>2, <2>3, <3>1 DEF Reused
  <2>4. CASE port' = port + 1 /\ attemptErr = "conflict"
    <3>1. first \in Nat /\ port \in Nat /\ released \subseteq Nat
      BY <1>0, PortRetryAssumption DEF Typed, TypeOK
    <3>2. \A p \in released : p \in first .. port' - 1
             => p \in first .. port - 1 \/ p = port
      BY <3>1, <2>4
    <3>3. pc = "remove" /\ pc' # "remove"
      BY <1>6 DEF AfterFailure, NextPort, Return
    <3>4. QED
      BY <1>0, <2>1, <2>2, <2>4, <3>2, <3>3 DEF Reused
  <2>5. QED
    BY <1>6, <2>3, <2>4 DEF AfterFailure, NextPort
<1>7. CASE ListPort
  BY <1>0, <1>7 DEF ListPort, PsFails, Shows, Asked, Return, host, past, Reused, Cycle, Typed, TypeOK,
      Occupied, PortsExclusive
<1>8. CASE AnswerNone
  BY <1>0, <1>8 DEF AnswerNone, Return, host, past, Reused, Cycle, Typed,
      TypeOK, Occupied, PortsExclusive
<1>9. ASSUME NEW c \in Others, AnswerFree(c) PROVE Reused'
  <2>1. CASE UNCHANGED <<port, i, extra, pub, past>> /\ pc' = "done"
    BY <1>0, <1>9, <2>1
    DEF AnswerFree, SecondCycle, Cycle, past, Reused, PortsExclusive, Occupied
  <2>2. CASE /\ pub' = [pub EXCEPT ![c] = {}] /\ released' = pub[c]
             /\ port' = first /\ pc' = "check"
    <3>1. PortsExclusive /\ pub \in [Others -> SUBSET HostPorts]
      BY <1>0 DEF Reused, Typed, TypeOK
    <3>2. taken' = taken /\ first' = first
      BY <1>9 DEF AnswerFree, SecondCycle
    <3>3. \A d \in Others : pub'[d] = IF d = c THEN {} ELSE pub[d]
      BY <2>2, <3>1
    <3>4. PortsExclusive'
      BY <3>1, <3>2, <3>3 DEF PortsExclusive
    <3>5. \A p \in released' : ~Occupied(p)'
      BY <2>2, <3>1, <3>2, <3>3 DEF PortsExclusive, Occupied
    <3>6. first .. first - 1 = {}
      BY <1>0 DEF Typed, TypeOK
    <3>7. QED
      BY <2>2, <3>2, <3>4, <3>5, <3>6 DEF Reused
  <2>3. QED
    BY <1>9, <2>1, <2>2 DEF AnswerFree, SecondCycle, Return
<1>10. CASE Cancel
  BY <1>0, <1>10 DEF Cancel, code, host, past, Reused, Cycle, Typed, TypeOK,
      Occupied, PortsExclusive
<1>11. ASSUME NEW p \in HostPorts, Take(p) PROVE Reused'
  BY <1>0, <1>11 DEF Take, code, Reused, Cycle, Typed, TypeOK, Occupied,
      PortsExclusive
<1>12. ASSUME NEW p \in HostPorts, GiveBack(p) PROVE Reused'
  BY <1>0, <1>12 DEF GiveBack, code, past, Reused, Cycle, Typed, TypeOK,
      Occupied, PortsExclusive
<1>13. ASSUME NEW c \in Others, NEW p \in HostPorts, OtherStarts(c, p) PROVE Reused'
  <2>1. PortsExclusive /\ pub \in [Others -> SUBSET HostPorts]
    BY <1>0 DEF Reused, Typed, TypeOK
  <2>2. \A d \in Others : pub'[d] = IF d = c THEN {p} ELSE pub[d]
    BY <1>13, <2>1 DEF OtherStarts
  <2>3. taken' = taken /\ ~Occupied(p) /\ regrabbed' = regrabbed \cup {p}
    BY <1>13 DEF OtherStarts
  <2>4. PortsExclusive'
    BY <2>1, <2>2, <2>3 DEF PortsExclusive, Occupied
  <2>5. \A q : Occupied(q)' => Occupied(q) \/ q = p
    BY <2>2, <2>3 DEF Occupied
  <2>6. UNCHANGED <<extra, first, port, pc, attemptErr, released>>
    BY <1>13 DEF OtherStarts, code
  <2>7. QED
    BY <1>0, <2>3, <2>4, <2>5, <2>6 DEF Reused
<1>14. ASSUME NEW c \in Others, OtherStops(c) PROVE Reused'
  BY <1>0, <1>14 DEF OtherStops, code, past, Reused, Cycle, Typed, TypeOK,
      Occupied, PortsExclusive
<1>15. CASE UNCHANGED vars
  BY <1>0, <1>15 DEF vars, code, host, past, Reused, Cycle, Typed, TypeOK,
      Occupied, PortsExclusive
<1>16. QED
  BY <1>1, <1>2, <1>3, <1>4, <1>5, <1>6, <1>7, <1>8, <1>9, <1>10,
     <1>11, <1>12, <1>13, <1>14, <1>15
  DEF Next, Run, Answer, Environment

(* The invariant of every reachable state.                                 *)
THEOREM InvHolds == Spec => []IndInv
<1>1. ASSUME Init PROVE IndInv
  <2>1. Typed
    <3>1. IsFiniteSet(listed)
      BY <1>1, FS_EmptySet DEF Init
    <3>2. 0 \in 0 .. MaxRetries
      BY PortRetryAssumption
    <3>3. result \in Results
      BY <1>1 DEF Init, Results
    <3>4. QED
      BY <1>1, <3>1, <3>2, <3>3, PortRetryAssumption DEF Init, Typed, TypeOK
  <2>2. OwnGone /\ Cycle /\ OneKilled
    BY <1>1 DEF Init, OwnGone, Cycle, OneKilled
  <2>3. Reused
    BY <1>1 DEF Init, Reused
  <2>4. QED
    BY <2>1, <2>2, <2>3 DEF IndInv
<1>2. IndInv /\ [Next]_vars => IndInv'
  BY TypedStep, OwnGoneStep, CycleStep, OneKilledStep, ReusedStep DEF IndInv
<1>3. QED
  BY <1>1, <1>2, PTL DEF Spec

(* The state of StartWithPortRetry stays in its types; in particular the   *)
(* counter of attempts stays below its bound where it is used.             *)
THEOREM TypeCorrect == Spec => []TypeOK
<1>1. IndInv => TypeOK
  BY DEF IndInv, Typed
<1>2. QED
  BY <1>1, InvHolds, PTL

(* dockerhost.go:264-265: a failed start leaves no container of ours.      *)
THEOREM NothingLeft == Spec => []ErrorLeavesNoContainer
<1>1. IndInv => ErrorLeavesNoContainer
  BY DEF IndInv, OwnGone, Cycle, ErrorLeavesNoContainer
<1>2. QED
  BY <1>1, InvHolds, PTL

(* dockerhost.go:266-267: at most one container of others is removed.      *)
THEOREM OneFreed == Spec => []FreesAtMostOne
<1>1. IndInv => FreesAtMostOne
  <2> SUFFICES ASSUME OneKilled PROVE Cardinality(killed) <= 1
    BY DEF IndInv, FreesAtMostOne
  <2>1. CASE killed = {}
    BY <2>1, FS_EmptySet
  <2>2. CASE \E c \in Others : killed = {c}
    <3>1. PICK c \in Others : killed = {c}
      BY <2>2
    <3>2. Cardinality({c}) = 1
      BY FS_Singleton
    <3>3. QED
      BY <3>1, <3>2
  <2>3. QED
    BY <2>1, <2>2 DEF OneKilled
<1>2. QED
  BY <1>1, InvHolds, PTL

(* A port freed at the operator's cost and still not used was taken again. *)
THEOREM FreedIsTried == Spec => []FreedPortIsTried
<1>1. IndInv => FreedPortIsTried
  <2> SUFFICES ASSUME IndInv, extra, result = "no free port",
                      NEW p \in released, p \in Window
               PROVE  p \in regrabbed
    BY DEF FreedPortIsTried
  <2>1. port = first + MaxRetries
    BY DEF IndInv, Cycle
  <2>2. p \in first .. port - 1
    <3>1. p \in first .. first + MaxRetries - 1
      BY DEF Window
    <3>2. first \in Nat /\ MaxRetries \in Nat
      BY PortRetryAssumption DEF IndInv, Typed, TypeOK
    <3>3. first .. first + MaxRetries - 1 = first .. port - 1
      BY <2>1, <3>2, WindowEnd
    <3>4. QED
      BY <3>1, <3>3
  <2>3. QED
    BY <2>2 DEF IndInv, Reused
<1>2. QED
  BY <1>1, InvHolds, PTL

(* With the context cancelled the prompt is never reached.                 *)
THEOREM NoPromptAfterCancel == Spec => CancelledNeverAsks
<1>1. [Next]_vars => (pc # "prompt" /\ pc' = "prompt" => ~ctxDone)
  BY DEF Next, Run, Answer, Environment, vars, code, Preflight, CheckContext,
         AttemptSucceeds, AttemptFails, AfterFailure, NextPort, ListPort, PsFails,
         Shows, Asked, SecondCycle, AnswerNone,
         AnswerFree, Cancel, Take, GiveBack, OtherStarts, OtherStops, Return
<1>2. QED
  BY <1>1, PTL DEF Spec, CancelledNeverAsks
==============================================================================
