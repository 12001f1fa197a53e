-------------------------- MODULE DumpRestoreProofs --------------------------
(***************************************************************************)
(* Proofs about the way of a dump into its container, for dumps and pipes  *)
(* of any length: chunks are neither lost nor made up on the way, so that  *)
(* what is reported good is whole.                                         *)
(***************************************************************************)
EXTENDS DumpRestore, TLAPS

(* The writer of redis has closed its tar.                                 *)
Closed == writer = "done" /\ ~wErr

(* Chunks that have left the reader, and the one in the copier's hand.     *)
Sent == IF engine = "redis" THEN (IF Closed THEN read + 1 ELSE read) ELSE read
Held == IF copier = "hold" THEN 1 ELSE 0

(* Which goroutine exists for which engine.                                *)
Roles ==
  /\ engine # "redis" => writer = "none" /\ ~wErr
  /\ engine = "redis" => writer \in {"write", "done"} /\ ~cErr /\ read <= size
  /\ Closed /\ engine = "redis" => read = actual /\ actual = size /\ ~broken
  /\ writer = "write" => ~wErr
  /\ docker = "none" => copier = "none"
  /\ copier = "none" => docker = "none" /\ Sent = 0 /\ pipe = 0 /\ got = 0

(* Nothing is lost while docker reads, and all of it is there at its end.  *)
Flow ==
  /\ docker = "run" => Sent = got + pipe + Held
  /\ docker = "run" /\ copier = "done" =>
       IF engine = "redis" THEN writer = "done"
       ELSE read = actual /\ cErr = broken
  /\ docker = "ok" =>
       IF engine = "redis" THEN got = Whole \/ (writer = "done" /\ wErr)
       ELSE got = Whole /\ read = actual /\ cErr = broken

(* What the engine knows at each place.                                    *)
Verdict ==
  /\ pc = "start" => docker = "none"
  /\ pc # "start" => docker # "none" \/ runErr = "other"
  /\ pc \notin {"start", "run"} /\ runErr = "none" => docker = "ok" /\ ~cErr
  /\ pc \in {"judge", "restore", "returned"} => writer # "write"
  /\ pc = "restore" => runErr = "none" /\ ~wErr
  /\ outcome # "none" => pc = "returned"
  /\ outcome \in {"copied", "clean"} => runErr = "none" /\ ~wErr
  /\ engine = "mongo" /\ pc = "returned" => exitBad = (runErr = "exit")
  /\ engine = "mongo" => pc # "restore"

IndInv == TypeOK /\ Roles /\ Flow /\ Verdict

LEMMA Numbers ==
  TypeOK => /\ size \in Nat /\ actual \in Nat /\ read \in Nat /\ got \in Nat
            /\ pipe \in Nat /\ Room \in Nat /\ read <= actual
            /\ Whole \in Nat /\ got <= Whole /\ pipe <= Room
<1> SUFFICES ASSUME TypeOK
             PROVE  /\ size \in Nat /\ actual \in Nat /\ read \in Nat /\ got \in Nat
                    /\ pipe \in Nat /\ Room \in Nat /\ read <= actual
                    /\ Whole \in Nat /\ got <= Whole /\ pipe <= Room
  OBVIOUS
<1>1. size \in Nat /\ actual \in Nat /\ Room \in Nat
  BY DumpRestoreAssumption DEF TypeOK
<1>2. Whole \in Nat
  BY <1>1 DEF Whole
<1>3. QED
  BY <1>1, <1>2 DEF TypeOK

(* What is reported good went through whole.                               *)
LEMMA GoodIsWhole == IndInv => DeliveredWhole
<1> SUFFICES ASSUME IndInv, outcome \in {"copied", "clean"}
             PROVE  /\ got = Whole /\ read = actual /\ ~broken
                    /\ engine = "redis" => actual = size
  BY DEF DeliveredWhole
<1>1. pc = "returned" /\ runErr = "none" /\ ~wErr
  BY DEF IndInv, Verdict
<1>2. docker = "ok" /\ ~cErr /\ writer # "write"
  BY <1>1 DEF IndInv, Verdict
<1>3. CASE engine = "redis"
  BY <1>1, <1>2, <1>3 DEF IndInv, Flow, Roles, Closed
<1>4. CASE engine # "redis"
  BY <1>2, <1>4 DEF IndInv, Flow, TypeOK
<1>5. QED
  BY <1>3, <1>4

LEMMA InitHolds == Init => IndInv
<1> SUFFICES ASSUME Init PROVE IndInv
  OBVIOUS
<1>1. size \in Nat /\ actual \in Nat /\ Room \in Nat
  BY DumpRestoreAssumption DEF Init
<1>2. TypeOK
  <2>1. Whole \in Nat
    BY <1>1 DEF Whole
  <2>2. got \in 0 .. Whole /\ read \in 0 .. actual /\ pipe \in 0 .. Room
    BY <1>1, <2>1 DEF Init
  <2>3. QED
    BY <2>2 DEF Init, TypeOK
<1>3. Roles
  BY <1>1 DEF Init, Roles, Closed, Sent
<1>4. Flow
  BY DEF Init, Flow
<1>5. Verdict
  BY DEF Init, Verdict
<1>6. QED
  BY <1>2, <1>3, <1>4, <1>5 DEF IndInv

(* The goroutines and the docker process.                                  *)
LEMMA StreamStep ==
  ASSUME IndInv, Cancel \/ Goroutines \/ DockerReads \/ DockerEnds \/ DockerDies
  PROVE  IndInv'
<1>0. /\ TypeOK /\ Roles /\ Flow /\ Verdict
      /\ size \in Nat /\ actual \in Nat /\ read \in Nat /\ got \in Nat
      /\ pipe \in Nat /\ Room \in Nat /\ read <= actual
      /\ Whole \in Nat /\ got <= Whole /\ pipe <= Room
  BY Numbers DEF IndInv
<1>1. CASE Cancel
  <2>1. UNCHANGED <<dump, stream, prOpen, verdict>> /\ ctxDone' \in BOOLEAN
    BY <1>1 DEF Cancel
  <2>2. TypeOK'
    BY <1>0, <2>1 DEF TypeOK, Whole, dump, stream, verdict
  <2>3. Roles' /\ Flow' /\ Verdict'
    BY <1>0, <2>1 DEF Roles, Flow, Verdict, Closed, Sent, Held, Whole, dump, stream, verdict
  <2>4. QED
    BY <2>2, <2>3 DEF IndInv
<1> DEFINE Rest == UNCHANGED <<dump, ctxDone, prOpen, verdict>>
<1>2. CASE WriterSends
  <2>1. /\ Rest /\ UNCHANGED <<wErr, cErr, pipe, got, docker>>
        /\ writer = "write" /\ copier = "read" /\ copier' = "hold"
        /\ engine = "redis" /\ ~wErr
    BY <1>0, <1>2 DEF WriterSends, Roles
  <2>2. \/ read < actual /\ read < size /\ read' = read + 1 /\ writer' = writer
        \/ /\ read = actual /\ actual = size /\ ~broken /\ writer' = "done" /\ read' = read
    BY <1>2 DEF WriterSends
  <2>3. Sent' = Sent + 1 /\ Held = 0 /\ Held' = 1 /\ Whole' = Whole
    BY <1>0, <2>1, <2>2 DEF Sent, Closed, Held, Whole, dump
  <2>4. read' \in 0 .. actual /\ read' <= size
    BY <1>0, <2>1, <2>2 DEF Roles
  <2>5. TypeOK'
    BY <1>0, <2>1, <2>2, <2>3, <2>4 DEF TypeOK, dump, verdict
  <2>6. Roles'
    BY <1>0, <2>1, <2>2, <2>4 DEF Roles, Closed, dump
  <2>7. Sent \in Nat
    BY <1>0 DEF Sent
  <2>8. Flow'
    BY <1>0, <2>1, <2>3, <2>7 DEF Flow, dump
  <2>9. Verdict'
    BY <1>0, <2>1, <2>2 DEF Verdict, verdict, dump
  <2>10. QED
    BY <2>5, <2>6, <2>8, <2>9 DEF IndInv
<1>3. CASE WriterFails
  <2>1. /\ Rest /\ UNCHANGED <<read, copier, cErr, pipe, got, docker>>
        /\ writer = "write" /\ writer' = "done" /\ wErr' = TRUE /\ engine = "redis"
    BY <1>0, <1>3 DEF WriterFails, Roles
  <2>3. Sent' = Sent /\ Held' = Held /\ Whole' = Whole
    BY <2>1 DEF Sent, Closed, Held, Whole, dump
  <2>5. TypeOK'
    BY <1>0, <2>1, <2>3 DEF TypeOK, dump, verdict
  <2>6. Roles'
    BY <1>0, <2>1, <2>3 DEF Roles, Closed, dump
  <2>8. Flow'
    BY <1>0, <2>1, <2>3 DEF Flow, dump
  <2>9. Verdict'
    BY <1>0, <2>1 DEF Verdict, verdict, dump
  <2>10. QED
    BY <2>5, <2>6, <2>8, <2>9 DEF IndInv
<1>4. CASE CopierReads
  <2>1. /\ Rest /\ UNCHANGED <<writer, wErr, pipe, got, docker>> /\ copier = "read"
    BY <1>4 DEF CopierReads
  <2>2. Whole' = Whole
    BY <2>1 DEF Whole, dump
  <2>3. docker # "ok" \/ engine = "redis" \/ (read = actual /\ cErr = broken)
    BY <1>0 DEF Flow
  <2>4. CASE engine # "redis" /\ read < actual /\ read' = read + 1 /\ copier' = "hold" /\ cErr' = cErr
    <3>1. TypeOK'
      BY <1>0, <2>1, <2>2, <2>4 DEF TypeOK, dump, verdict
    <3>2. Roles'
      BY <1>0, <2>1, <2>4 DEF Roles, Closed, dump
    <3>3. docker # "ok"
      BY <1>0, <2>3, <2>4
    <3>4. Flow'
      BY <1>0, <2>1, <2>2, <2>4, <3>3 DEF Flow, Sent, Held, dump
    <3>5. Verdict'
      BY <1>0, <2>1, <2>4 DEF Verdict, verdict, dump
    <3>6. QED
      BY <3>1, <3>2, <3>4, <3>5 DEF IndInv
  <2>5. CASE engine # "redis" /\ read = actual /\ copier' = "done" /\ cErr' = broken /\ read' = read
    <3>1. TypeOK'
      BY <1>0, <2>1, <2>2, <2>5 DEF TypeOK, dump, verdict
    <3>2. Roles'
      BY <1>0, <2>1, <2>5 DEF Roles, Closed, dump
    <3>3. Sent' = Sent /\ Held' = Held
      BY <2>1, <2>5 DEF Sent, Held, dump
    <3>4. Flow'
      <4>1. /\ UNCHANGED <<docker, got, pipe, read, engine, actual, broken>>
            /\ cErr' = broken' /\ read' = actual' /\ engine' # "redis"
        BY <2>1, <2>5 DEF dump
      <4>2. docker = "run" => Sent' = got' + pipe' + Held'
        BY <1>0, <3>3, <4>1 DEF Flow
      <4>3. docker = "ok" => got' = Whole'
        BY <1>0, <2>2, <2>5, <4>1 DEF Flow
      <4>4. QED
        BY <4>1, <4>2, <4>3 DEF Flow
    <3>5. Verdict'
      <4>1. docker = "ok" => cErr' = cErr
        BY <2>3, <2>5
      <4>2. QED
        BY <1>0, <2>1, <2>5, <4>1 DEF Verdict, verdict, dump
    <3>6. QED
      BY <3>1, <3>2, <3>4, <3>5 DEF IndInv
  <2>6. CASE engine = "redis" /\ writer = "done" /\ copier' = "done" /\ UNCHANGED <<read, cErr>>
    <3>1. TypeOK'
      BY <1>0, <2>1, <2>2, <2>6 DEF TypeOK, dump, verdict
    <3>2. Roles'
      BY <1>0, <2>1, <2>6 DEF Roles, Closed, dump
    <3>4. Flow'
      BY <1>0, <2>1, <2>2, <2>6 DEF Flow, Sent, Closed, Held, dump
    <3>5. Verdict'
      BY <1>0, <2>1, <2>6 DEF Verdict, verdict, dump
    <3>6. QED
      BY <3>1, <3>2, <3>4, <3>5 DEF IndInv
  <2>7. QED
    BY <1>4, <2>4, <2>5, <2>6 DEF CopierReads
<1>5. CASE CopierWrites
  <2>1. /\ Rest /\ UNCHANGED <<read, writer, wErr, cErr, got, docker>> /\ copier = "hold"
    BY <1>5 DEF CopierWrites
  <2>2. Whole' = Whole /\ Sent' = Sent
    BY <2>1 DEF Whole, Sent, Closed, dump
  <2>3. \/ docker = "run" /\ pipe < Room /\ pipe' = pipe + 1 /\ copier' = "read"
        \/ docker \in {"ok", "failed"} /\ copier' = "done" /\ pipe' = pipe
    BY <1>5 DEF CopierWrites
  <2>4. pipe' \in 0 .. Room
    BY <1>0, <2>3
  <2>5. TypeOK'
    BY <1>0, <2>1, <2>2, <2>3, <2>4 DEF TypeOK, dump, verdict
  <2>6. Roles'
    BY <1>0, <2>1, <2>3 DEF Roles, Closed, dump
  <2>7. Sent \in Nat
    BY <1>0 DEF Sent
  <2>8. Flow'
    BY <1>0, <2>1, <2>2, <2>3, <2>7 DEF Flow, Held, dump
  <2>9. Verdict'
    BY <1>0, <2>1 DEF Verdict, verdict, dump
  <2>10. QED
    BY <2>5, <2>6, <2>8, <2>9 DEF IndInv
<1>6. CASE DockerReads
  <2>1. /\ Rest /\ UNCHANGED <<read, writer, wErr, copier, cErr, docker>>
        /\ docker = "run" /\ pipe > 0 /\ pipe' = pipe - 1 /\ got' = got + 1
    BY <1>6 DEF DockerReads
  <2>2. Whole' = Whole /\ Sent' = Sent /\ Held' = Held
    BY <2>1 DEF Whole, Sent, Closed, Held, dump
  <2>3. Sent \in Nat /\ Sent <= Whole /\ Held \in {0, 1}
    BY <1>0 DEF Sent, Whole, Held, Roles
  <2>4. Sent = got + pipe + Held
    BY <1>0, <2>1 DEF Flow
  <2>5. got' \in 0 .. Whole /\ pipe' \in 0 .. Room /\ Sent = got' + pipe' + Held
    BY <1>0, <2>1, <2>3, <2>4
  <2>6. TypeOK'
    BY <1>0, <2>1, <2>2, <2>5 DEF TypeOK, dump, verdict
  <2>7. Roles'
    BY <1>0, <2>1 DEF Roles, Closed, dump
  <2>8. Flow'
    BY <1>0, <2>1, <2>2, <2>5 DEF Flow, dump
  <2>9. Verdict'
    BY <1>0, <2>1 DEF Verdict, verdict, dump
  <2>10. QED
    BY <2>6, <2>7, <2>8, <2>9 DEF IndInv
<1>7. CASE DockerEnds
  <2>1. /\ Rest /\ UNCHANGED <<read, writer, wErr, copier, cErr, pipe, got>>
        /\ docker = "run" /\ docker' = "ok"
        /\ (copier = "done" /\ pipe = 0) \/ (engine = "redis" /\ got = Whole)
    BY <1>7 DEF DockerEnds
  <2>2. Whole' = Whole
    BY <2>1 DEF Whole, dump
  <2>3. TypeOK'
    BY <1>0, <2>1, <2>2 DEF TypeOK, dump, verdict
  <2>4. Roles'
    BY <1>0, <2>1 DEF Roles, Closed, Sent, dump
  <2>5. IF engine = "redis" THEN got = Whole \/ (writer = "done" /\ wErr)
        ELSE got = Whole /\ read = actual /\ cErr = broken
    <3>1. CASE engine = "redis" /\ got = Whole
      BY <3>1
    <3>2. CASE copier = "done" /\ pipe = 0
      <4>1. Sent = got /\ Sent \in Nat
        BY <1>0, <2>1, <3>2 DEF Flow, Held, Sent
      <4>2. QED
        BY <1>0, <2>1, <3>2, <4>1 DEF Flow, Roles, Closed, Sent, Whole, TypeOK
    <3>3. QED
      BY <2>1, <3>1, <3>2
  <2>6. Flow'
    BY <2>1, <2>2, <2>5 DEF Flow, dump
  <2>7. Verdict'
    BY <1>0, <2>1 DEF Verdict, verdict, dump
  <2>8. QED
    BY <2>3, <2>4, <2>6, <2>7 DEF IndInv
<1>8. CASE DockerDies
  <2>1. /\ Rest /\ UNCHANGED <<read, writer, wErr, copier, cErr, pipe, got>>
        /\ docker = "run" /\ docker' = "failed"
    BY <1>8 DEF DockerDies
  <2>2. Whole' = Whole
    BY <2>1 DEF Whole, dump
  <2>3. TypeOK'
    BY <1>0, <2>1, <2>2 DEF TypeOK, dump, verdict
  <2>4. Roles' /\ Flow'
    BY <1>0, <2>1 DEF Roles, Flow, Closed, Sent, dump
  <2>5. Verdict'
    BY <1>0, <2>1 DEF Verdict, verdict, dump
  <2>6. QED
    BY <2>3, <2>4, <2>5 DEF IndInv
<1>9. QED
  BY <1>1, <1>2, <1>3, <1>4, <1>5, <1>6, <1>7, <1>8 DEF Goroutines

(* The engine: it looks at the streams and changes none, but for a start.  *)
LEMMA MainStep ==
  ASSUME IndInv, Main PROVE IndInv'
<1>0. TypeOK /\ Roles /\ Flow /\ Verdict
  BY DEF IndInv
<1>1. CASE Start
  <2>1. /\ pc = "start" /\ docker = "none" /\ copier = "none"
        /\ UNCHANGED <<dump, ctxDone, read, writer, wErr, cErr, pipe, got, prOpen,
                       refused, exitBad, outcome>>
    BY <1>0, <1>1 DEF Start, Verdict, Roles
  <2>2. \/ docker' = "run" /\ copier' = "read" /\ pc' = "run" /\ runErr' = runErr
        \/ runErr' = "other" /\ pc' = "close" /\ UNCHANGED <<docker, copier>>
    BY <1>1 DEF Start
  <2>3. Whole' = Whole /\ Sent' = Sent
    BY <2>1 DEF Whole, Sent, Closed, dump
  <2>4. TypeOK'
    BY <1>0, <2>1, <2>2, <2>3 DEF TypeOK, dump
  <2>5. Roles'
    BY <1>0, <2>1, <2>2, <2>3 DEF Roles, Closed, dump
  <2>6. Sent = 0 /\ pipe = 0 /\ got = 0
    BY <1>0, <2>1 DEF Roles
  <2>7. Flow'
    BY <1>0, <2>1, <2>2, <2>3, <2>6 DEF Flow, Held, dump
  <2>8. Verdict'
    BY <1>0, <2>1, <2>2 DEF Verdict, dump
  <2>9. QED
    BY <2>4, <2>5, <2>7, <2>8 DEF IndInv
<1>2. ASSUME UNCHANGED <<dump, stream>> PROVE Roles' /\ Flow' /\ Whole' = Whole
  BY <1>0, <1>2 DEF Roles, Flow, Closed, Sent, Held, Whole, dump, stream
<1>3. CASE Wait
  <2>1. /\ pc = "run" /\ docker \in {"ok", "failed"} /\ pc' = "close"
        /\ UNCHANGED <<dump, ctxDone, stream, prOpen, refused, exitBad, outcome>>
        /\ runErr' \in {"none", "exit", "other"}
        /\ runErr' = "none" => docker = "ok" /\ ~cErr
    BY <1>3 DEF Wait
  <2>2. TypeOK'
    BY <1>0, <1>2, <2>1 DEF TypeOK, dump, stream
  <2>3. Verdict'
    BY <1>0, <2>1 DEF Verdict, dump, stream
  <2>4. QED
    BY <1>2, <2>1, <2>2, <2>3 DEF IndInv
<1>4. CASE Collect
  <2>1. /\ UNCHANGED <<dump, ctxDone, stream, runErr, refused, exitBad, outcome>>
        /\ pc \in {"close", "join"} /\ pc' \in {"join", "judge"}
        /\ pc' = "judge" => writer # "write"
    BY <1>4 DEF Collect, Joined, ClosePr
  <2>5. prOpen' \in BOOLEAN
    BY <1>0, <1>4, Zenon DEF Collect, Joined, ClosePr, TypeOK
  <2>2. TypeOK'
    BY <1>0, <1>2, <2>1, <2>5 DEF TypeOK, dump, stream
  <2>3. Verdict'
    BY <1>0, <2>1 DEF Verdict, dump, stream
  <2>4. QED
    BY <1>2, <2>1, <2>2, <2>3 DEF IndInv
<1>5. CASE JudgeCopy
  <2>1. /\ UNCHANGED <<dump, ctxDone, stream, prOpen, runErr, refused, exitBad>>
        /\ pc = "judge" /\ engine # "mongo"
        /\ \/ pc' = "returned" /\ outcome' = "error"
           \/ runErr = "none" /\ ~wErr /\ pc' = "returned" /\ outcome' = "copied"
           \/ runErr = "none" /\ ~wErr /\ pc' = "restore" /\ outcome' = outcome
    BY <1>5 DEF JudgeCopy, CopyFails, Return
  <2>2. TypeOK'
    BY <1>0, <1>2, <2>1 DEF TypeOK, dump, stream
  <2>3. Verdict'
    BY <1>0, <2>1 DEF Verdict, dump, stream
  <2>4. QED
    BY <1>2, <2>1, <2>2, <2>3 DEF IndInv
<1>6. CASE JudgeMongo
  <2>1. /\ UNCHANGED <<dump, ctxDone, stream, prOpen, runErr, refused>>
        /\ pc = "judge" /\ engine = "mongo" /\ exitBad' = (runErr = "exit")
        /\ pc' = "returned" /\ outcome' \in {"error", "errors", "clean"}
        /\ outcome' = "clean" => runErr = "none"
    BY <1>0, <1>6 DEF JudgeMongo, MongoErrors, Return, TypeOK
  <2>2. TypeOK'
    BY <1>0, <1>2, <2>1 DEF TypeOK, dump, stream
  <2>3. Verdict'
    BY <1>0, <2>1 DEF Verdict, Roles, dump, stream
  <2>4. QED
    BY <1>2, <2>1, <2>2, <2>3 DEF IndInv
<1>7. CASE JudgeClient
  <2>1. /\ UNCHANGED <<dump, ctxDone, stream, prOpen, runErr>>
        /\ pc = "restore" /\ refused' \in BOOLEAN /\ exitBad' \in BOOLEAN
        /\ pc' = "returned" /\ outcome' \in {"error", "errors", "clean"}
    BY <1>0, <1>7 DEF JudgeClient, Recognised, Return, TypeOK
  <2>2. TypeOK'
    BY <1>0, <1>2, <2>1 DEF TypeOK, dump, stream
  <2>3. Verdict'
    BY <1>0, <2>1 DEF Verdict, dump, stream
  <2>4. QED
    BY <1>2, <2>1, <2>2, <2>3 DEF IndInv
<1>8. QED
  BY <1>1, <1>3, <1>4, <1>5, <1>6, <1>7 DEF Main

(* The invariant of every reachable state.                                 *)
THEOREM InvHolds == Spec => []IndInv
<1>1. IndInv /\ [Next]_vars => IndInv'
  <2> SUFFICES ASSUME IndInv, [Next]_vars PROVE IndInv'
    OBVIOUS
  <2>1. CASE UNCHANGED vars
    BY <2>1 DEF vars, dump, stream, verdict, IndInv, TypeOK, Roles, Flow, Verdict,
                Closed, Sent, Held, Whole
  <2>2. QED
    BY <2>1, StreamStep, MainStep DEF Next
<1>2. QED
  BY <1>1, InitHolds, PTL DEF Spec

(* The way of the dump keeps its types, for dumps and pipes of any length. *)
THEOREM TypeCorrect == Spec => []TypeOK
<1>1. IndInv => TypeOK
  BY DEF IndInv
<1>2. QED
  BY <1>1, InvHolds, PTL

(* dockerhost.go:159-160, redis.go:286-322, for every length of the dump:  *)
(* what is reported good went through whole, unbroken, and as announced.   *)
THEOREM GoodWentWhole == Spec => []DeliveredWhole
<1>1. QED
  BY GoodIsWhole, InvHolds, PTL

(* redis.go:288-289: streamDumpTar never returns before its writer ended.  *)
THEOREM WriterJoined == Spec => []NoWriterLeft
<1>1. IndInv => NoWriterLeft
  BY DEF IndInv, Verdict, NoWriterLeft
<1>2. QED
  BY <1>1, InvHolds, PTL

(* mongo.go:354-357: a bad exit code is never a restore without errors.    *)
THEOREM MongoSpeaks == Spec => []MongoNeverSilent
<1>1. IndInv => MongoNeverSilent
  BY DEF IndInv, Verdict, MongoNeverSilent
<1>2. QED
  BY <1>1, InvHolds, PTL
=============================================================================
