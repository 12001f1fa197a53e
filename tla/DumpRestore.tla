----------------------------- MODULE DumpRestore -----------------------------
(***************************************************************************)
(* How the dump gets into the container, and what the restore is judged    *)
(* by: streamDumpTar of redis, CopyDump of Postgres and MySQL/MariaDB, the *)
(* standard input of mongorestore, and the RestoreResult of each engine.   *)
(*                                                                         *)
(* DockerInput runs `docker' with a reader as its standard input.  Package *)
(* os/exec copies the reader to the process in a goroutine of its own, the *)
(* copier, and Run returns once the process has ended and the copier too.  *)
(* Postgres and MySQL stream a compressed dump only: `docker cp' takes the *)
(* path of a plain one.                                                    *)
(* For redis the reader is an io.Pipe, and a second goroutine, the writer, *)
(* wraps the file into a tar at the other end of it.  Data is counted in   *)
(* chunks; the end of the tar counts for one.                              *)
(***************************************************************************)
EXTENDS Naturals

CONSTANTS
  Engines,  \* the engines a run considers
  Sizes,    \* lengths a dump may have, in chunks
  Room      \* chunks the standard input of docker holds

ASSUME DumpRestoreAssumption ==
  /\ Engines \subseteq {"postgres", "mysql", "mongo", "redis"}
  /\ Sizes \subseteq Nat
  /\ Room \in Nat \ {0}

VARIABLES
  engine,   \* whose dump it is
  size,     \* its length when detection looked at it; the tar announces it
  actual,   \* what reading it yields now
  plain,    \* Postgres: it is SQL text, for psql
  broken,   \* ... and then an error instead of the end
  ctxDone,  \* ctx.Err() # nil
  read,     \* chunks read from the file
  writer,   \* the goroutine of streamDumpTar
  wErr,     \* writeErr: it ended with an error
  copier,   \* the goroutine of os/exec
  cErr,     \* it ended with a read error
  pipe,     \* chunks in the standard input of docker
  got,      \* chunks docker has read
  docker,   \* the process
  prOpen,   \* pr.Close() has not run yet
  pc,       \* where the engine is
  runErr,   \* the error of DockerInput
  refused,  \* the server refused part of it
  exitBad,  \* the process that restores ended with exit code # 0
  outcome   \* what is reported: an error, a result, or the copy made

dump    == <<engine, size, actual, plain, broken>>
stream  == <<read, writer, wErr, copier, cErr, pipe, got, docker>>
verdict == <<pc, runErr, refused, exitBad, outcome>>
vars    == <<dump, ctxDone, stream, prOpen, verdict>>

\* What docker has to read: the tar of redis ends with its trailer.
Whole == IF engine = "redis" THEN size + 1 ELSE actual

TypeOK ==
  /\ engine \in Engines
  /\ size \in Sizes /\ actual \in Sizes
  /\ plain \in BOOLEAN /\ broken \in BOOLEAN
  /\ ctxDone \in BOOLEAN
  /\ read \in 0 .. actual
  /\ writer \in {"none", "write", "done"}
  /\ wErr \in BOOLEAN
  /\ copier \in {"none", "read", "hold", "done"}
  /\ cErr \in BOOLEAN
  /\ pipe \in 0 .. Room
  /\ got \in 0 .. Whole
  /\ docker \in {"none", "run", "ok", "failed"}
  /\ prOpen \in BOOLEAN
  /\ pc \in {"start", "run", "close", "join", "judge", "restore", "returned"}
  /\ runErr \in {"none", "exit", "other"}
  /\ refused \in BOOLEAN /\ exitBad \in BOOLEAN
  /\ outcome \in {"none", "error", "copied", "clean", "errors"}

(* A file that changed since detection, or that does not read to its end.  *)
Init ==
  /\ engine \in Engines
  /\ size \in Sizes /\ actual \in Sizes
  /\ plain \in {FALSE, engine = "postgres"}
  /\ broken \in BOOLEAN
  /\ ctxDone \in BOOLEAN
  /\ read = 0
  /\ writer = IF engine = "redis" THEN "write" ELSE "none"
  /\ wErr = FALSE
  /\ copier = "none" /\ cErr = FALSE
  /\ pipe = 0 /\ got = 0
  /\ docker = "none"
  /\ prOpen = TRUE
  /\ pc = "start"
  /\ runErr = "none"
  /\ refused = FALSE /\ exitBad = FALSE
  /\ outcome = "none"

Cancel ==
  /\ pc # "returned"
  /\ ~ctxDone
  /\ ctxDone' = TRUE
  /\ UNCHANGED <<dump, stream, prOpen, verdict>>

-----------------------------------------------------------------------------
(* The writer.  A write to the io.Pipe is a meeting with the copier.       *)

(* A chunk of the body, then the trailer, which tw.Close writes when the   *)
(* body is as long as announced.                                           *)
WriterSends ==
  /\ writer = "write" /\ prOpen /\ copier = "read"
  /\ \/ /\ read < actual /\ read < size
        /\ read' = read + 1
        /\ UNCHANGED writer
     \/ /\ read = actual /\ actual = size /\ ~broken
        /\ writer' = "done"
        /\ UNCHANGED read
  /\ copier' = "hold"
  /\ UNCHANGED <<dump, ctxDone, wErr, cErr, pipe, got, docker, prOpen, verdict>>

(* It gives up: the reader is closed, the file does not read to its end,   *)
(* or it is longer or shorter than announced.                              *)
WriterFails ==
  /\ writer = "write"
  /\ \/ ~prOpen
     \/ read = actual /\ (broken \/ actual < size)
     \/ read = size /\ size < actual
  /\ writer' = "done"
  /\ wErr' = TRUE
  /\ UNCHANGED <<dump, ctxDone, read, copier, cErr, pipe, got, docker, prOpen,
                 verdict>>

-----------------------------------------------------------------------------
(* The copier.                                                             *)

(* The readers of the other engines are the file itself, decompressed on   *)
(* the way: a dump broken in the middle is a read error here.              *)
CopierReads ==
  /\ copier = "read"
  /\ \/ /\ engine # "redis" /\ read < actual
        /\ read' = read + 1
        /\ copier' = "hold"
        /\ UNCHANGED cErr
     \/ /\ engine # "redis" /\ read = actual
        /\ copier' = "done"
        /\ cErr' = broken
        /\ UNCHANGED read
     \/ /\ engine = "redis" /\ writer = "done"
        /\ copier' = "done"
        /\ UNCHANGED <<read, cErr>>
  /\ UNCHANGED <<dump, ctxDone, writer, wErr, pipe, got, docker, prOpen, verdict>>

(* A chunk into the process, or EPIPE, which os/exec does not report.      *)
CopierWrites ==
  /\ copier = "hold"
  /\ \/ /\ docker = "run" /\ pipe < Room
        /\ pipe' = pipe + 1
        /\ copier' = "read"
     \/ /\ docker \in {"ok", "failed"}
        /\ copier' = "done"
        /\ UNCHANGED pipe
  /\ UNCHANGED <<dump, ctxDone, read, writer, wErr, cErr, got, docker, prOpen,
                 verdict>>

-----------------------------------------------------------------------------
(* The docker process: `exec -i' of a shell or of mongorestore, or `cp -'. *)
DockerReads ==
  /\ docker = "run" /\ pipe > 0
  /\ pipe' = pipe - 1
  /\ got' = got + 1
  /\ UNCHANGED <<dump, ctxDone, read, writer, wErr, copier, cErr, docker,
                 prOpen, verdict>>

(* It ends well at the end of its input, or of the tar.                    *)
DockerEnds ==
  /\ docker = "run"
  /\ \/ copier = "done" /\ pipe = 0
     \/ engine = "redis" /\ got = Whole
  /\ docker' = "ok"
  /\ UNCHANGED <<dump, ctxDone, read, writer, wErr, copier, cErr, pipe, got,
                 prOpen, verdict>>

(* It fails, at any time, or ctx kills it.                                 *)
DockerDies ==
  /\ docker = "run"
  /\ docker' = "failed"
  /\ UNCHANGED <<dump, ctxDone, read, writer, wErr, copier, cErr, pipe, got,
                 prOpen, verdict>>

-----------------------------------------------------------------------------
(* The engine.                                                             *)

(* cmd.Start: with ctx done, or without a docker binary, nothing starts.   *)
Start ==
  /\ pc = "start"
  /\ \/ /\ ~ctxDone
        /\ docker' = "run" /\ copier' = "read"
        /\ pc' = "run"
        /\ UNCHANGED runErr
     \/ /\ runErr' = "other"
        /\ pc' = "close"
        /\ UNCHANGED <<docker, copier>>
  /\ UNCHANGED <<dump, ctxDone, read, writer, wErr, cErr, pipe, got, prOpen,
                 refused, exitBad, outcome>>

(* cmd.Wait: the process, then the copier.  A bad exit wins over the error *)
(* of the copier, and a context that died before a good one is an error.   *)
Wait ==
  /\ pc = "run"
  /\ docker \in {"ok", "failed"} /\ copier = "done"
  /\ runErr' \in IF docker = "failed" THEN {"exit"}
                 ELSE IF cErr THEN {"other"}
                 ELSE IF ctxDone THEN {"none", "other"} ELSE {"none"}
  /\ pc' = "close"
  /\ UNCHANGED <<dump, ctxDone, stream, prOpen, refused, exitBad, outcome>>

\* Mutant: the reader stays open.
CloseNothing == UNCHANGED prOpen

ClosePr == prOpen' = FALSE

\* Mutant: the writer is not waited for.
JoinNothing == TRUE

Joined == writer # "write"

(* pr.Close() unblocks the writer, then <-writeErr.                        *)
Collect ==
  /\ \/ pc = "close" /\ ClosePr /\ pc' = "join"
     \/ pc = "join" /\ Joined /\ pc' = "judge" /\ UNCHANGED prOpen
  /\ UNCHANGED <<dump, ctxDone, stream, runErr, refused, exitBad, outcome>>

Return(o) == pc' = "returned" /\ outcome' = o

\* Mutant: redis forgets the error of the writer.
CopyFailsLate == runErr # "none"

CopyFails == runErr # "none" \/ wErr

(* What CopyDump returns; Postgres and MySQL go on to their Restore.       *)
JudgeCopy ==
  /\ pc = "judge" /\ engine # "mongo"
  /\ \/ CopyFails /\ Return("error")
     \/ ~CopyFails /\ engine = "redis" /\ Return("copied")
     \/ ~CopyFails /\ engine # "redis" /\ pc' = "restore" /\ UNCHANGED outcome
  /\ UNCHANGED <<dump, ctxDone, stream, prOpen, runErr, refused, exitBad>>

\* Mutant: the exit code of mongorestore does not count.
MongoErrorsByLine(lines) == lines

(* Lines the engine recognises as errors; for mongo the exit code as well. *)
MongoErrors(lines) == lines \/ runErr = "exit"

JudgeMongo ==
  /\ pc = "judge" /\ engine = "mongo"
  /\ exitBad' = (runErr = "exit")
  /\ \/ /\ runErr = "other"
        /\ Return("error")
     \/ /\ runErr # "other"
        /\ \E lines \in BOOLEAN :
             Return(IF MongoErrors(lines) THEN "errors" ELSE "clean")
  /\ UNCHANGED <<dump, ctxDone, stream, prOpen, runErr, refused>>

(* Lines that the expression of the engine recognises: pg_restore and the  *)
(* client of MySQL write theirs as it expects, psql -f puts its file and   *)
(* line before each ERROR: and goes on, to end well.                       *)
Recognised(lines) ==
  /\ refused' /\ ~plain => lines
  /\ plain /\ ~exitBad' => ~lines

(* Restore of Postgres and MySQL/MariaDB: the client reads the copy, and   *)
(* ends as it likes; only recognised lines count, the exit code is kept    *)
(* and never looked at again.                                              *)
JudgeClient ==
  /\ pc = "restore"
  /\ \/ /\ Return("error")
        /\ UNCHANGED <<refused, exitBad>>
     \/ /\ refused' \in BOOLEAN
        /\ exitBad' \in IF ctxDone THEN {TRUE} ELSE BOOLEAN
        /\ \E lines \in BOOLEAN :
             Recognised(lines) /\ Return(IF lines THEN "errors" ELSE "clean")
  /\ UNCHANGED <<dump, ctxDone, stream, prOpen, runErr>>

Goroutines == WriterSends \/ WriterFails \/ CopierReads \/ CopierWrites

Main == Start \/ Wait \/ Collect \/ JudgeCopy \/ JudgeMongo \/ JudgeClient

Next == Cancel \/ Goroutines \/ DockerReads \/ DockerEnds \/ DockerDies \/ Main

(* Goroutines are scheduled; docker reads its input, and ends when it has  *)
(* read it all.  Nothing obliges it to fail.                               *)
Spec ==
  /\ Init /\ [][Next]_vars
  /\ WF_vars(Goroutines) /\ WF_vars(Main)
  /\ WF_vars(DockerReads) /\ WF_vars(DockerEnds)

-----------------------------------------------------------------------------
(* dockerhost.go:159-160, redis.go:286-322: a copy or a restore reported   *)
(* good has had the whole dump, not one that broke off, grew or shrank.    *)
DeliveredWhole ==
  outcome \in {"copied", "clean"} =>
    /\ got = Whole /\ read = actual /\ ~broken
    /\ engine = "redis" => actual = size

(* redis.go:288-289: when streamDumpTar returns and closes the file, the   *)
(* goroutine that reads it is gone, also when docker left early, or never  *)
(* started.                                                                *)
NoWriterLeft == pc = "returned" => writer # "write"

(* mongo.go:354-357: a mongorestore that ends with a bad exit code is      *)
(* never reported as a restore without errors.                             *)
MongoNeverSilent == engine = "mongo" /\ outcome = "clean" => ~exitBad

(* redis.go:289, "fechar o leitor destrava a escrita": no two of the       *)
(* engine, the writer, the copier and docker wait for each other forever.  *)
Returns == <>(pc = "returned")

(* tui.go:359, "restore sem erros", for every engine: the client that      *)
(* restored ended with exit code 0, and the server refused nothing.        *)
FailureIsReported == outcome = "clean" => ~exitBad /\ ~refused
=============================================================================
