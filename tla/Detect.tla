-------------------------------- MODULE Detect --------------------------------
(***************************************************************************)
(* From the command line to a Backup: the picker over data/, the dispute   *)
(* of the engines over a header, and --engine.                             *)
(*                                                                         *)
(* A file is what detection can tell of it: the signatures in its first    *)
(* 8 KB, decompressed, and its extension.  One whose compressed body does  *)
(* not read has no signature; one whose name ends in .gz has no extension  *)
(* an engine knows.  Other processes write data/ all the while: detection  *)
(* looks at a file twice, when the picker lists it and when it was picked. *)
(*                                                                         *)
(* What follows, the Provision of the engine that was chosen, is composed  *)
(* with it in module Main.                                                 *)
(***************************************************************************)
EXTENDS Naturals, Sequences

CONSTANTS
  N,         \* files of data/, in the order of their names
  Heads,     \* the sets of signatures a header may hold
  Endings,   \* the extensions files may have
  Flags,     \* values of --engine; "" when it is absent
  MaxWrites  \* bound: times another process changes a file

Signs == {"pgdmp", "pgplain", "mysql", "mariadb", "mongo", "rdb", "sqlite"}
Exts  == {".tar", ".sql", ".archive", ".rdb", ".sqlite", ".db", "other"}

(* The list of engines.go: its order settles ties.                         *)
Registry == <<"mariadb", "mongodb", "mysql", "postgres", "redis", "sqlite">>

Registered == {Registry[i] : i \in DOMAIN Registry}

ASSUME DetectAssumption ==
  /\ N \in Nat \ {0}
  /\ Heads \subseteq SUBSET Signs
  /\ Endings \subseteq Exts
  /\ "" \in Flags
  /\ MaxWrites \in Nat

(* "bad" is a file that is there, but does not open or decompress.         *)
Contents ==
  [state : {"ok"}, signs : Heads] \cup [state : {"gone", "bad"}, signs : {{}}]

Files == 1 .. N

VARIABLES
  ext,     \* the extension in each name
  dir,     \* the contents of each file now
  stale,   \* files changed since the picker looked at them
  writes,  \* changes so far
  forced,  \* --engine
  todo,    \* entries of ReadDir that findBackups has still to look at
  backups, \* the backupEntries: their file and label, "" for an Unknown one
  line,    \* the picker's cursor, from 1
  stage,   \* where main is
  picked,  \* dumpPath; 0 before there is one
  backup   \* what inspect returned

detectVars ==
  <<ext, dir, stale, writes, forced, todo, backups, line, stage, picked, backup>>

-----------------------------------------------------------------------------
(* The engines' Detect; 0 when one does not recognise the file.  A file    *)
(* here is its signatures and its extension.                               *)

Magic     == 100
Extension == 50
Guess     == 10

Claim(f, signs, exts, otherwise) ==
  IF f.signs \cap signs # {} THEN Magic
  ELSE IF f.ext \in exts THEN Extension ELSE otherwise

PostgresDetect(f) == Claim(f, {"pgdmp", "pgplain"}, {".tar"}, Guess)
MySQLDetect(f)    == Claim(f, {"mysql"}, {".sql"}, 0)
MariaDBDetect(f)  == Claim(f, {"mariadb"}, {}, 0)
MongoDetect(f)    == Claim(f, {"mongo"}, {".archive"}, 0)
RedisDetect(f)    == Claim(f, {"rdb"}, {".rdb"}, 0)
SQLiteDetect(f)   == Claim(f, {"sqlite"}, {".sqlite", ".db"}, 0)

Confidence(e, f) ==
  CASE e = "postgres" -> PostgresDetect(f)
    [] e = "mysql"    -> MySQLDetect(f)
    [] e = "mariadb"  -> MariaDBDetect(f)
    [] e = "mongodb"  -> MongoDetect(f)
    [] e = "redis"    -> RedisDetect(f)
    [] e = "sqlite"   -> SQLiteDetect(f)

NoEngine == [engine |-> "", confidence |-> 0]

\* Mutant: a tie goes to the last one.
BetterLast(c, best) == c > 0 /\ c >= best.confidence

Better(c, best) == c > 0 /\ (best = NoEngine \/ c > best.confidence)

(* One pass over the registry that keeps the best so far.                  *)
ChooseEngine(f) ==
  LET best[i \in 0 .. Len(Registry)] ==
        IF i = 0 THEN NoEngine
        ELSE LET e == Registry[i]
             IN  IF Better(Confidence(e, f), best[i - 1])
                 THEN [engine |-> e, confidence |-> Confidence(e, f)] ELSE best[i - 1]
  IN  best[Len(Registry)]

Guessed(best) == best.confidence <= Guess

NoBackup == [ok |-> FALSE]

Backup(name, guessed, f) ==
  [ok |-> TRUE, engine |-> name, guessed |-> guessed, file |-> f]

(* readHeader failing, the engine asked for, or the one that wins.         *)
Inspect(n, name) ==
  LET f    == [signs |-> dir[n].signs, ext |-> ext[n]]
      best == ChooseEngine(f)
  IN  IF dir[n].state # "ok" THEN NoBackup
      ELSE IF name # "" THEN Backup(name, FALSE, f)
      ELSE IF best = NoEngine THEN NoBackup
      ELSE Backup(best.engine, Guessed(best), f)

-----------------------------------------------------------------------------
DetectTypeOK ==
  /\ ext \in [Files -> Endings]
  /\ dir \in [Files -> Contents]
  /\ stale \subseteq Files
  /\ writes \in 0 .. MaxWrites
  /\ forced \in Flags
  /\ todo \subseteq Files
  /\ backups \in Seq([file : Files, label : Registered \cup {""}])
  /\ line \in 1 .. N /\ line <= Len(backups) + 1
  /\ stage \in {"args", "find", "pick", "inspect", "provision", "failed"}
  /\ stage = "pick" => line \in DOMAIN backups
  /\ picked \in 0 .. N
  /\ stage = "provision" <=> backup.ok

DetectInit ==
  /\ ext \in [Files -> Endings]
  /\ dir \in [Files -> Contents]
  /\ stale = Files
  /\ writes = 0
  /\ forced \in Flags
  /\ todo = {} /\ backups = <<>>
  /\ line = 1
  /\ stage = "args"
  /\ picked = 0
  /\ backup = NoBackup

(* A dump being written, replaced or removed.                              *)
Write(f) ==
  /\ stage \notin {"provision", "failed"}
  /\ writes < MaxWrites
  /\ \E c \in Contents \ {dir[f]} : dir' = [dir EXCEPT ![f] = c]
  /\ stale' = stale \cup {f}
  /\ writes' = writes + 1
  /\ UNCHANGED <<ext, forced, todo, backups, line, stage, picked, backup>>

(* main: a name --engine does not know ends it before anything is listed;  *)
(* the argument is the dump; without one, ReadDir.                         *)
Args ==
  /\ stage = "args"
  /\ \/ /\ forced \notin Registered \cup {""}
        /\ stage' = "failed"
        /\ UNCHANGED <<todo, picked>>
     \/ /\ forced \in Registered \cup {""}
        /\ \/ /\ \E f \in Files : picked' = f
              /\ stage' = "inspect"
              /\ UNCHANGED todo
           \/ /\ todo' = {f \in Files : dir[f].state # "gone"}
              /\ stage' = "find"
              /\ UNCHANGED picked
  /\ UNCHANGED <<ext, dir, stale, writes, forced, backups, line, backup>>

(* The engine of a line: InspectDump is asked without --engine.            *)
Label(f) == LET b == Inspect(f, "") IN IF b.ok THEN b.engine ELSE ""

(* findBackups on one entry, in the order of the names: Info skips the     *)
(* file that has gone meanwhile.                                           *)
Find ==
  /\ stage = "find"
  /\ \E f \in todo :
       /\ \A g \in todo : f <= g
       /\ backups' = IF dir[f].state = "gone" THEN backups
                  ELSE Append(backups, [file |-> f, label |-> Label(f)])
       /\ stale' = stale \ {f}
       /\ todo' = todo \ {f}
  /\ UNCHANGED <<ext, dir, writes, forced, line, stage, picked, backup>>

(* PickDump: an empty list is an error.                                    *)
Found ==
  /\ stage = "find" /\ todo = {}
  /\ stage' = IF backups = <<>> THEN "failed" ELSE "pick"
  /\ UNCHANGED <<ext, dir, stale, writes, forced, todo, backups, line, picked, backup>>

\* Mutant: the file is looked up by its place in the directory.
PathByPlace == line

PathAtCursor == backups[line].file

Selectable == backups[line].label # ""

\* Mutant: the cursor leaves the list.
BelowAny == line + 1

Below == IF line < Len(backups) THEN line + 1 ELSE line

(* The picker's keys: up, down, quit, enter.                               *)
Pick ==
  /\ stage = "pick"
  /\ \/ /\ line' = IF line > 1 THEN line - 1 ELSE line
        /\ UNCHANGED <<stage, picked>>
     \/ /\ line' = Below
        /\ UNCHANGED <<stage, picked>>
     \/ /\ stage' = "failed"
        /\ UNCHANGED <<line, picked>>
     \/ /\ Selectable
        /\ picked' = PathAtCursor
        /\ stage' = "inspect"
        /\ UNCHANGED line
  /\ UNCHANGED <<ext, dir, stale, writes, forced, todo, backups, backup>>

(* InspectDumpAs, which reads the file anew.                               *)
InspectDump ==
  /\ stage = "inspect"
  /\ backup' = Inspect(picked, forced)
  /\ stage' = IF backup'.ok THEN "provision" ELSE "failed"
  /\ UNCHANGED <<ext, dir, stale, writes, forced, todo, backups, line, picked>>

(* All that comes before the inspection, and the writers meanwhile.        *)
ChooseDump ==
  \/ \E f \in Files : Write(f)
  \/ Args \/ Find \/ Found \/ Pick

DetectNext == ChooseDump \/ InspectDump

DetectSpec == DetectInit /\ [][DetectNext]_detectVars

-----------------------------------------------------------------------------
(* detect.go:8-10: the engine that is provisioned has the highest          *)
(* confidence in the file as it was inspected, and is the first of those.  *)
ChosenIsBest ==
  stage = "provision" /\ forced = "" =>
    \E i \in DOMAIN Registry :
      /\ backup.engine = Registry[i]
      /\ Confidence(Registry[i], backup.file) > 0
      /\ \A j \in DOMAIN Registry :
           LET c == Confidence(Registry[i], backup.file)
               d == Confidence(Registry[j], backup.file)
           IN  d < c \/ (d = c /\ i <= j)

(* picker.go:15-25: a file that nobody touched since it was listed is      *)
(* inspected as the line under the cursor said: same file, same engine.    *)
PickerKeepsItsWord ==
  stage \in {"provision", "failed"} /\ backups # <<>> /\ picked # 0 =>
    /\ picked = backups[line].file
    /\ picked \notin stale /\ forced = "" =>
         backup.ok /\ backup.engine = backups[line].label
=============================================================================
