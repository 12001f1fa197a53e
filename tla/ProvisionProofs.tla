--------------------------- MODULE ProvisionProofs ---------------------------
(***************************************************************************)
(* Proofs about Provision, for any set of engines: the plans are shown to  *)
(* fit together entry by entry, and the invariant, the two promises about  *)
(* what Provision returns and the refinement of ProvisionContract follow.  *)
(***************************************************************************)
EXTENDS Provision, TLAPS

EntryType == [op : Ops, gain : SUBSET Resources, undo : SUBSET Resources]

(* Entry i of a plan, by itself.  `judge' is the one entry that yields the *)
(* RestoreResult; `early' the one that may return a Session before the end *)
(* of the plan, 0 when there is none.                                      *)
EntryFits(plan, judge, early, i) ==
  /\ plan[i] \in EntryType
  /\ plan[i].op \in YieldsResult <=> i = judge
  /\ plan[i].op \in YieldsResult => plan[i].gain \subseteq {"log"}
  /\ plan[i].op \notin YieldsResult => "log" \notin plan[i].gain
  /\ plan[i].op = "moved" => plan[i].gain = {}
  /\ plan[i].op = "bail" =>
       /\ i = early
       /\ plan[i].gain = {}
       /\ plan[i].undo \cap {"container", "tmp"} # {}

(* Entry i + 1 undoes what entry i undoes and what entry i creates.        *)
EntryFollows(plan, i) ==
  /\ plan[i + 1].undo \ {"log"} = (plan[i].undo \cup plan[i].gain) \ {"log"}
  /\ /\ "log" \in plan[i].undo \cup plan[i].gain
     /\ plan[i].op # "bail"
     => "log" \in plan[i + 1].undo

(* The first call has nothing to undo; the last one checks the context     *)
(* with everything a Session needs already there.                          *)
EndsWell(plan) ==
  /\ Len(plan) \in Nat \ {0}
  /\ plan[1].undo = {}
  /\ plan[Len(plan)].op = "check"
  /\ "client" \in plan[Len(plan)].undo
  /\ plan[Len(plan)].undo \cap {"container", "tmp"} # {}

WellFormed(plan, judge, early) ==
  /\ EndsWell(plan)
  /\ \A i \in 1 .. Len(plan) : EntryFits(plan, judge, early, i)
  /\ \A i \in 1 .. Len(plan) - 1 : EntryFollows(plan, i)

(* Every error branch of PostgresPlan undoes what its predecessors made.  *)
LEMMA PostgresWellFormed == WellFormed(PostgresPlan, 10, 0)
<1> DEFINE P == PostgresPlan
           Fits(i) == EntryFits(P, 10, 0, i)
           Follows(i) == EntryFollows(P, i)
<1>1. Len(P) = 13
  BY DEF PostgresPlan
<1>2. EndsWell(P)
  BY DEF EndsWell, PostgresPlan, Entry, Check, Call, Blind, Box
<1>3. Fits(1) /\ Fits(2) /\ Fits(3) /\ Fits(4)
  BY DEF EntryFits, EntryType, Ops, YieldsResult, Resources,
         Contract!Resources, PostgresPlan, Entry, Check, Call, Blind, Box
<1>4. Fits(5) /\ Fits(6) /\ Fits(7) /\ Fits(8)
  BY DEF EntryFits, EntryType, Ops, YieldsResult, Resources,
         Contract!Resources, PostgresPlan, Entry, Check, Call, Blind, Box
<1>5. Fits(9) /\ Fits(10) /\ Fits(11) /\ Fits(12)
  BY DEF EntryFits, EntryType, Ops, YieldsResult, Resources,
         Contract!Resources, PostgresPlan, Entry, Check, Call, Blind, Box
<1>6. Fits(13)
  BY DEF EntryFits, EntryType, Ops, YieldsResult, Resources,
         Contract!Resources, PostgresPlan, Entry, Check, Call, Blind, Box
<1>7. Follows(1) /\ Follows(2) /\ Follows(3) /\ Follows(4)
  BY DEF EntryFollows, PostgresPlan, Entry, Check, Call, Blind, Box
<1>8. Follows(5) /\ Follows(6) /\ Follows(7) /\ Follows(8)
  BY DEF EntryFollows, PostgresPlan, Entry, Check, Call, Blind, Box
<1>9. Follows(9) /\ Follows(10) /\ Follows(11) /\ Follows(12)
  BY DEF EntryFollows, PostgresPlan, Entry, Check, Call, Blind, Box
<1> HIDE DEF Fits, Follows
<1>10. \A i \in 1 .. 13 : Fits(i)
  BY <1>3, <1>4, <1>5, <1>6
<1>11. \A i \in 1 .. 12 : Follows(i)
  BY <1>7, <1>8, <1>9
<1> HIDE DEF P
<1>12. \A i \in 1 .. Len(P) : EntryFits(P, 10, 0, i)
  BY <1>1, <1>10 DEF Fits
<1>13. \A i \in 1 .. Len(P) - 1 : EntryFollows(P, i)
  BY <1>1, <1>11 DEF Follows
<1>14. WellFormed(P, 10, 0)
  BY <1>2, <1>12, <1>13 DEF WellFormed
<1>15. QED
  BY <1>14 DEF P

(* Every error branch of MySQLPlan undoes what its predecessors made.  *)
LEMMA MySQLWellFormed == WellFormed(MySQLPlan, 10, 0)
<1> DEFINE P == MySQLPlan
           Fits(i) == EntryFits(P, 10, 0, i)
           Follows(i) == EntryFollows(P, i)
<1>1. Len(P) = 13
  BY DEF MySQLPlan
<1>2. EndsWell(P)
  BY DEF EndsWell, MySQLPlan, Entry, Check, Call, Blind, Box
<1>3. Fits(1) /\ Fits(2) /\ Fits(3) /\ Fits(4)
  BY DEF EntryFits, EntryType, Ops, YieldsResult, Resources,
         Contract!Resources, MySQLPlan, Entry, Check, Call, Blind, Box
<1>4. Fits(5) /\ Fits(6) /\ Fits(7) /\ Fits(8)
  BY DEF EntryFits, EntryType, Ops, YieldsResult, Resources,
         Contract!Resources, MySQLPlan, Entry, Check, Call, Blind, Box
<1>5. Fits(9) /\ Fits(10) /\ Fits(11) /\ Fits(12)
  BY DEF EntryFits, EntryType, Ops, YieldsResult, Resources,
         Contract!Resources, MySQLPlan, Entry, Check, Call, Blind, Box
<1>6. Fits(13)
  BY DEF EntryFits, EntryType, Ops, YieldsResult, Resources,
         Contract!Resources, MySQLPlan, Entry, Check, Call, Blind, Box
<1>7. Follows(1) /\ Follows(2) /\ Follows(3) /\ Follows(4)
  BY DEF EntryFollows, MySQLPlan, Entry, Check, Call, Blind, Box
<1>8. Follows(5) /\ Follows(6) /\ Follows(7) /\ Follows(8)
  BY DEF EntryFollows, MySQLPlan, Entry, Check, Call, Blind, Box
<1>9. Follows(9) /\ Follows(10) /\ Follows(11) /\ Follows(12)
  BY DEF EntryFollows, MySQLPlan, Entry, Check, Call, Blind, Box
<1> HIDE DEF Fits, Follows
<1>10. \A i \in 1 .. 13 : Fits(i)
  BY <1>3, <1>4, <1>5, <1>6
<1>11. \A i \in 1 .. 12 : Follows(i)
  BY <1>7, <1>8, <1>9
<1> HIDE DEF P
<1>12. \A i \in 1 .. Len(P) : EntryFits(P, 10, 0, i)
  BY <1>1, <1>10 DEF Fits
<1>13. \A i \in 1 .. Len(P) - 1 : EntryFollows(P, i)
  BY <1>1, <1>11 DEF Follows
<1>14. WellFormed(P, 10, 0)
  BY <1>2, <1>12, <1>13 DEF WellFormed
<1>15. QED
  BY <1>14 DEF P

(* Every error branch of MongoPlan undoes what its predecessors made.  *)
LEMMA MongoWellFormed == WellFormed(MongoPlan, 8, 0)
<1> DEFINE P == MongoPlan
           Fits(i) == EntryFits(P, 8, 0, i)
           Follows(i) == EntryFollows(P, i)
<1>1. Len(P) = 12
  BY DEF MongoPlan
<1>2. EndsWell(P)
  BY DEF EndsWell, MongoPlan, Entry, Check, Call, Blind, Box
<1>3. Fits(1) /\ Fits(2) /\ Fits(3) /\ Fits(4)
  BY DEF EntryFits, EntryType, Ops, YieldsResult, Resources,
         Contract!Resources, MongoPlan, Entry, Check, Call, Blind, Box
<1>4. Fits(5) /\ Fits(6) /\ Fits(7) /\ Fits(8)
  BY DEF EntryFits, EntryType, Ops, YieldsResult, Resources,
         Contract!Resources, MongoPlan, Entry, Check, Call, Blind, Box
<1>5. Fits(9) /\ Fits(10) /\ Fits(11) /\ Fits(12)
  BY DEF EntryFits, EntryType, Ops, YieldsResult, Resources,
         Contract!Resources, MongoPlan, Entry, Check, Call, Blind, Box
<1>6. Follows(1) /\ Follows(2) /\ Follows(3) /\ Follows(4)
  BY DEF EntryFollows, MongoPlan, Entry, Check, Call, Blind, Box
<1>7. Follows(5) /\ Follows(6) /\ Follows(7) /\ Follows(8)
  BY DEF EntryFollows, MongoPlan, Entry, Check, Call, Blind, Box
<1>8. Follows(9) /\ Follows(10) /\ Follows(11)
  BY DEF EntryFollows, MongoPlan, Entry, Check, Call, Blind, Box
<1> HIDE DEF Fits, Follows
<1>9. \A i \in 1 .. 12 : Fits(i)
  BY <1>3, <1>4, <1>5
<1>10. \A i \in 1 .. 11 : Follows(i)
  BY <1>6, <1>7, <1>8
<1> HIDE DEF P
<1>11. \A i \in 1 .. Len(P) : EntryFits(P, 8, 0, i)
  BY <1>1, <1>9 DEF Fits
<1>12. \A i \in 1 .. Len(P) - 1 : EntryFollows(P, i)
  BY <1>1, <1>10 DEF Follows
<1>13. WellFormed(P, 8, 0)
  BY <1>2, <1>11, <1>12 DEF WellFormed
<1>14. QED
  BY <1>13 DEF P

(* Every error branch of RedisPlan undoes what its predecessors made.  *)
LEMMA RedisWellFormed == WellFormed(RedisPlan, 6, 7)
<1> DEFINE P == RedisPlan
           Fits(i) == EntryFits(P, 6, 7, i)
           Follows(i) == EntryFollows(P, i)
<1>1. Len(P) = 10
  BY DEF RedisPlan
<1>2. EndsWell(P)
  BY DEF EndsWell, RedisPlan, Entry, Check, Call, Blind, Box
<1>3. Fits(1) /\ Fits(2) /\ Fits(3) /\ Fits(4)
  BY DEF EntryFits, EntryType, Ops, YieldsResult, Resources,
         Contract!Resources, RedisPlan, Entry, Check, Call, Blind, Box
<1>4. Fits(5) /\ Fits(6) /\ Fits(7) /\ Fits(8)
  BY DEF EntryFits, EntryType, Ops, YieldsResult, Resources,
         Contract!Resources, RedisPlan, Entry, Check, Call, Blind, Box
<1>5. Fits(9) /\ Fits(10)
  BY DEF EntryFits, EntryType, Ops, YieldsResult, Resources,
         Contract!Resources, RedisPlan, Entry, Check, Call, Blind, Box
<1>6. Follows(1) /\ Follows(2) /\ Follows(3) /\ Follows(4)
  BY DEF EntryFollows, RedisPlan, Entry, Check, Call, Blind, Box
<1>7. Follows(5) /\ Follows(6) /\ Follows(7) /\ Follows(8)
  BY DEF EntryFollows, RedisPlan, Entry, Check, Call, Blind, Box
<1>8. Follows(9)
  BY DEF EntryFollows, RedisPlan, Entry, Check, Call, Blind, Box
<1> HIDE DEF Fits, Follows
<1>9. \A i \in 1 .. 10 : Fits(i)
  BY <1>3, <1>4, <1>5
<1>10. \A i \in 1 .. 9 : Follows(i)
  BY <1>6, <1>7, <1>8
<1> HIDE DEF P
<1>11. \A i \in 1 .. Len(P) : EntryFits(P, 6, 7, i)
  BY <1>1, <1>9 DEF Fits
<1>12. \A i \in 1 .. Len(P) - 1 : EntryFollows(P, i)
  BY <1>1, <1>10 DEF Follows
<1>13. WellFormed(P, 6, 7)
  BY <1>2, <1>11, <1>12 DEF WellFormed
<1>14. QED
  BY <1>13 DEF P

(* Every error branch of SQLitePlan undoes what its predecessors made.  *)
LEMMA SQLiteWellFormed == WellFormed(SQLitePlan, 5, 0)
<1> DEFINE P == SQLitePlan
           Fits(i) == EntryFits(P, 5, 0, i)
           Follows(i) == EntryFollows(P, i)
<1>1. Len(P) = 6
  BY DEF SQLitePlan
<1>2. EndsWell(P)
  BY DEF EndsWell, SQLitePlan, Entry, Check, Call, Blind, Box
<1>3. Fits(1) /\ Fits(2) /\ Fits(3) /\ Fits(4)
  BY DEF EntryFits, EntryType, Ops, YieldsResult, Resources,
         Contract!Resources, SQLitePlan, Entry, Check, Call, Blind, Box
<1>4. Fits(5) /\ Fits(6)
  BY DEF EntryFits, EntryType, Ops, YieldsResult, Resources,
         Contract!Resources, SQLitePlan, Entry, Check, Call, Blind, Box
<1>5. Follows(1) /\ Follows(2) /\ Follows(3) /\ Follows(4)
  BY DEF EntryFollows, SQLitePlan, Entry, Check, Call, Blind, Box
<1>6. Follows(5)
  BY DEF EntryFollows, SQLitePlan, Entry, Check, Call, Blind, Box
<1> HIDE DEF Fits, Follows
<1>7. \A i \in 1 .. 6 : Fits(i)
  BY <1>3, <1>4
<1>8. \A i \in 1 .. 5 : Follows(i)
  BY <1>5, <1>6
<1> HIDE DEF P
<1>9. \A i \in 1 .. Len(P) : EntryFits(P, 5, 0, i)
  BY <1>1, <1>7 DEF Fits
<1>10. \A i \in 1 .. Len(P) - 1 : EntryFollows(P, i)
  BY <1>1, <1>8 DEF Follows
<1>11. WellFormed(P, 5, 0)
  BY <1>2, <1>9, <1>10 DEF WellFormed
<1>12. QED
  BY <1>11 DEF P

LEMMA PlanWellFormed ==
  ASSUME engine \in Engines
  PROVE  \E judge \in Nat, early \in Nat :
           /\ WellFormed(Plan, judge, early)
           /\ engine # "redis" => early = 0
<1>1. CASE engine = "postgres"
  BY <1>1, PostgresWellFormed DEF Plan, PlanOf
<1>2. CASE engine = "mysql"
  BY <1>2, MySQLWellFormed DEF Plan, PlanOf
<1>3. CASE engine = "mongo"
  BY <1>3, MongoWellFormed DEF Plan, PlanOf
<1>4. CASE engine = "redis"
  BY <1>4, RedisWellFormed DEF Plan, PlanOf
<1>5. CASE engine = "sqlite"
  BY <1>5, SQLiteWellFormed DEF Plan, PlanOf
<1>6. QED
  BY <1>1, <1>2, <1>3, <1>4, <1>5, EnginesAssumption

(* The inductive invariant: the run's invariants, and that the one restore *)
(* result is not overwritten by a later one.                               *)
JudgedOnce ==
  resErr => \A i \in pc .. Len(Plan) :
              outcome = "running" => Plan[i].op \notin YieldsResult

IndInv ==
  /\ TypeOK
  /\ HeldIsUndone
  /\ JudgedOnce
  /\ ErrorLeavesNothing
  /\ SessionIsUsable

LEMMA TypeFacts ==
  ASSUME TypeOK
  PROVE  /\ ctxDone \in BOOLEAN
         /\ held \in SUBSET Resources
         /\ stuck \in SUBSET Resources
         /\ outcome \in {"running", "session", "error"}
         /\ engine \in Engines
         /\ pc \in 1 .. Len(Plan)
         /\ resErr \in BOOLEAN
         /\ Len(Plan) \in Nat \ {0}
         /\ Now \in EntryType
<1>1. PICK judge \in Nat, early \in Nat :
              WellFormed(Plan, judge, early) /\ (engine # "redis" => early = 0)
  BY PlanWellFormed DEF TypeOK
<1>2. Len(Plan) \in Nat \ {0} /\ Now \in EntryType
  BY <1>1 DEF WellFormed, EndsWell, EntryFits, Now, TypeOK
<1>3. QED
  BY <1>2 DEF TypeOK, Contract!TypeOK, Contract!Outcomes, Resources

(* What the plan says of the entry about to run ...                        *)
LEMMA NowFits ==
  ASSUME TypeOK
  PROVE  /\ Now.op \in YieldsResult => Now.gain \subseteq {"log"}
         /\ Now.op \notin YieldsResult => "log" \notin Now.gain
         /\ Now.op = "moved" => Now.gain = {}
         /\ Now.op = "bail" => /\ engine = "redis"
                               /\ Now.gain = {}
                               /\ Now.undo \cap {"container", "tmp"} # {}
         /\ Last => /\ Now.op = "check"
                    /\ "client" \in Now.undo
                    /\ Now.undo \cap {"container", "tmp"} # {}
<1>1. PICK judge \in Nat, early \in Nat :
              WellFormed(Plan, judge, early) /\ (engine # "redis" => early = 0)
  BY PlanWellFormed DEF TypeOK
<1>2. EntryFits(Plan, judge, early, pc) /\ EndsWell(Plan)
  BY <1>1 DEF WellFormed, TypeOK
<1>3. QED
  BY <1>1, <1>2 DEF EntryFits, EndsWell, Now, Last, TypeOK

(* ... and of the one after it.                                            *)
LEMMA NextFollows ==
  ASSUME TypeOK, ~Last
  PROVE  /\ pc + 1 \in 1 .. Len(Plan)
         /\ Plan[pc + 1].undo \ {"log"} = (Now.undo \cup Now.gain) \ {"log"}
         /\ "log" \in Now.undo \cup Now.gain /\ Now.op # "bail"
              => "log" \in Plan[pc + 1].undo
         /\ Now.op \in YieldsResult =>
              \A i \in pc + 1 .. Len(Plan) : Plan[i].op \notin YieldsResult
<1>1. PICK judge \in Nat, early \in Nat :
              WellFormed(Plan, judge, early) /\ (engine # "redis" => early = 0)
  BY PlanWellFormed DEF TypeOK
<1>2. /\ pc \in 1 .. Len(Plan) /\ Len(Plan) \in Nat /\ pc # Len(Plan)
      /\ pc \in 1 .. Len(Plan) - 1 /\ pc + 1 \in 1 .. Len(Plan)
  BY TypeFacts DEF Last
<1>3. EntryFollows(Plan, pc)
  BY <1>1, <1>2 DEF WellFormed
<1>4. ASSUME Now.op \in YieldsResult, NEW i \in pc + 1 .. Len(Plan)
      PROVE  Plan[i].op \notin YieldsResult
  <2>1. i \in 1 .. Len(Plan) /\ i # pc
    BY <1>2
  <2>2. EntryFits(Plan, judge, early, pc) /\ EntryFits(Plan, judge, early, i)
    BY <1>1, <1>2, <2>1 DEF WellFormed
  <2>3. QED
    BY <1>4, <2>1, <2>2 DEF EntryFits, Now
<1>5. QED
  BY <1>2, <1>3, <1>4 DEF EntryFollows, Now

LEMMA InitInv == Init => IndInv
<1> SUFFICES ASSUME Init PROVE IndInv
  OBVIOUS
<1>1. EndsWell(Plan)
  BY PlanWellFormed DEF Init, WellFormed
<1>2. 1 \in 1 .. Len(Plan)
  BY <1>1 DEF EndsWell
<1>3. Contract!TypeOK
  BY DEF Init, Contract!Init, Contract!TypeOK, Contract!Outcomes
<1>4. TypeOK
  BY <1>2, <1>3 DEF Init, TypeOK
<1>5. HeldIsUndone
  BY <1>1 DEF Init, Contract!Init, HeldIsUndone, Now, EndsWell
<1>6. QED
  BY <1>4, <1>5 DEF Init, Contract!Init, IndInv, JudgedOnce, ErrorLeavesNothing,
                    Contract!ErrorLeavesNothing, SessionIsUsable

(* Pass, Judge and Bail move on along the plan or return a Session; what   *)
(* they do to the resources differs, what it means for the invariant does  *)
(* not.                                                                    *)
LEMMA AdvanceInv ==
  ASSUME IndInv, outcome = "running", Advance,
         UNCHANGED <<ctxDone, stuck, engine>>,
         held' \subseteq held \cup Now.gain,
         held \subseteq held',
         Now.gain \ {"log"} \subseteq held',
         "log" \in held' => resErr',
         resErr' \in BOOLEAN,
         Now.op = "bail" => ~resErr',
         resErr' => resErr \/ Now.op \in YieldsResult,
         resErr => resErr'
  PROVE  IndInv'
<1>1. TypeOK /\ HeldIsUndone /\ JudgedOnce
  BY DEF IndInv
<1>2. Plan' = Plan
  BY DEF Plan
<1>3. held' \in SUBSET Resources /\ outcome' \in {"running", "session"} /\ outcome' # "error"
  BY <1>1, TypeFacts DEF Advance, EntryType
<1>4. pc' \in 1 .. Len(Plan)
  BY <1>1, TypeFacts, NextFollows DEF Advance
<1>5. TypeOK'
  BY <1>1, <1>2, <1>3, <1>4, TypeFacts
     DEF TypeOK, Contract!TypeOK, Contract!Outcomes, Resources
<1>6. ErrorLeavesNothing'
  BY <1>3 DEF ErrorLeavesNothing, Contract!ErrorLeavesNothing
<1>7. /\ held \ {"log"} = Now.undo \ {"log"}
      /\ "log" \in held => "log" \in Now.undo
  BY <1>1 DEF HeldIsUndone
<1>8. CASE Last
  <2>1. outcome' = "session"
    BY <1>8 DEF Advance
  <2>2. SessionIsUsable'
    BY <1>1, <1>7, <1>8, NowFits DEF SessionIsUsable
  <2>3. HeldIsUndone' /\ JudgedOnce'
    BY <2>1 DEF HeldIsUndone, JudgedOnce
  <2>4. QED
    BY <1>5, <1>6, <2>2, <2>3 DEF IndInv
<1>9. CASE ~Last
  <2>1. outcome' = "running" /\ pc' = pc + 1
    BY <1>9 DEF Advance
  <2>2. Now' = Plan[pc + 1]
    BY <1>2, <2>1 DEF Now
  <2>3. held' \ {"log"} = Plan[pc + 1].undo \ {"log"}
    BY <1>1, <1>7, <1>9, NextFollows
  <2>4. "log" \in held' => "log" \in Plan[pc + 1].undo /\ resErr'
    BY <1>1, <1>7, <1>9, NextFollows
  <2>5. HeldIsUndone'
    BY <2>2, <2>3, <2>4 DEF HeldIsUndone
  <2>6. JudgedOnce'
    <3>1. ASSUME resErr', NEW i \in pc + 1 .. Len(Plan)
          PROVE  Plan[i].op \notin YieldsResult
      <4>1. i \in pc .. Len(Plan)
        BY <1>1, TypeFacts
      <4>2. CASE Now.op \in YieldsResult
        BY <1>1, <1>9, <4>2, NextFollows
      <4>3. CASE resErr
        BY <1>1, <4>1, <4>3 DEF JudgedOnce
      <4>4. QED
        BY <3>1, <4>2, <4>3
    <3>2. QED
      BY <1>2, <2>1, <3>1 DEF JudgedOnce
  <2>7. SessionIsUsable'
    BY <2>1 DEF SessionIsUsable
  <2>8. QED
    BY <1>5, <1>6, <2>5, <2>6, <2>7 DEF IndInv
<1>10. QED
  BY <1>8, <1>9

LEMMA NextInv == IndInv /\ [Next]_vars => IndInv'
<1> SUFFICES ASSUME IndInv, [Next]_vars PROVE IndInv'
  OBVIOUS
<1>0. TypeOK /\ HeldIsUndone /\ JudgedOnce /\ ErrorLeavesNothing /\ SessionIsUsable
  BY DEF IndInv
<1>1. CASE Cancel
  BY <1>0, <1>1, TypeFacts
     DEF Cancel, IndInv, TypeOK, Contract!TypeOK, Contract!Outcomes, Resources, HeldIsUndone, JudgedOnce,
         ErrorLeavesNothing, Contract!ErrorLeavesNothing, SessionIsUsable, Now, Plan
<1>2. CASE Pass
  <2>1. /\ outcome = "running" /\ Advance /\ UNCHANGED <<ctxDone, stuck, engine>>
        /\ held' = held \cup Now.gain /\ resErr' = resErr
        /\ Now.op \notin YieldsResult /\ Now.op # "bail"
    BY <1>2 DEF Pass
  <2>2. "log" \in held' => resErr
    BY <1>0, <2>1, NowFits DEF HeldIsUndone
  <2>3. QED
    BY <1>0, <2>1, <2>2, TypeFacts, AdvanceInv
<1>3. CASE Judge
  <2>1. /\ outcome = "running" /\ Advance /\ UNCHANGED <<ctxDone, stuck, engine>>
        /\ Now.op \in YieldsResult /\ resErr' \in BOOLEAN
    BY <1>0, <1>3, TypeFacts DEF Judge
  <2>2. PICK log \in IF resErr' THEN SUBSET Now.gain ELSE {{}} : held' = held \cup log
    BY <1>3 DEF Judge
  <2>3. ~resErr
    BY <1>0, <2>1, TypeFacts DEF JudgedOnce, Now
  <2>4. log \subseteq Now.gain /\ ("log" \in log => resErr') /\ Now.gain \subseteq {"log"}
    BY <1>0, <2>1, <2>2, NowFits
  <2>5. "log" \notin held
    BY <1>0, <2>1, <2>3 DEF HeldIsUndone
  <2>6. Now.op # "bail"
    BY <2>1 DEF YieldsResult
  <2>7. QED
    BY <2>1, <2>2, <2>3, <2>4, <2>5, <2>6, AdvanceInv
<1>4. CASE Bail
  <2>1. /\ outcome = "running" /\ Now.op = "bail" /\ held' = held /\ resErr' = resErr
        /\ UNCHANGED <<ctxDone, stuck, engine>>
    BY <1>4 DEF Bail
  <2>2. Now.gain = {} /\ engine = "redis" /\ Now.undo \cap {"container", "tmp"} # {}
    BY <1>0, <2>1, NowFits
  <2>3. CASE resErr
    <3>1. outcome' = "session" /\ pc' = pc
      BY <1>4, <2>3 DEF Bail
    <3>2. SessionIsUsable'
      BY <1>0, <2>1, <2>2, <2>3, <3>1 DEF SessionIsUsable, HeldIsUndone
    <3>3. QED
      BY <1>0, <2>1, <3>1, <3>2, TypeFacts
         DEF IndInv, TypeOK, Contract!TypeOK, Contract!Outcomes, Resources, HeldIsUndone, JudgedOnce,
             ErrorLeavesNothing, Contract!ErrorLeavesNothing, Plan
  <2>4. CASE ~resErr
    <3>1. Advance
      BY <1>4, <2>4 DEF Bail
    <3>2. "log" \notin held
      BY <1>0, <2>1, <2>4 DEF HeldIsUndone
    <3>3. QED
      BY <1>0, <2>1, <2>2, <2>4, <3>1, <3>2, TypeFacts, AdvanceInv
  <2>5. QED
    BY <2>3, <2>4
<1>5. CASE Fail
  <2>1. /\ outcome = "running" /\ outcome' = "error"
        /\ UNCHANGED <<ctxDone, engine, pc, resErr>>
    BY <1>5 DEF Fail
  <2>2. PICK left \in SUBSET (((held \cap Now.undo) \cup (Now.gain \ {"log"})) \ {"client"}) :
              held' = (held \ Now.undo) \cup left /\ stuck' = stuck \cup left
    BY <1>5 DEF Fail
  <2>3. held \subseteq Now.undo
    BY <1>0, <2>1 DEF HeldIsUndone
  <2>4. left \subseteq Resources
    BY <1>0, <2>2, TypeFacts DEF EntryType
  <2>5. held' = left /\ held' \subseteq stuck'
    BY <2>2, <2>3
  <2>6. TypeOK'
    BY <1>0, <2>1, <2>2, <2>4, <2>5, TypeFacts
       DEF TypeOK, Contract!TypeOK, Contract!Outcomes, Resources, Plan
  <2>7. QED
    BY <2>1, <2>5, <2>6
       DEF IndInv, HeldIsUndone, JudgedOnce, ErrorLeavesNothing,
           Contract!ErrorLeavesNothing, SessionIsUsable
<1>6. CASE UNCHANGED vars
  BY <1>0, <1>6, TypeFacts
     DEF vars, IndInv, TypeOK, Contract!TypeOK, Contract!Outcomes, Resources, HeldIsUndone, JudgedOnce,
         ErrorLeavesNothing, Contract!ErrorLeavesNothing, SessionIsUsable, Now, Plan
<1>7. QED
  BY <1>1, <1>2, <1>3, <1>4, <1>5, <1>6 DEF Next

LEMMA InvHolds == Spec => []IndInv
  BY InitInv, NextInv, PTL DEF Spec

(* The variables keep their types; pc stays inside the engine's plan.      *)
THEOREM TypeCorrect == Spec => []TypeOK
<1>1. IndInv => TypeOK
  BY DEF IndInv
<1>2. QED
  BY <1>1, InvHolds, PTL

(* At every call of every engine, the error branch removes exactly what    *)
(* exists.                                                                 *)
THEOREM UndoIsExact == Spec => []HeldIsUndone
<1>1. IndInv => HeldIsUndone
  BY DEF IndInv
<1>2. QED
  BY <1>1, InvHolds, PTL

(* engine.go:191-193, for every engine: an error leaves nothing behind but *)
(* what could not be removed.                                              *)
THEOREM NothingLeaks == Spec => []ErrorLeavesNothing
<1>1. IndInv => ErrorLeavesNothing
  BY DEF IndInv
<1>2. QED
  BY <1>1, InvHolds, PTL

(* A Session has its container or copy, and a client unless it is redis's  *)
(* Session of a failed load.                                               *)
THEOREM SessionsAreUsable == Spec => []SessionIsUsable
<1>1. IndInv => SessionIsUsable
  BY DEF IndInv
<1>2. QED
  BY <1>1, InvHolds, PTL

(* No step returns a Session once the context is cancelled.                *)
THEOREM CancelWins == Spec => NoSessionAfterCancel
<1>1. ASSUME TypeOK, [Next]_vars, outcome = "running", outcome' = "session"
      PROVE  ~ctxDone
  <2>1. CASE Pass
    BY <1>1, <2>1, NowFits DEF Pass, Advance, StopsWhenDone
  <2>2. CASE Judge
    BY <1>1, <2>2, NowFits DEF Judge, Advance, YieldsResult
  <2>3. CASE Bail
    BY <2>3 DEF Bail
  <2>4. CASE Cancel \/ Fail \/ UNCHANGED vars
    BY <1>1, <2>4 DEF Cancel, Fail, vars
  <2>5. QED
    BY <1>1, <2>1, <2>2, <2>3, <2>4 DEF Next
<1>2. TypeOK /\ [Next]_vars => [outcome' = "session" /\ outcome = "running" => ~ctxDone]_vars
  BY <1>1
<1>3. QED
  BY <1>2, TypeCorrect, PTL DEF Spec, NoSessionAfterCancel

-----------------------------------------------------------------------------
(* Refinement: every step of a plan is a step the contract allows.         *)
LEMMA StepRefines ==
  ASSUME IndInv, IndInv', [Next]_vars
  PROVE  [Contract!Next]_(Contract!vars)
<1>0. /\ TypeOK /\ HeldIsUndone
      /\ held \in SUBSET Resources /\ held' \in SUBSET Resources
      /\ stuck \in SUBSET Resources /\ stuck' \in SUBSET Resources
  BY DEF IndInv, TypeOK, Contract!TypeOK, Resources
<1>1. ASSUME outcome = "running", Advance, held \subseteq held', ~Last,
             UNCHANGED <<ctxDone, stuck>>
      PROVE  Contract!Work
  BY <1>0, <1>1 DEF Advance, Contract!Work, Resources
<1>2. ASSUME outcome = "running", outcome' = "session", held \subseteq held',
             ~ctxDone, UNCHANGED <<ctxDone, stuck>>
      PROVE  Contract!Succeed
  <2>1. held' \cap {"container", "tmp"} # {}
    BY <1>2 DEF IndInv, SessionIsUsable
  <2>2. QED
    BY <1>0, <1>2, <2>1 DEF Contract!Succeed, Resources
<1>3. CASE Cancel
  BY <1>3 DEF Cancel, Contract!Cancel, Contract!Next
<1>4. CASE Pass
  <2>1. CASE ~Last
    BY <1>1, <1>4, <2>1 DEF Pass, Contract!Next
  <2>2. CASE Last
    <3>1. ~ctxDone
      BY <1>0, <1>4, <2>2, NowFits DEF Pass, StopsWhenDone
    <3>2. QED
      BY <1>2, <1>4, <2>2, <3>1 DEF Pass, Advance, Contract!Next
  <2>3. QED
    BY <2>1, <2>2
<1>5. CASE Judge
  <2>1. ~Last
    BY <1>0, <1>5, NowFits DEF Judge, YieldsResult
  <2>2. held \subseteq held'
    BY <1>5 DEF Judge
  <2>3. QED
    BY <1>1, <1>5, <2>1, <2>2 DEF Judge, Contract!Next
<1>6. CASE Bail
  <2>1. CASE resErr
    BY <1>2, <1>6, <2>1 DEF Bail, Contract!Next
  <2>2. CASE ~resErr
    <3>1. ~Last
      BY <1>0, <1>6, NowFits DEF Bail
    <3>2. QED
      BY <1>1, <1>6, <2>2, <3>1 DEF Bail, Contract!Next
  <2>3. QED
    BY <2>1, <2>2
<1>7. CASE Fail
  <2>1. outcome = "running" /\ outcome' = "error" /\ ctxDone' = ctxDone
    BY <1>7 DEF Fail
  <2>2. held' \subseteq stuck'
    BY <2>1 DEF IndInv, ErrorLeavesNothing, Contract!ErrorLeavesNothing
  <2>3. stuck \subseteq stuck'
    BY <1>7 DEF Fail
  <2>4. QED
    BY <1>0, <2>1, <2>2, <2>3 DEF Contract!Fail, Contract!Next, Resources
<1>8. CASE UNCHANGED vars
  BY <1>8 DEF vars, Contract!vars
<1>9. QED
  BY <1>3, <1>4, <1>5, <1>6, <1>7, <1>8 DEF Next

(* Whatever the engine, Provision keeps the promise of the Engine          *)
(* interface.                                                              *)
THEOREM Refinement == Spec => ImplementsContract
<1>1. Init => Contract!Init
  BY DEF Init
<1>2. IndInv /\ IndInv' /\ [Next]_vars => [Contract!Next]_(Contract!vars)
  BY StepRefines
<1>3. QED
  BY <1>1, <1>2, InvHolds, PTL DEF Spec, ImplementsContract, Contract!Spec
==============================================================================
