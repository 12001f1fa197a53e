------------------------------ MODULE Keyspace ------------------------------
(***************************************************************************)
(* The session on Redis: what Health, Collections and Recent say of a      *)
(* keyspace they only see through SCAN, while keys expire under them.      *)
(*                                                                         *)
(* SCAN promises to return every key that is there from its first call to  *)
(* the one that answers cursor 0, and nothing more: it may return a key    *)
(* twice (the table is resized as it shrinks), and a batch may be empty.   *)
(* Nobody writes to the container; the only change is that a key with a    *)
(* TTL goes.  A key is a number, its place in the order of the names.      *)
(***************************************************************************)
EXTENDS Integers, Sequences, FiniteSetsExt

CONSTANTS
  Keys,          \* the keys of the dump, in the order of their names
  Volatile,      \* those that have a TTL
  GroupOf,       \* the prefix before the first ":", or NoPrefix
  Separated,     \* the keys with a ":" in their name
  NoPrefix,      \* redisNoPrefixGroup, "(sem separador)"
  Glob,          \* the groups that the pattern of a group matches
  ScanLimit,     \* redisExactScanLimit and redisSampleScanLimit, by operation
  GatherCap,     \* redisSampleGatherCap
  RecentLimit,   \* 20 in the code
  MaxBatch,      \* a bound of the model: keys in a batch
  MaxCalls,      \* a bound of the model: calls that leave a cursor
  MaxTwice       \* a bound of the model: keys returned again

Groups == {GroupOf[k] : k \in Keys}

Ops == {"health", "exact", "estimate", "recent"}

ASSUME KeyspaceAssumption ==
  /\ Keys \subseteq Nat /\ IsFiniteSet(Keys)
  /\ Volatile \subseteq Keys /\ Separated \subseteq Keys
  /\ \A k \in Keys \ Separated : GroupOf[k] = NoPrefix
  /\ Glob \in [Groups -> SUBSET Groups]
  /\ ScanLimit \in [{"health", "exact", "estimate"} -> Nat \ {0}]
  /\ {GatherCap, RecentLimit, MaxBatch} \subseteq Nat \ {0}
  /\ {MaxCalls, MaxTwice} \subseteq Nat

VARIABLES
  alive,     \* the keys that have not expired
  op,        \* the operation under way, or the last one
  group,     \* Recent: the group of its descriptor
  step,      \* where the operation is
  owed,      \* what SCAN still has to return before it answers cursor 0
  more,      \* the cursor of the last answer was not 0
  calls,     \* how many calls left a cursor
  batch,     \* the keys of the last answer
  seen,      \* how many times each key was returned
  typed,     \* scan.TypeCounts, all six types together
  withTTL,   \* scan.WithTTL
  dbSize,    \* the answer of DBSIZE
  listed,    \* the groups Collections returned, with their counts
  described, \* the groups the session has a descriptor of
  rows,      \* the keys Recent returned
  begun      \* history: the keys there were when the operation began

scan == <<owed, more, calls, batch, seen, typed, withTTL>>
vars == <<alive, op, group, step, scan, dbSize, listed, described, rows, begun>>

Steps == {"idle", "size", "scan", "meta", "fields", "count", "show", "error"}

Scanned == SumFunctionOnSet(seen, Keys)

(* How many keys came more than once.                                      *)
Twice == Scanned - Cardinality({k \in Keys : seen[k] > 0})

TypeOK ==
  /\ alive \subseteq Keys /\ begun \subseteq Keys
  /\ op \in Ops /\ group \in Groups \cup {NoPrefix} /\ step \in Steps
  /\ owed \subseteq alive /\ batch \subseteq Keys
  /\ more \in BOOLEAN /\ calls \in 0 .. MaxCalls
  /\ seen \in [Keys -> Nat] /\ typed \in Nat /\ withTTL \in Nat
  /\ dbSize \in Nat
  /\ DOMAIN listed \subseteq Groups /\ described \subseteq Groups
  /\ rows \in Seq(Keys) /\ Len(rows) <= RecentLimit

NoneSeen == [k \in Keys |-> 0]

Init ==
  /\ alive \in {A \in SUBSET Keys : Keys \ A \subseteq Volatile}
  /\ op = "health" /\ group = NoPrefix /\ step = "idle"
  /\ owed = {} /\ more = FALSE /\ calls = 0 /\ batch = {}
  /\ seen = NoneSeen /\ typed = 0 /\ withTTL = 0
  /\ dbSize = 0
  /\ listed = <<>> /\ described = {}
  /\ rows = <<>>
  /\ begun = {}

Idle == step \in {"idle", "error"}

-----------------------------------------------------------------------------
(* A key's TTL runs out.                                                   *)
Expire ==
  /\ \E k \in alive \cap Volatile :
       /\ alive' = alive \ {k}
       /\ owed' = owed \ {k}
  /\ UNCHANGED <<op, group, step, more, calls, batch, seen, typed, withTTL,
                 dbSize, listed, described, rows, begun>>

(* redisGroupPattern: "*" for the keys without a separator; the name of a  *)
(* group goes into the pattern as it is.                                   *)
Matches(k) == group = NoPrefix \/ (k \in Separated /\ GroupOf[k] \in Glob[group])

(* The locals and the results of the operation before are gone.            *)
NothingScanned ==
  /\ more' = TRUE /\ calls' = 0 /\ batch' = {}
  /\ seen' = NoneSeen /\ typed' = 0 /\ withTTL' = 0
  /\ dbSize' = 0 /\ listed' = <<>> /\ rows' = <<>>

(* An operation starts, with a scan of the matching keys to come.          *)
Begin(o, first, matching) ==
  /\ Idle
  /\ op' = o /\ step' = first
  /\ owed' = matching /\ begun' = alive
  /\ NothingScanned
  /\ UNCHANGED alive

(* Health asks DBSIZE before it scans, Collections after.                  *)
StartHealth ==
  /\ Begin("health", "size", alive)
  /\ UNCHANGED <<group, described>>

StartCollections ==
  /\ \E o \in {"exact", "estimate"} : Begin(o, "scan", alive)
  /\ described' = {}
  /\ UNCHANGED group

(* Recent of a group of the listing.                                       *)
StartRecent ==
  /\ group' \in described
  /\ Begin("recent", "scan", {k \in alive : Matches(k)'})
  /\ UNCHANGED described

-----------------------------------------------------------------------------
(* The answers of SCAN with the keys b: cursor 0 when nothing is owed.     *)
Answer(b) ==
  /\ Cardinality(b) <= MaxBatch
  /\ Twice + Cardinality({k \in b : seen[k] > 0}) <= MaxTwice
  /\ seen' = [k \in Keys |-> seen[k] + IF k \in b THEN 1 ELSE 0]
  /\ owed' = owed \ b
  /\ \/ more' = TRUE /\ calls < MaxCalls
     \/ more' = FALSE /\ owed' = {}
  /\ calls' = calls + IF more' THEN 1 ELSE 0

(* scanKeyspace: one SCAN of the whole keyspace.                           *)
ScanBatch ==
  /\ step = "scan" /\ op # "recent"
  /\ \E b \in SUBSET alive : Answer(b) /\ batch' = b
  /\ step' = "meta"
  /\ UNCHANGED <<alive, op, group, typed, withTTL, dbSize, listed, described, rows, begun>>

(* The cursor is not 0 and the limit is not reached.                       *)
ScanGoesOn == more /\ Scanned < ScanLimit[op]

(* fetchKeyMeta and the counts.  A key that went in between has the type   *)
(* "none", which no field shows; a key can go between its TYPE and its     *)
(* TTL, and one that is about to go has a TTL rounded to 0.                *)
FetchKeyMeta ==
  /\ step = "meta"
  /\ typed' = typed + Cardinality(batch \cap alive)
  /\ \E gone \in SUBSET (batch \cap alive \cap Volatile) :
       /\ alive' = alive \ gone
       /\ owed' = owed \ gone
       /\ \E w \in 0 .. Cardinality((batch \cap alive \cap Volatile) \ gone) :
            withTTL' = withTTL + w
  /\ step' = IF ScanGoesOn THEN "scan" ELSE IF op = "health" THEN "fields" ELSE "count"
  /\ batch' = {}
  /\ UNCHANGED <<op, group, more, calls, seen, dbSize, listed, described, rows, begun>>

(* DBSIZE also counts keys that expired and were not deleted yet.          *)
DbSize == dbSize' \in Cardinality(alive) .. Cardinality(Keys)

Size ==
  /\ step = "size"
  /\ DbSize
  /\ step' = "scan"
  /\ UNCHANGED <<alive, op, group, scan, listed, described, rows, begun>>

\* Mutant: DBSIZE is asked when the scan is over.
FieldsLate ==
  /\ step = "fields" /\ step' = "idle"
  /\ DbSize
  /\ UNCHANGED <<alive, op, group, scan, listed, described, rows, begun>>

(* The fields of Health: DBSIZE, the types, "com TTL", and "parcial".      *)
Fields ==
  /\ step = "fields"
  /\ step' = "idle"
  /\ UNCHANGED <<alive, op, group, scan, dbSize, listed, described, rows, begun>>

GroupCount(g) == SumFunctionOnSet(seen, {k \in Keys : GroupOf[k] = g})

Seen == {g \in Groups : GroupCount(g) > 0}

\* Mutant: the extrapolation rounds up.
ExtrapolateUp(count) == {(count * dbSize' + Scanned - 1) \div Scanned}

(* int64(float64(count) / float64(Scanned) * float64(dbSize)): a quotient  *)
(* that is whole may come out just below itself.                           *)
Extrapolate(count) ==
  LET n == (count * dbSize') \div Scanned
  IN  IF n * Scanned = count * dbSize' /\ count < Scanned THEN {n, n - 1} \cap Nat ELSE {n}

\* Mutant: a scan that was complete is extrapolated too.
CountGroupsAlways ==
  /\ step = "count" /\ DbSize
  /\ \E f \in [Seen -> 0 .. Cardinality(Keys)] :
       (\A g \in Seen : f[g] \in Extrapolate(GroupCount(g))) /\ listed' = f
  /\ described' = Seen /\ step' = "idle"
  /\ UNCHANGED <<alive, op, group, scan, rows, begun>>

(* The end of Collections: DBSIZE, then one entry for each group seen.     *)
CountGroups ==
  /\ step = "count"
  /\ DbSize
  /\ IF more
       THEN \E f \in [Seen -> 0 .. Cardinality(Keys)] :
              (\A g \in Seen : f[g] \in Extrapolate(GroupCount(g))) /\ listed' = f
       ELSE listed' = [g \in Seen |-> GroupCount(g)]
  /\ described' = Seen
  /\ step' = "idle"
  /\ UNCHANGED <<alive, op, group, scan, rows, begun>>

-----------------------------------------------------------------------------
\* Mutant: an empty batch is taken for the end of the scan.
GathersWhileFull == more' /\ seen' # seen /\ Scanned' < GatherCap

(* The cap is on the keys examined, of the group or not.                   *)
GathersOn == more' /\ Scanned' < GatherCap

(* sampleGroup: one SCAN with the group's pattern.                         *)
GatherBatch ==
  /\ step = "scan" /\ op = "recent"
  /\ \E b \in SUBSET {k \in alive : Matches(k)} : Answer(b)
  /\ step' = IF GathersOn THEN "scan" ELSE "show"
  /\ UNCHANGED <<alive, op, group, batch, typed, withTTL, dbSize, listed, described, rows, begun>>

\* Mutant: the group without separator keeps every key.
KeptAll(k) == TRUE

(* What was kept: without a group's pattern, only keys without separator.  *)
Kept(k) == group = NoPrefix => k \notin Separated

(* sort.Reverse: the keys from k up take the first Place(k) rows; a key    *)
(* returned twice has two.                                                 *)
Place(k) == SumFunctionOnSet(seen, {j \in Keys : Kept(j) /\ j >= k})

Gathered == SumFunctionOnSet(seen, {j \in Keys : Kept(j)})

RowAt(x) == Max({k \in Keys : Kept(k) /\ seen[k] > 0 /\ x <= Place(k)})

\* Mutant: every key gathered is shown.
SampleWhole == [x \in 1 .. Gathered |-> RowAt(x)]

(* engine.RecentLimit of them.                                             *)
Sample == [x \in 1 .. (IF Gathered < RecentLimit THEN Gathered ELSE RecentLimit) |-> RowAt(x)]

(* The rows, with the TYPE, TTL and preview each key still has.            *)
Show ==
  /\ step = "show"
  /\ rows' = Sample
  /\ step' = "idle"
  /\ UNCHANGED <<alive, op, group, scan, dbSize, listed, described, begun>>

(* Any call may fail, and nothing of the operation is returned.            *)
CallFails ==
  /\ ~Idle
  /\ step' = "error"
  /\ NothingScanned /\ owed' = {} /\ begun' = {}
  /\ UNCHANGED <<alive, op, group, described>>

Health == StartHealth \/ Size \/ Fields
Collections == StartCollections \/ CountGroups
Recent == StartRecent \/ GatherBatch \/ Show

Next == Health \/ Collections \/ ScanBatch \/ FetchKeyMeta \/ Recent \/ CallFails \/ Expire

Spec == Init /\ [][Next]_vars

-----------------------------------------------------------------------------
Listing == step = "idle" /\ op \in {"exact", "estimate"}

In(g, S) == {k \in S : GroupOf[k] = g}

CountOf(g) == IF g \in DOMAIN listed THEN listed[g] ELSE 0

(* "contagem exata (SCAN completo)": the count of each group lies between  *)
(* its keys that are still there and those there were at the start and the *)
(* ones SCAN repeated; a group with a key left is listed, one without keys *)
(* is not.                                                                 *)
ExactIsBetween ==
  Listing /\ ~more =>
    \A g \in Groups :
      /\ Cardinality(In(g, alive)) <= CountOf(g)
      /\ CountOf(g) <= Cardinality(In(g, begun)) + Twice
      /\ g \in DOMAIN listed => In(g, begun) # {}

(* "contagem estimada por amostragem": the estimates never add up to more  *)
(* keys than DBSIZE says there are, and no group without keys is listed.   *)
EstimateAddsUp ==
  Listing /\ more =>
    /\ SumFunctionOnSet(listed, DOMAIN listed) <= dbSize
    /\ \A g \in DOMAIN listed : In(g, begun) # {}

(* The header of Redis: the types add up to no more than the exact number  *)
(* of keys beside them, "parcial (n/m)" has n <= m, and without "parcial"  *)
(* every key that is still there was counted.                              *)
HealthAddsUp ==
  step = "idle" /\ op = "health" /\ begun # {} =>
    /\ withTTL <= typed
    /\ typed <= Scanned /\ Scanned <= dbSize + Twice
    /\ ~more => Cardinality(alive) <= typed

(* The pattern of the group matches its keys and no other group's.         *)
Plain(g) == g = NoPrefix \/ Glob[g] = {g}

(* The keys of the group as the pattern tells them from the others.        *)
Members(S) == {k \in S : GroupOf[k] = group /\ (group = NoPrefix => k \notin Separated)}

(* redis.go, Recent: the rows are keys of the group, greatest name first,  *)
(* and unless the cap ended the scan no key of the group that is still     *)
(* there is greater than the last of them, or missing from a short list.   *)
SampleIsTheTop ==
  step = "idle" /\ op = "recent" /\ Plain(group) =>
    /\ \A x \in DOMAIN rows : rows[x] \in Members(begun)
    /\ \A x, y \in DOMAIN rows : x < y => rows[x] >= rows[y]
    /\ ~more => \A k \in Members(alive) \ {rows[x] : x \in DOMAIN rows} :
                  Len(rows) = RecentLimit /\ \A x \in DOMAIN rows : rows[x] > k

(* A group with a prefix that still has a key shows one, however many keys *)
(* SCAN walks past before it: the cap is on the keys its pattern matched.  *)
(* The group without separator may show none (the cap counts every key).   *)
GroupIsNotEmpty ==
  step = "idle" /\ op = "recent" /\ Plain(group) /\ group # NoPrefix =>
    (Members(alive) # {} => rows # <<>>)
=============================================================================
