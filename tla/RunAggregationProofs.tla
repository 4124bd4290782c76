------------------------ MODULE RunAggregationProofs ------------------------
(***************************************************************************)
(* The safety of run aggregation, for every log and number of nodes, runs  *)
(* and results, from one inductive invariant, IInv.                        *)
(*                                                                         *)
(* First, what each Lua script of RunStore does to one run: the other runs *)
(* are untouched, the run stays well formed (RunOK), it only advances, and *)
(* it enters the active-run index only below its limit.  Then the          *)
(* invariant IInv of RunAggregation, and for each kind of step (around the *)
(* record, on the record, the end of a process) what it takes to keep it.  *)
(* The actions follow, one lemma each, and the theorems come last.         *)
(***************************************************************************)
EXTENDS RunAggregation, TLAPS

(* The states of the store when the results offered to it are in V.        *)
BoundsIn(V) == {Unset} \union {x.bounds : x \in V}
EntriesIn(V) == {<<x.slice, x.key>> : x \in V}
KindsIn(V) == UNION {x.kinds : x \in V}

Due == {"none", "ahead", "past"}
Final == {"timed_out", "complete"}

RunT(V) ==
    [status : {"absent", "open", "timed_out", "complete"},
     expected : Nat,
     bounds : BoundsIn(V),
     slices : SUBSET EntriesIn(V),
     received : Nat, total : Nat,
     kinds : SUBSET KindsIn(V),
     due : BOOLEAN,
     revision : Nat, pending : Nat, ack : Nat,
     persist : BOOLEAN]

StoreT(V) ==
    [run : [Run -> RunT(V)],
     deadlines : [Run -> Due],
     outbox : SUBSET Run,
     active : [Run -> {"none", "finite", "forever"}]]

(* The results a script can be called with.                                *)
Offered(V) ==
    \A x \in V : /\ x.run \in Run /\ x.expected \in Nat /\ x.total \in Nat

(* What the scripts keep true of a run.                                    *)
RunOK(S, r) ==
    /\ S.run[r].pending = S.run[r].revision
    /\ S.run[r].ack <= S.run[r].revision
    /\ Unpublished(S, r) => r \in S.outbox /\ S.run[r].persist
    /\ S.run[r].status = "open" => S.deadlines[r] # "none"
    /\ S.run[r].status = "absent" => S.run[r].slices = {} /\ S.run[r].revision = 0
    /\ Finalized(S, r) <=> S.run[r].revision > 0
    /\ Exists(S, r) => /\ S.run[r].persist => S.active[r] = "forever"
                       /\ ~S.run[r].persist => S.active[r] = "finite"

StoreInv(V, S) ==
    /\ S \in StoreT(V)
    /\ \A r \in Run : RunOK(S, r)

(* A script called for r leaves every other run alone.                     *)
Elsewhere(S, T, r) ==
    \A q \in Run \ {r} : /\ T.run[q] = S.run[q]
                         /\ T.deadlines[q] = S.deadlines[q]
                         /\ T.active[q] = S.active[q]
                         /\ q \in T.outbox <=> q \in S.outbox

(* The run moves forward, as RunsOnlyAdvance of RunAggregation demands.    *)
Advances(a, b) ==
    /\ a.slices \subseteq b.slices
    /\ a.revision <= b.revision
    /\ a.ack <= b.ack
    /\ a.status = "complete" => b.status = "complete"
    /\ a.status = "timed_out" => b.status \in {"timed_out", "complete"}
    /\ b.revision > a.revision => b.status # a.status
    /\ a.status \in {"timed_out", "complete"} /\ b.revision = a.revision
          => b.status = a.status

(* The same, for a script that acknowledges nothing.                       *)
Proceeds(a, b) ==
    Advances(a, b) /\ b.ack = a.ack

Touches(V, S, T, r) ==
    /\ T \in StoreT(V)
    /\ Elsewhere(S, T, r)
    /\ RunOK(T, r)
    /\ T.active[r] # "none" => S.active[r] # "none" \/ ~AtCapacity(S)

(* Equal in all that RunOK and Advances speak of, the retention excepted.  *)
Alike(a, b) ==
    /\ b.status = a.status /\ b.slices = a.slices
    /\ b.revision = a.revision /\ b.pending = a.pending /\ b.ack = a.ack

-----------------------------------------------------------------------------
(* The shapes in which the scripts write: the hash of r alone, with the    *)
(* retention of r, or with its deadline.                                   *)
WriteHash(S, r, b) == [S EXCEPT !.run[r] = b]
WriteRetention(S, r, b, c) == [S EXCEPT !.run[r] = b, !.active[r] = c]
WriteDeadline(S, r, b, d) == [S EXCEPT !.run[r] = b, !.deadlines[r] = d]
WriteFinal(S, r, b) ==
    [S EXCEPT !.run[r] = b, !.deadlines[r] = "none", !.outbox = @ \union {r}]

LEMMA WriteHashEffect ==
    ASSUME NEW V, NEW S \in StoreT(V), NEW r \in Run, NEW b \in RunT(V)
    PROVE  LET T == WriteHash(S, r, b)
           IN  /\ T \in StoreT(V) /\ Elsewhere(S, T, r) /\ T.run[r] = b
               /\ T.active = S.active /\ T.deadlines = S.deadlines
               /\ T.outbox = S.outbox
  BY Zenon DEF StoreT, Elsewhere, WriteHash

LEMMA WriteRetentionEffect ==
    ASSUME NEW V, NEW S \in StoreT(V), NEW r \in Run, NEW b \in RunT(V),
           NEW c \in {"none", "finite", "forever"}
    PROVE  LET T == WriteRetention(S, r, b, c)
           IN  /\ T \in StoreT(V) /\ Elsewhere(S, T, r) /\ T.run[r] = b
               /\ T.active[r] = c /\ T.deadlines = S.deadlines
               /\ T.outbox = S.outbox
  BY Zenon DEF StoreT, Elsewhere, WriteRetention

LEMMA WriteDeadlineEffect ==
    ASSUME NEW V, NEW S \in StoreT(V), NEW r \in Run, NEW b \in RunT(V),
           NEW d \in Due
    PROVE  LET T == WriteDeadline(S, r, b, d)
           IN  /\ T \in StoreT(V) /\ Elsewhere(S, T, r) /\ T.run[r] = b
               /\ T.active = S.active /\ T.deadlines[r] = d
               /\ T.outbox = S.outbox
  BY Zenon DEF StoreT, Elsewhere, WriteDeadline

LEMMA WriteFinalEffect ==
    ASSUME NEW V, NEW S \in StoreT(V), NEW r \in Run, NEW b \in RunT(V)
    PROVE  LET T == WriteFinal(S, r, b)
           IN  /\ T \in StoreT(V) /\ Elsewhere(S, T, r) /\ T.run[r] = b
               /\ T.active = S.active /\ r \in T.outbox
  BY Zenon DEF StoreT, Elsewhere, WriteFinal, Due

(* PERSIST and PEXPIRE change the retention only.                          *)
WithPersist(a, p) == [a EXCEPT !.persist = p]

LEMMA PersistField ==
    ASSUME NEW V, NEW a \in RunT(V), NEW p \in BOOLEAN
    PROVE  LET b == WithPersist(a, p)
           IN  /\ b \in RunT(V) /\ Alike(a, b) /\ b.persist <=> p
               /\ b.received = a.received /\ b.expected = a.expected
  BY Zenon DEF RunT, Alike, WithPersist

LEMMA PersistEffect ==
    ASSUME NEW V, NEW S \in StoreT(V), NEW r \in Run
    PROVE  LET T == Persist(S, r)
           IN  /\ T \in StoreT(V) /\ Elsewhere(S, T, r)
               /\ Alike(S.run[r], T.run[r])
               /\ T.run[r].persist /\ T.active[r] = "forever"
               /\ T.deadlines = S.deadlines /\ T.outbox = S.outbox
               /\ T.run[r].received = S.run[r].received
               /\ T.run[r].expected = S.run[r].expected
<1> DEFINE b == WithPersist(S.run[r], TRUE)
<1>1. S.run[r] \in RunT(V)
  BY Zenon DEF StoreT
<1>2. Persist(S, r) = WriteRetention(S, r, b, "forever")
  BY Zenon DEF Persist, WriteRetention, WithPersist
<1>3. /\ b \in RunT(V) /\ Alike(S.run[r], b) /\ b.persist
      /\ b.received = S.run[r].received /\ b.expected = S.run[r].expected
  BY Zenon, <1>1, PersistField
<1> HIDE DEF b
<1>4. QED  BY <1>2, <1>3, WriteRetentionEffect

LEMMA ExpireEffect ==
    ASSUME NEW V, NEW S \in StoreT(V), NEW r \in Run
    PROVE  LET T == Expire(S, r)
           IN  /\ T \in StoreT(V) /\ Elsewhere(S, T, r)
               /\ Alike(S.run[r], T.run[r])
               /\ ~T.run[r].persist /\ T.active[r] = "finite"
               /\ T.deadlines = S.deadlines /\ T.outbox = S.outbox
               /\ T.run[r].received = S.run[r].received
               /\ T.run[r].expected = S.run[r].expected
<1> DEFINE b == WithPersist(S.run[r], FALSE)
<1>1. S.run[r] \in RunT(V)
  BY Zenon DEF StoreT
<1>2. Expire(S, r) = WriteRetention(S, r, b, "finite")
  BY Zenon DEF Expire, WriteRetention, WithPersist
<1>3. /\ b \in RunT(V) /\ Alike(S.run[r], b) /\ ~b.persist
      /\ b.received = S.run[r].received /\ b.expected = S.run[r].expected
  BY Zenon, <1>1 DEF RunT, Alike, WithPersist
<1> HIDE DEF b
<1>4. QED  BY <1>2, <1>3, WriteRetentionEffect

(* refresh_retention restores the agreement of retention, index and outbox.*)
LEMMA RefreshEffect ==
    ASSUME NEW V, NEW S \in StoreT(V), NEW r \in Run
    PROVE  LET T == refresh_retention(S, r)
           IN  /\ T \in StoreT(V) /\ Elsewhere(S, T, r)
               /\ Alike(S.run[r], T.run[r])
               /\ Unpublished(S, r) => T.run[r].persist
               /\ T.run[r].persist => T.active[r] = "forever"
               /\ ~T.run[r].persist => T.active[r] = "finite"
               /\ T.deadlines = S.deadlines /\ T.outbox = S.outbox
               /\ T.run[r].received = S.run[r].received
               /\ T.run[r].expected = S.run[r].expected
<1>1. CASE Unpublished(S, r)
  BY Zenon, <1>1, PersistEffect DEF refresh_retention
<1>2. CASE ~Unpublished(S, r)
  <2>1. refresh_retention(S, r) = Expire(S, r)
    BY Zenon, <1>2 DEF refresh_retention
  <2>2. QED  BY <1>2, <2>1, ExpireEffect
<1>3. QED  BY Zenon, <1>1, <1>2

LEMMA ClosedField ==
    ASSUME NEW V, NEW a \in RunT(V), NEW status \in Final
    PROVE  LET b == Closed(a, status)
           IN  /\ b \in RunT(V) /\ b.status = status /\ b.slices = a.slices
               /\ b.revision = a.revision + 1 /\ b.pending = a.revision + 1
               /\ b.ack = a.ack
<1>1. a.revision + 1 \in Nat
  BY DEF RunT
<1>2. status \in {"absent", "open", "timed_out", "complete"}
  BY Zenon DEF Final
<1> DEFINE b == Closed(a, status)
<1>3. /\ b.status = status /\ b.slices = a.slices
      /\ b.revision = a.revision + 1 /\ b.pending = a.revision + 1
      /\ b.ack = a.ack
  BY Zenon DEF RunT, Closed
<1>4. b \in RunT(V)
  BY Zenon, <1>1, <1>2 DEF RunT, Closed
<1>5. QED  BY Zenon, <1>3, <1>4

LEMMA FinalizeEffect ==
    ASSUME NEW V, NEW S \in StoreT(V), NEW r \in Run,
           NEW status \in Final
    PROVE  LET T == Finalize(S, r, status)
           IN  /\ T \in StoreT(V) /\ Elsewhere(S, T, r)
               /\ T.run[r].status = status
               /\ T.run[r].slices = S.run[r].slices
               /\ T.run[r].revision = S.run[r].revision + 1
               /\ T.run[r].pending = S.run[r].revision + 1
               /\ T.run[r].ack = S.run[r].ack
               /\ T.run[r].persist /\ T.active[r] = "forever"
               /\ r \in T.outbox
<1> DEFINE b == Closed(S.run[r], status)
           U == WriteFinal(S, r, b)
<1>0. S.run[r] \in RunT(V)
  BY Zenon DEF StoreT
<1>1. b \in RunT(V)
  BY Zenon, <1>0, ClosedField
<1>2. /\ b.status = status
      /\ b.slices = S.run[r].slices
      /\ b.revision = S.run[r].revision + 1
      /\ b.pending = S.run[r].revision + 1
      /\ b.ack = S.run[r].ack
  BY <1>0, ClosedField
<1>3. Finalize(S, r, status) = Persist(U, r)
  BY Zenon DEF Finalize, WriteFinal
<1> HIDE DEF b
<1>4. U \in StoreT(V) /\ Elsewhere(S, U, r) /\ U.run[r] = b /\ r \in U.outbox
  BY <1>1, WriteFinalEffect
<1> HIDE DEF U
<1> DEFINE T == Persist(U, r)
<1>5. /\ T \in StoreT(V) /\ Elsewhere(U, T, r) /\ Alike(U.run[r], T.run[r])
      /\ T.run[r].persist /\ T.active[r] = "forever" /\ T.outbox = U.outbox
  BY Zenon, <1>4, PersistEffect
<1> HIDE DEF T
<1>6. Elsewhere(S, T, r)
  BY Zenon, <1>4, <1>5 DEF Elsewhere
<1>7. QED  BY Zenon, <1>2, <1>3, <1>4, <1>5, <1>6 DEF Alike, T

LEMMA ForgetEffect ==
    ASSUME NEW V, NEW S \in StoreT(V), NEW r \in Run
    PROVE  LET T == Forget(S, r)
           IN  /\ T \in StoreT(V) /\ Elsewhere(S, T, r)
               /\ T.run = S.run /\ T.active[r] = "none"
  BY Zenon DEF Forget, StoreT, Elsewhere, Due

(* What it takes for a script to touch r, when r exists before and after.  *)
LEMMA TouchesExisting ==
    ASSUME NEW V, NEW S \in StoreT(V), NEW T \in StoreT(V), NEW r \in Run,
           RunOK(S, r), Exists(S, r), Elsewhere(S, T, r), RunOK(T, r)
    PROVE  Touches(V, S, T, r)
<1>1. S.active[r] # "none"
  BY Zenon DEF RunOK
<1>2. QED  BY Zenon, <1>1 DEF Touches

LEMMA ProceedsRefl ==
    ASSUME NEW V, NEW a \in RunT(V)
    PROVE  Proceeds(a, a)
  BY DEF Proceeds, Advances, RunT

LEMMA AlikeProceeds ==
    ASSUME NEW V, NEW a \in RunT(V), NEW b, Alike(a, b)
    PROVE  Proceeds(a, b)
  BY DEF Proceeds, Advances, Alike, RunT

LEMMA CountedProceeds ==
    ASSUME NEW a, NEW b, a.revision \in Nat, a.ack \in Nat,
           a.slices \subseteq b.slices, b.revision = a.revision, b.ack = a.ack,
           a.status \in {"timed_out", "complete"} => b.status = a.status
    PROVE  Proceeds(a, b)
  BY DEF Proceeds, Advances

LEMMA ClosedProceeds ==
    ASSUME NEW a, NEW b, a.revision \in Nat, a.ack \in Nat,
           a.slices \subseteq b.slices, b.revision = a.revision + 1, b.ack = a.ack,
           b.status \in {"timed_out", "complete"},
           a.status # "complete", b.status # a.status
    PROVE  Proceeds(a, b)
  BY DEF Proceeds, Advances

(* A run whose status and counters stay is as well formed as it was, if    *)
(* the indexes agree with its retention.                                   *)
LEMMA AlikeOK ==
    ASSUME NEW S, NEW T, NEW r, RunOK(S, r), Alike(S.run[r], T.run[r]),
           Unpublished(S, r) => r \in T.outbox /\ T.run[r].persist,
           S.deadlines[r] # "none" \/ S.run[r].status # "open" =>
               T.deadlines[r] # "none" \/ S.run[r].status # "open",
           Exists(S, r) => /\ T.run[r].persist => T.active[r] = "forever"
                           /\ ~T.run[r].persist => T.active[r] = "finite"
    PROVE  RunOK(T, r)
  BY Zenon DEF RunOK, Alike, Exists, Finalized, Unpublished

(* A run without a hash satisfies RunOK whatever the indexes say of it.    *)
LEMMA AbsentOK ==
    ASSUME NEW V, NEW S \in StoreT(V), NEW T \in StoreT(V), NEW r \in Run,
           RunOK(S, r), S.run[r].status = "absent", T.run = S.run
    PROVE  RunOK(T, r)
<1>1. S.run[r].revision = 0 /\ S.run[r].pending = 0 /\ S.run[r].ack = 0
  BY DEF RunOK, StoreT, RunT
<1>2. QED  BY Zenon, <1>1 DEF RunOK, Exists, Finalized, Unpublished

LEMMA SameTouches ==
    ASSUME NEW V, NEW S \in StoreT(V), NEW r \in Run, RunOK(S, r)
    PROVE  Touches(V, S, S, r) /\ Proceeds(S.run[r], S.run[r])
<1>1. S.run[r] \in RunT(V)
  BY Zenon DEF StoreT
<1>2. QED  BY Zenon, <1>1, ProceedsRefl DEF Touches, Elsewhere

LEMMA RefreshTouches ==
    ASSUME NEW V, NEW S \in StoreT(V), NEW r \in Run, RunOK(S, r), Exists(S, r)
    PROVE  LET T == refresh_retention(S, r)
           IN  /\ Touches(V, S, T, r) /\ Proceeds(S.run[r], T.run[r])
               /\ Alike(S.run[r], T.run[r])
<1> DEFINE T == refresh_retention(S, r)
<1>1. /\ T \in StoreT(V) /\ Elsewhere(S, T, r) /\ Alike(S.run[r], T.run[r])
      /\ Unpublished(S, r) => T.run[r].persist
      /\ T.run[r].persist => T.active[r] = "forever"
      /\ ~T.run[r].persist => T.active[r] = "finite"
      /\ T.deadlines = S.deadlines /\ T.outbox = S.outbox
  BY Zenon, RefreshEffect
<1> HIDE DEF T
<1>2. RunOK(T, r)
  BY <1>1, AlikeOK DEF RunOK
<1>3. S.run[r] \in RunT(V)
  BY Zenon DEF StoreT
<1>4. QED  BY Zenon, <1>1, <1>2, <1>3, TouchesExisting, AlikeProceeds DEF T

LEMMA FinalizeTouches ==
    ASSUME NEW V, NEW S \in StoreT(V), NEW r \in Run, RunOK(S, r), Exists(S, r),
           NEW status \in Final, S.run[r].status # "complete",
           S.run[r].status # status
    PROVE  LET T == Finalize(S, r, status)
           IN  Touches(V, S, T, r) /\ Proceeds(S.run[r], T.run[r])
<1> DEFINE T == Finalize(S, r, status)
<1>1. PICK a : a = S.run[r] /\ a.revision \in Nat /\ a.ack \in Nat /\ a.ack <= a.revision
  BY Zenon DEF StoreT, RunT, RunOK
<1>2. /\ T \in StoreT(V) /\ Elsewhere(S, T, r) /\ T.run[r].status = status
      /\ T.run[r].slices = S.run[r].slices
      /\ T.run[r].revision = S.run[r].revision + 1
      /\ T.run[r].pending = S.run[r].revision + 1 /\ T.run[r].ack = S.run[r].ack
      /\ T.run[r].persist /\ T.active[r] = "forever" /\ r \in T.outbox
  BY FinalizeEffect
<1> HIDE DEF T
<1>3. RunOK(T, r)
  <2>1. PICK b : b = T.run[r]
    BY Zenon
  <2>2. /\ b.pending = b.revision /\ b.ack <= b.revision /\ b.revision > 0
        /\ b.status \in {"timed_out", "complete"} /\ b.persist
    BY <1>1, <1>2, <2>1 DEF Final
  <2>3. QED  BY Zenon, <1>2, <2>1, <2>2 DEF RunOK, Exists, Finalized, Unpublished
<1>4. Proceeds(a, T.run[r])
  BY Zenon, <1>1, <1>2, ClosedProceeds DEF Final
<1>5. QED  BY Zenon, <1>1, <1>2, <1>3, <1>4, TouchesExisting DEF T

LEMMA SettleTouches ==
    ASSUME NEW V, NEW S \in StoreT(V), NEW r \in Run, RunOK(S, r), Exists(S, r),
           ~Unpublished(S, r)
    PROVE  LET T == Settle(S, r)
           IN  Touches(V, S, T, r) /\ Alike(S.run[r], T.run[r])
<1> DEFINE U == [S EXCEPT !.outbox = @ \ {r}]
           T == Settle(S, r)
<1>1. /\ U \in StoreT(V) /\ Elsewhere(S, U, r) /\ U.run = S.run
      /\ U.deadlines = S.deadlines /\ U.active = S.active
  BY Zenon DEF StoreT, Elsewhere
<1>2. T = Expire(U, r)
  BY Zenon DEF Settle
<1> HIDE DEF U, T
<1>3. /\ T \in StoreT(V) /\ Elsewhere(U, T, r) /\ Alike(S.run[r], T.run[r])
      /\ ~T.run[r].persist /\ T.active[r] = "finite" /\ T.deadlines = S.deadlines
  BY Zenon, <1>1, <1>2, ExpireEffect
<1>4. Elsewhere(S, T, r)
  BY Zenon, <1>1, <1>3 DEF Elsewhere
<1>5. RunOK(T, r)
  BY Zenon, <1>3, AlikeOK
<1>6. QED  BY Zenon, <1>3, <1>4, <1>5, TouchesExisting DEF T

LEMMA TouchKeepsInv ==
    ASSUME NEW V, NEW S, NEW T, NEW r \in Run, StoreInv(V, S), Touches(V, S, T, r)
    PROVE  StoreInv(V, T)
<1>1. \A q \in Run \ {r} : RunOK(T, q)
  BY DEF StoreInv, Touches, Elsewhere, RunOK, Unpublished, Finalized, Exists
<1>2. QED  BY Zenon, <1>1 DEF StoreInv, Touches

LEMMA TouchAll ==
    ASSUME NEW V, NEW S, NEW T, NEW r \in Run, StoreInv(V, S), Touches(V, S, T, r)
    PROVE  \A q \in Run \ {r} : Proceeds(S.run[q], T.run[q])
<1>1. \A q \in Run : S.run[q] \in RunT(V)
  BY Zenon DEF StoreInv, StoreT
<1>2. \A q \in Run \ {r} : T.run[q] = S.run[q]
  BY Zenon DEF Touches, Elsewhere
<1>3. QED  BY Zenon, <1>1, <1>2, ProceedsRefl

-----------------------------------------------------------------------------
(* Scripts other than INGEST_SCRIPT.                                       *)

LEMMA RegisterTouches ==
    ASSUME NEW V, NEW S, StoreInv(V, S), NEW r \in Run,
           NEW expected \in Nat, NEW due \in BOOLEAN
    PROVE  LET T == register_run(S, r, expected, due).store
           IN  Touches(V, S, T, r) /\ Proceeds(S.run[r], T.run[r])
<1> DEFINE T == register_run(S, r, expected, due).store
<1>0. S \in StoreT(V) /\ RunOK(S, r) /\ S.run[r] \in RunT(V)
  BY Zenon DEF StoreInv, StoreT
<1>1. CASE T = S
  BY Zenon, <1>0, <1>1, SameTouches
<1>2. CASE Exists(S, r) /\ T = refresh_retention(S, r)
  BY Zenon, <1>0, <1>2, RefreshTouches
<1>3. CASE ~Exists(S, r) /\ ~AtCapacity(S)
  <2> DEFINE N == [NewRun(expected, Unset) EXCEPT !.due = due]
             U == [S EXCEPT !.run[r] = N,
                            !.deadlines[r] = IF due THEN "past" ELSE "ahead"]
  <2>1. N \in RunT(V) /\ N.status = "open" /\ N.revision = 0 /\ N.pending = 0
        /\ N.ack = 0 /\ N.slices = {}
    BY Zenon DEF RunT, NewRun, Absent, BoundsIn, Unset
  <2> HIDE DEF N
  <2>2. /\ U \in StoreT(V) /\ Elsewhere(S, U, r) /\ U.run[r] = N
        /\ U.deadlines[r] # "none"
    BY Zenon, <1>0, <2>1 DEF StoreT, Elsewhere, Due
  <2>3. T = Expire(U, r)
    BY Zenon, <1>3 DEF register_run, Response, N
  <2> HIDE DEF U, T
  <2>4. /\ T \in StoreT(V) /\ Elsewhere(U, T, r) /\ Alike(N, T.run[r])
        /\ ~T.run[r].persist /\ T.active[r] = "finite" /\ T.deadlines[r] # "none"
    BY Zenon, <2>2, <2>3, ExpireEffect
  <2>5. Elsewhere(S, T, r)
    BY Zenon, <2>2, <2>4 DEF Elsewhere
  <2>6. RunOK(T, r)
    BY <2>1, <2>4 DEF RunOK, Alike, Exists, Finalized, Unpublished
  <2>7. Proceeds(S.run[r], T.run[r])
    <3>1. S.run[r].status = "absent" /\ S.run[r].slices = {} /\ S.run[r].revision = 0
      BY Zenon, <1>0, <1>3 DEF RunOK, Exists
    <3>2. S.run[r].ack = 0
      BY <3>1, <1>0 DEF RunOK, StoreT, RunT
    <3>3. QED  BY <2>1, <2>4, <3>1, <3>2, CountedProceeds DEF Alike
  <2>8. QED  BY Zenon, <1>3, <2>4, <2>5, <2>6, <2>7 DEF Touches, T
<1>4. QED
  BY Zenon, <1>1, <1>2, <1>3 DEF register_run, Response

LEMMA MarkExpiredTouches ==
    ASSUME NEW V, NEW S, StoreInv(V, S), NEW r \in Run
    PROVE  LET T == mark_expired(S, r).store
           IN  Touches(V, S, T, r) /\ Proceeds(S.run[r], T.run[r])
<1> DEFINE T == mark_expired(S, r).store
<1>0. S \in StoreT(V) /\ RunOK(S, r) /\ S.run[r] \in RunT(V)
  BY Zenon DEF StoreInv, StoreT
<1>1. CASE T = S
  BY Zenon, <1>0, <1>1, SameTouches
<1>2. CASE ~Exists(S, r)
  <2>1. T = Forget(S, r)
    BY Zenon, <1>2 DEF mark_expired, Response
  <2> HIDE DEF T
  <2>2. QED
    BY <1>0, <1>2, <2>1, ForgetEffect, AbsentOK, ProceedsRefl DEF Touches, Exists, T
<1>3. CASE Exists(S, r) /\ Finalized(S, r)
  <2> DEFINE U == [S EXCEPT !.deadlines[r] = "none"]
  <2>1. U \in StoreT(V) /\ Elsewhere(S, U, r) /\ U.run = S.run
        /\ U.active = S.active /\ U.outbox = S.outbox
    BY Zenon, <1>0 DEF StoreT, Elsewhere, Due
  <2>2. T = IF Unpublished(S, r) THEN Persist(U, r) ELSE U
    BY Zenon, <1>3 DEF mark_expired, Response
  <2> HIDE DEF U, T
  <2>3. RunOK(U, r)
    BY Zenon, <1>0, <1>3, <2>1 DEF RunOK, Exists, Finalized, Unpublished
  <2>4. CASE Unpublished(S, r)
    <3>1. T = Persist(U, r)
      BY Zenon, <2>2, <2>4
    <3>2. /\ T \in StoreT(V) /\ Elsewhere(U, T, r) /\ Alike(S.run[r], T.run[r])
          /\ T.run[r].persist /\ T.active[r] = "forever" /\ T.outbox = S.outbox
      BY Zenon, <2>1, <3>1, PersistEffect
    <3>3. Elsewhere(S, T, r)
      BY Zenon, <2>1, <3>2 DEF Elsewhere
    <3>4. RunOK(T, r)
      BY Zenon, <1>0, <1>3, <3>2, AlikeOK DEF RunOK, Finalized
    <3>5. QED
      BY Zenon, <1>0, <1>3, <3>2, <3>3, <3>4, TouchesExisting, AlikeProceeds DEF T
  <2>5. CASE ~Unpublished(S, r)
    BY Zenon, <1>0, <1>3, <2>1, <2>2, <2>3, <2>5, TouchesExisting, ProceedsRefl DEF T
  <2>6. QED  BY Zenon, <2>4, <2>5
<1>4. CASE Exists(S, r) /\ ~Finalized(S, r) /\ T = Finalize(S, r, "timed_out")
  <2>1. "timed_out" \in Final
    BY Zenon DEF Final
  <2>2. QED  BY Zenon, <1>0, <1>4, <2>1, FinalizeTouches DEF Finalized
<1>5. QED
  BY Zenon, <1>1, <1>2, <1>3, <1>4 DEF mark_expired, Response

LEMMA AcknowledgeTouches ==
    ASSUME NEW V, NEW S, StoreInv(V, S), NEW r \in Run, NEW revision \in Nat
    PROVE  LET T == acknowledge_summary(S, r, revision).store
           IN  /\ Touches(V, S, T, r) /\ Advances(S.run[r], T.run[r])
               /\ T.run[r].ack \in {S.run[r].ack, revision}
<1> DEFINE T == acknowledge_summary(S, r, revision).store
           b == [S.run[r] EXCEPT !.ack = revision]
           A == WriteHash(S, r, b)
<1>a. S \in StoreT(V) /\ RunOK(S, r) /\ S.run[r] \in RunT(V)
  BY Zenon DEF StoreInv, StoreT
<1>0. /\ S \in StoreT(V) /\ RunOK(S, r) /\ S.run[r] \in RunT(V)
      /\ S.run[r].revision \in Nat /\ S.run[r].ack \in Nat
  BY Zenon, <1>a DEF RunT
<1>1. CASE T = S
  BY Zenon, <1>0, <1>1, SameTouches DEF Proceeds
<1>2. CASE ~Exists(S, r)
  <2>1. T = [S EXCEPT !.outbox = @ \ {r}, !.active[r] = "none"]
    BY Zenon, <1>2 DEF acknowledge_summary, Response
  <2> HIDE DEF T
  <2>2. T \in StoreT(V) /\ Elsewhere(S, T, r) /\ T.run = S.run /\ T.active[r] = "none"
    BY Zenon, <1>0, <2>1 DEF StoreT, Elsewhere
  <2>3. RunOK(T, r)
    BY Zenon, <1>0, <1>2, <2>2, AbsentOK DEF Exists
  <2>4. QED
    BY Zenon, <1>0, <2>2, <2>3, ProceedsRefl DEF Proceeds, Touches, T
<1>b. /\ b \in RunT(V) /\ b.ack = revision /\ b.status = S.run[r].status
      /\ b.slices = S.run[r].slices /\ b.revision = S.run[r].revision
      /\ b.pending = S.run[r].pending /\ (b.persist <=> S.run[r].persist)
  BY Zenon, <1>0 DEF RunT
<1>c. A = [S EXCEPT !.run[r].ack = revision]
  BY Zenon DEF WriteHash
<1> HIDE DEF b
<1>3. /\ A \in StoreT(V) /\ Elsewhere(S, A, r) /\ A.run[r] = b
      /\ A.active = S.active /\ A.outbox = S.outbox /\ A.deadlines = S.deadlines
  BY <1>0, <1>b, WriteHashEffect
<1> HIDE DEF A
<1>d. ASSUME revision > S.run[r].ack
      PROVE  Advances(S.run[r], b)
  <2>1. PICK a : a = S.run[r] /\ a.revision \in Nat /\ a.ack \in Nat
    BY Zenon, <1>0
  <2>2. QED  BY <1>b, <1>d, <2>1 DEF Advances
<1>4. CASE Exists(S, r) /\ revision < S.run[r].revision /\ revision > S.run[r].ack
           /\ T = A
  <2> HIDE DEF T
  <2>1. b.pending > S.run[r].ack /\ b.ack <= b.revision
    BY <1>0, <1>b, <1>4 DEF RunOK
  <2>2. RunOK(A, r)
    BY Zenon, <1>0, <1>b, <1>3, <1>4, <2>1 DEF RunOK, Exists, Finalized, Unpublished
  <2>3. QED  BY Zenon, <1>0, <1>b, <1>d, <1>3, <1>4, <2>2, TouchesExisting DEF T
<1>5. CASE Exists(S, r) /\ ~Unpublished(S, r) /\ T = Settle(S, r)
  BY <1>0, <1>5, SettleTouches, AlikeProceeds DEF Alike, Proceeds
<1>6. CASE Exists(S, r) /\ revision = S.run[r].revision /\ S.run[r].ack < revision
           /\ T = Settle(A, r)
  <2> HIDE DEF T
  <2>1. b.ack <= b.revision /\ ~(b.pending > b.ack) /\ revision > S.run[r].ack
    BY <1>0, <1>b, <1>6 DEF RunOK
  <2>2. ~Unpublished(A, r) /\ RunOK(A, r) /\ Exists(A, r)
    BY Zenon, <1>0, <1>b, <1>3, <1>6, <2>1 DEF RunOK, Exists, Finalized, Unpublished
  <2>3. Touches(V, A, T, r) /\ Alike(b, T.run[r])
    BY Zenon, <1>3, <1>6, <2>2, SettleTouches
  <2>4. Advances(S.run[r], T.run[r])
    BY Zenon, <1>d, <2>1, <2>3 DEF Advances, Alike
  <2>5. Elsewhere(S, T, r)
    BY Zenon, <1>3, <2>3 DEF Elsewhere, Touches
  <2>6. QED
    BY Zenon, <1>0, <1>b, <1>6, <2>3, <2>4, <2>5, TouchesExisting DEF Touches, Alike, T
<1>7. S.run[r].pending = S.run[r].revision
  BY Zenon, <1>0 DEF RunOK
<1>8. CASE Exists(S, r) /\ revision < S.run[r].revision
  <2>1. ~(revision > S.run[r].revision)
    BY <1>0, <1>8
  <2>2. T = IF revision > S.run[r].ack THEN A ELSE S
    BY Zenon, <1>8, <1>c, <2>1 DEF acknowledge_summary, Response
  <2>3. QED  BY Zenon, <1>1, <1>4, <1>8, <2>2
<1>9. CASE Exists(S, r) /\ revision = S.run[r].revision
  <2>1. ~(revision > S.run[r].revision) /\ ~(revision < S.run[r].revision)
    BY <1>0, <1>9
  <2>2. CASE S.run[r].ack >= revision
    <3>1. T = IF Unpublished(S, r) THEN S ELSE Settle(S, r)
      BY Zenon, <1>9, <2>1, <2>2 DEF acknowledge_summary, Response
    <3>2. QED  BY Zenon, <1>1, <1>5, <1>9, <3>1
  <2>3. CASE ~(S.run[r].ack >= revision)
    <3>1. T = Settle(A, r)
      BY Zenon, <1>9, <1>7, <1>c, <2>1, <2>3 DEF acknowledge_summary, Response
    <3>2. S.run[r].ack < revision
      BY <1>0, <2>3
    <3>3. QED  BY Zenon, <1>6, <1>9, <3>1, <3>2
  <2>4. QED  BY Zenon, <2>2, <2>3
<1>10. CASE Exists(S, r) /\ revision > S.run[r].revision
  <2>1. T = S
    BY Zenon, <1>10 DEF acknowledge_summary, Response
  <2>2. QED  BY Zenon, <1>1, <2>1
<1>11. revision < S.run[r].revision \/ revision = S.run[r].revision
       \/ revision > S.run[r].revision
  BY <1>0
<1>12. QED  BY Zenon, <1>2, <1>8, <1>9, <1>10, <1>11

LEMMA CleanTouches ==
    ASSUME NEW V, NEW S, StoreInv(V, S), NEW r \in Run
    PROVE  LET T == clean_outbox(S, r).store
           IN  Touches(V, S, T, r) /\ T.run = S.run
<1> DEFINE T == clean_outbox(S, r).store
           U == [S EXCEPT !.outbox = @ \ {r}]
<1>0. S \in StoreT(V) /\ RunOK(S, r) /\ S.run[r] \in RunT(V)
  BY Zenon DEF StoreInv, StoreT
<1>1. CASE T = S
  BY Zenon, <1>0, <1>1, SameTouches
<1>2. CASE T = U /\ ~Unpublished(S, r)
  <2>1. /\ U \in StoreT(V) /\ Elsewhere(S, U, r) /\ U.run = S.run
        /\ U.deadlines = S.deadlines /\ U.active = S.active
    BY Zenon, <1>0 DEF StoreT, Elsewhere
  <2> HIDE DEF U
  <2>2. RunOK(U, r)
    BY <1>0, <1>2, <2>1 DEF RunOK, Exists, Finalized, Unpublished
  <2>3. QED  BY Zenon, <1>2, <2>1, <2>2 DEF Touches
<1>3. ~Exists(S, r) => ~Unpublished(S, r)
  BY <1>0 DEF RunOK, RunT, Exists, Unpublished
<1>4. QED
  BY Zenon, <1>1, <1>2, <1>3 DEF clean_outbox, Response

LEMMA DeadlineTouches ==
    ASSUME NEW V, NEW S, StoreInv(V, S), NEW r \in Run
    PROVE  LET T == DeadlinePassed(S, r)
           IN  Touches(V, S, T, r) /\ Proceeds(S.run[r], T.run[r])
<1> DEFINE T == DeadlinePassed(S, r)
           b == [S.run[r] EXCEPT !.due = @ \/ S.run[r].status = "open"]
           d == IF S.deadlines[r] = "ahead" THEN "past" ELSE S.deadlines[r]
<1>0. /\ S \in StoreT(V) /\ RunOK(S, r) /\ S.run[r] \in RunT(V)
      /\ S.deadlines[r] \in Due
  BY Zenon DEF StoreInv, StoreT
<1>1. /\ b \in RunT(V) /\ Alike(S.run[r], b)
      /\ b.persist <=> S.run[r].persist
  BY Zenon, <1>0 DEF RunT, Alike
<1>2. d \in Due /\ (S.deadlines[r] # "none" => d # "none")
  BY Zenon, <1>0 DEF Due
<1>3. T = WriteDeadline(S, r, b, d)
  BY Zenon DEF DeadlinePassed, WriteDeadline
<1> HIDE DEF b, d, T
<1>4. /\ T \in StoreT(V) /\ Elsewhere(S, T, r) /\ T.run[r] = b
      /\ T.active = S.active /\ T.deadlines[r] = d /\ T.outbox = S.outbox
  <2>1. S \in StoreT(V) /\ b \in RunT(V) /\ d \in Due
    BY Zenon, <1>0, <1>1, <1>2
  <2>2. QED  BY <2>1, <1>3, WriteDeadlineEffect
<1>5. RunOK(T, r)
  BY <1>0, <1>1, <1>2, <1>4, AlikeOK DEF RunOK
<1>6. Proceeds(S.run[r], T.run[r])
  BY Zenon, <1>0, <1>1, <1>4, AlikeProceeds
<1>7. QED  BY Zenon, <1>4, <1>5, <1>6 DEF Touches, T

LEMMA RetentionTouches ==
    ASSUME NEW V, NEW S, StoreInv(V, S), NEW r \in Run, ~S.run[r].persist
    PROVE  Touches(V, S, RetentionEnded(S, r), r)
<1> DEFINE T == RetentionEnded(S, r)
           c == IF S.active[r] = "finite" THEN "none" ELSE S.active[r]
<1>0. /\ S \in StoreT(V) /\ RunOK(S, r)
      /\ S.active[r] \in {"none", "finite", "forever"}
  BY Zenon DEF StoreInv, StoreT
<1>1. /\ Absent \in RunT(V) /\ Absent.status = "absent" /\ Absent.revision = 0
      /\ Absent.pending = 0 /\ Absent.ack = 0 /\ Absent.slices = {}
  BY Zenon DEF RunT, Absent, BoundsIn, Unset
<1>2. c \in {"none", "finite", "forever"} /\ (c # "none" => S.active[r] # "none")
  BY Zenon, <1>0
<1>3. T = WriteRetention(S, r, Absent, c)
  BY Zenon DEF RetentionEnded, WriteRetention
<1> HIDE DEF c, T
<1>4. T \in StoreT(V) /\ Elsewhere(S, T, r) /\ T.run[r] = Absent /\ T.active[r] = c
  BY <1>0, <1>1, <1>2, <1>3, WriteRetentionEffect
<1>5. RunOK(T, r)
  BY <1>1, <1>4 DEF RunOK, Exists, Finalized, Unpublished
<1>6. QED  BY Zenon, <1>2, <1>4, <1>5 DEF Touches, T

-----------------------------------------------------------------------------
(* INGEST_SCRIPT.                                                          *)

(* RunOK without the retention, which refresh_retention restores.          *)
Sound(S, r) ==
    /\ Exists(S, r)
    /\ S.run[r].pending = S.run[r].revision
    /\ S.run[r].ack <= S.run[r].revision
    /\ Unpublished(S, r) => r \in S.outbox
    /\ S.run[r].status = "open" => S.deadlines[r] # "none"
    /\ Finalized(S, r) <=> S.run[r].revision > 0

LEMMA RefreshRestores ==
    ASSUME NEW V, NEW S \in StoreT(V), NEW r \in Run, Sound(S, r)
    PROVE  RunOK(refresh_retention(S, r), r)
<1> DEFINE T == refresh_retention(S, r)
<1>1. /\ Alike(S.run[r], T.run[r])
      /\ Unpublished(S, r) => T.run[r].persist
      /\ T.run[r].persist => T.active[r] = "forever"
      /\ ~T.run[r].persist => T.active[r] = "finite"
      /\ T.deadlines = S.deadlines /\ T.outbox = S.outbox
  BY Zenon, RefreshEffect DEF Sound
<1> HIDE DEF T
<1>2. RunOK(T, r)
  BY Zenon, <1>1 DEF Sound, RunOK, Alike, Exists, Finalized, Unpublished
<1>3. QED  BY Zenon, <1>2 DEF T

(* Adopting the histogram bounds touches nothing else of the run.          *)
LEMMA AdoptEffect ==
    ASSUME NEW V, NEW S \in StoreT(V), NEW x \in V, x.run \in Run
    PROVE  LET T == Adopt(S, x)
           IN  /\ T \in StoreT(V) /\ Elsewhere(S, T, x.run)
               /\ Alike(S.run[x.run], T.run[x.run])
               /\ T.run[x.run].persist <=> S.run[x.run].persist
               /\ T.active = S.active /\ T.deadlines = S.deadlines
               /\ T.outbox = S.outbox
<1> DEFINE r == x.run
           T == Adopt(S, x)
           b == [S.run[r] EXCEPT !.bounds = x.bounds]
<1>0. S.run[r] \in RunT(V) /\ x.bounds \in BoundsIn(V)
  BY Zenon DEF StoreT, BoundsIn
<1>1. CASE T = S
  BY Zenon, <1>1 DEF Elsewhere, Alike
<1>2. CASE T = [S EXCEPT !.run[x.run].bounds = x.bounds]
  <2>1. b \in RunT(V) /\ Alike(S.run[r], b) /\ (b.persist <=> S.run[r].persist)
    BY Zenon, <1>0 DEF RunT, Alike
  <2>2. T = WriteHash(S, r, b)
    BY Zenon, <1>2 DEF WriteHash
  <2> HIDE DEF b, T
  <2>3. QED  BY <2>1, <2>2, WriteHashEffect DEF T
<1>3. QED  BY Zenon, <1>1, <1>2 DEF Adopt

LEMMA AdoptTouches ==
    ASSUME NEW V, NEW S, StoreInv(V, S), NEW x \in V, x.run \in Run
    PROVE  LET T == Adopt(S, x)
           IN  /\ Touches(V, S, T, x.run) /\ Proceeds(S.run[x.run], T.run[x.run])
               /\ Alike(S.run[x.run], T.run[x.run])
<1> DEFINE r == x.run
           T == Adopt(S, x)
<1>0. S \in StoreT(V) /\ RunOK(S, r) /\ S.run[r] \in RunT(V)
  BY Zenon DEF StoreInv, StoreT
<1>1. /\ T \in StoreT(V) /\ Elsewhere(S, T, r) /\ Alike(S.run[r], T.run[r])
      /\ T.run[r].persist <=> S.run[r].persist
      /\ T.active = S.active /\ T.deadlines = S.deadlines /\ T.outbox = S.outbox
  BY Zenon, <1>0, AdoptEffect
<1> HIDE DEF T
<1>2. RunOK(T, r)
  BY <1>0, <1>1, AlikeOK DEF RunOK
<1>3. QED  BY Zenon, <1>0, <1>1, <1>2, AlikeProceeds DEF Touches, T

(* The hash a slice is counted in: the known run, or a new one.            *)
LEMMA CountedField ==
    ASSUME NEW V, Offered(V), NEW a \in RunT(V), NEW x \in V
    PROVE  LET b == Counted(a, x)
           IN  /\ b \in RunT(V) /\ b.status = a.status
               /\ b.slices = a.slices \union {<<x.slice, x.key>>}
               /\ b.revision = a.revision /\ b.pending = a.pending
               /\ b.ack = a.ack /\ b.expected = a.expected
<1> DEFINE b == Counted(a, x)
<1>1. /\ x.total \in Nat /\ <<x.slice, x.key>> \in EntriesIn(V)
      /\ x.kinds \subseteq KindsIn(V)
  BY Zenon DEF Offered, EntriesIn, KindsIn
<1>2. /\ a.slices \union {<<x.slice, x.key>>} \in SUBSET EntriesIn(V)
      /\ a.received + 1 \in Nat /\ a.total + x.total \in Nat
      /\ a.kinds \union x.kinds \in SUBSET KindsIn(V)
  BY <1>1 DEF RunT
<1>3. b \in RunT(V)
  BY Zenon, <1>2 DEF RunT, Counted
<1>4. /\ b.status = a.status /\ b.slices = a.slices \union {<<x.slice, x.key>>}
      /\ b.revision = a.revision /\ b.pending = a.pending
      /\ b.ack = a.ack /\ b.expected = a.expected
  BY Zenon DEF RunT, Counted
<1>5. QED  BY Zenon, <1>3, <1>4

LEMMA RecordEffect ==
    ASSUME NEW V, Offered(V), NEW S, StoreInv(V, S), NEW x \in V
    PROVE  LET T == Record(S, x)
               r == x.run
           IN  /\ T \in StoreT(V) /\ Elsewhere(S, T, r) /\ RunOK(T, r)
               /\ T.run[r].status = IF Exists(S, r) THEN S.run[r].status ELSE "open"
               /\ T.run[r].slices = S.run[r].slices \union {<<x.slice, x.key>>}
               /\ T.run[r].revision = S.run[r].revision
               /\ T.run[r].ack = S.run[r].ack
<1> DEFINE r == x.run
           T == Record(S, x)
           N == NewRun(x.expected, x.bounds)
           U == IF Exists(S, r) THEN Adopt(S, x) ELSE WriteDeadline(S, r, N, "ahead")
           W == WriteHash(U, r, Counted(U.run[r], x))
<1>0. /\ r \in Run /\ S \in StoreT(V) /\ RunOK(S, r) /\ S.run[r] \in RunT(V)
      /\ x.expected \in Nat
  BY Zenon DEF StoreInv, StoreT, Offered
<1>1. T = refresh_retention(W, r)
  BY Zenon DEF Record, WriteHash, WriteDeadline
<1>2. /\ U \in StoreT(V) /\ Elsewhere(S, U, r) /\ Sound(U, r)
      /\ U.run[r].status = IF Exists(S, r) THEN S.run[r].status ELSE "open"
      /\ U.run[r].slices = S.run[r].slices
      /\ U.run[r].revision = S.run[r].revision /\ U.run[r].ack = S.run[r].ack
  <2>1. CASE Exists(S, r)
    <3>1. U = Adopt(S, x)
      BY Zenon, <2>1
    <3> HIDE DEF U
    <3>2. /\ U \in StoreT(V) /\ Elsewhere(S, U, r) /\ Alike(S.run[r], U.run[r])
          /\ U.deadlines = S.deadlines /\ U.outbox = S.outbox
      BY Zenon, <1>0, <3>1, AdoptEffect
    <3>3. QED
      BY Zenon, <1>0, <2>1, <3>2
         DEF Alike, Sound, RunOK, Exists, Finalized, Unpublished
  <2>2. CASE ~Exists(S, r)
    <3>1. U = WriteDeadline(S, r, N, "ahead")
      BY Zenon, <2>2
    <3>2. /\ N \in RunT(V) /\ N.status = "open" /\ N.revision = 0 /\ N.pending = 0
          /\ N.ack = 0 /\ N.slices = {}
      BY Zenon, <1>0 DEF RunT, NewRun, Absent, BoundsIn, Unset
    <3> HIDE DEF U, N
    <3>3. /\ U \in StoreT(V) /\ Elsewhere(S, U, r) /\ U.run[r] = N
          /\ U.deadlines[r] = "ahead"
      <4>1. r \in Run /\ S \in StoreT(V) /\ N \in RunT(V) /\ "ahead" \in Due
        BY Zenon, <1>0, <3>2 DEF Due
      <4>2. QED  BY <3>1, <4>1, WriteDeadlineEffect
    <3>4. S.run[r].slices = {} /\ S.run[r].revision = 0 /\ S.run[r].ack = 0
      BY <1>0, <2>2 DEF RunOK, RunT, Exists
    <3>5. QED
      BY Zenon, <2>2, <3>2, <3>3, <3>4 DEF Sound, Exists, Finalized, Unpublished
  <2>3. QED  BY Zenon, <2>1, <2>2
<1> HIDE DEF U
<1>3. U.run[r] \in RunT(V)
  BY Zenon, <1>0, <1>2 DEF StoreT
<1>4. /\ W \in StoreT(V) /\ Elsewhere(U, W, r) /\ W.run[r] = Counted(U.run[r], x)
      /\ W.active = U.active /\ W.deadlines = U.deadlines /\ W.outbox = U.outbox
  <2>1. Counted(U.run[r], x) \in RunT(V)
    BY Zenon, <1>3, CountedField
  <2>2. QED  BY Zenon, <1>0, <1>2, <2>1, WriteHashEffect
<1> HIDE DEF W
<1>5. /\ W.run[r].status = U.run[r].status
      /\ W.run[r].slices = U.run[r].slices \union {<<x.slice, x.key>>}
      /\ W.run[r].revision = U.run[r].revision /\ W.run[r].ack = U.run[r].ack
      /\ W.run[r].pending = U.run[r].pending
  BY <1>3, <1>4, CountedField
<1>6. Sound(W, r)
  BY Zenon, <1>2, <1>4, <1>5 DEF Sound, Exists, Finalized, Unpublished
<1> HIDE DEF T
<1>7. RunOK(T, r)
  BY Zenon, <1>0, <1>1, <1>4, <1>6, RefreshRestores
<1>8. T \in StoreT(V) /\ Elsewhere(W, T, r) /\ Alike(W.run[r], T.run[r])
  BY Zenon, <1>0, <1>1, <1>4, RefreshEffect
<1>9. Elsewhere(S, T, r)
  BY Zenon, <1>2, <1>4, <1>8 DEF Elsewhere
<1>10. QED  BY Zenon, <1>2, <1>5, <1>7, <1>8, <1>9 DEF Alike, T

(* The codes with which INGEST_SCRIPT says that the result is counted.     *)
CountedCodes ==
    {"duplicate", "accepted", "completed", "late_accepted", "late_completed"}

LEMMA ScriptTouches ==
    ASSUME NEW V, Offered(V), NEW S, StoreInv(V, S), NEW x \in V
    PROVE  LET T == ingest_script(S, x).store
               r == x.run
           IN  /\ Touches(V, S, T, r) /\ Proceeds(S.run[r], T.run[r])
               /\ ingest_script(S, x).code \in CountedCodes =>
                     <<x.slice, x.key>> \in T.run[r].slices
<1> DEFINE r == x.run
           e == <<x.slice, x.key>>
           T == ingest_script(S, x).store
           A == Adopt(S, x)
           R == Record(S, x)
<1>0. /\ r \in Run /\ S \in StoreT(V) /\ RunOK(S, r) /\ S.run[r] \in RunT(V)
      /\ S.run[r].revision \in Nat /\ S.run[r].ack \in Nat
  <2>1. r \in Run /\ S \in StoreT(V) /\ RunOK(S, r)
    BY Zenon DEF StoreInv, Offered
  <2>2. S.run[r] \in RunT(V)
    BY Zenon, <2>1 DEF StoreT
  <2>3. QED  BY Zenon, <2>1, <2>2 DEF RunT
<1>1. CASE Refusal(S, x) = "duplicate"
  <2>1. T = refresh_retention(A, r) /\ ingest_script(S, x).code = "duplicate"
    BY Zenon, <1>1 DEF ingest_script, Response
  <2>2. e \in S.run[r].slices
    BY Zenon, <1>1 DEF Refusal, Duplicate
  <2>3. Exists(S, r)
    BY Zenon, <1>0, <2>2 DEF RunOK, Exists
  <2>4. A \in StoreT(V) /\ Elsewhere(S, A, r) /\ RunOK(A, r) /\ Alike(S.run[r], A.run[r])
    BY Zenon, <1>0, AdoptTouches DEF Touches
  <2>5. Exists(A, r)
    BY Zenon, <2>3, <2>4 DEF Alike, Exists
  <2> HIDE DEF A
  <2>6. Touches(V, A, T, r) /\ Alike(A.run[r], T.run[r])
    BY Zenon, <1>0, <2>1, <2>4, <2>5, RefreshTouches
  <2> HIDE DEF T
  <2>7. Alike(S.run[r], T.run[r])
    BY Zenon, <2>4, <2>6 DEF Alike
  <2>8. Elsewhere(S, T, r) /\ T \in StoreT(V) /\ RunOK(T, r)
    BY Zenon, <2>4, <2>6 DEF Elsewhere, Touches
  <2>9. Touches(V, S, T, r) /\ Proceeds(S.run[r], T.run[r])
    BY Zenon, <1>0, <2>3, <2>7, <2>8, TouchesExisting, AlikeProceeds
  <2>10. e \in T.run[r].slices
    BY Zenon, <2>2, <2>7 DEF Alike
  <2>11. QED  BY Zenon, <2>9, <2>10 DEF T
<1>2. CASE Refusal(S, x) \notin {"duplicate", "none"}
  <2>1. T = A /\ ingest_script(S, x).code = Refusal(S, x)
    BY Zenon, <1>2 DEF ingest_script, Response
  <2>2. Refusal(S, x) \in {"capacity", "conflict", "invalid", "kinds", "overflow"}
    BY Zenon, <1>2 DEF Refusal
  <2>3. ingest_script(S, x).code \notin CountedCodes
    BY Zenon, <2>1, <2>2 DEF CountedCodes
  <2>4. QED  BY Zenon, <1>0, <2>1, <2>3, AdoptTouches
<1>3. CASE Refusal(S, x) = "none"
  <2>1. (Exists(S, r) \/ ~AtCapacity(S)) /\ S.run[r].status # "complete"
    BY Zenon, <1>3 DEF Refusal
  <2>2. S.active[r] # "none" \/ ~AtCapacity(S)
    BY Zenon, <1>0, <2>1 DEF RunOK
  <2>3. /\ R \in StoreT(V) /\ Elsewhere(S, R, r) /\ RunOK(R, r)
        /\ R.run[r].status = IF Exists(S, r) THEN S.run[r].status ELSE "open"
        /\ R.run[r].slices = S.run[r].slices \union {e}
        /\ R.run[r].revision = S.run[r].revision
        /\ R.run[r].ack = S.run[r].ack
    BY RecordEffect
  <2>4. T = R \/ T = Finalize(R, r, "complete")
    BY Zenon, <1>3 DEF ingest_script, Response
  <2> HIDE DEF R
  <2>5. CASE T = R
    <3> HIDE DEF T
    <3>1. Proceeds(S.run[r], T.run[r])
      BY Zenon, <1>0, <2>3, <2>5, CountedProceeds DEF Exists
    <3>2. Touches(V, S, T, r) /\ e \in T.run[r].slices
      BY Zenon, <2>2, <2>3, <2>5 DEF Touches
    <3>3. QED  BY Zenon, <3>1, <3>2 DEF T
  <2>6. CASE T = Finalize(R, r, "complete")
    <3>0. "complete" \in Final
      BY Zenon DEF Final
    <3>1. Exists(R, r) /\ R.run[r].status # "complete"
      BY Zenon, <2>1, <2>3 DEF Exists
    <3> HIDE DEF T
    <3>2. Touches(V, R, T, r)
      BY Zenon, <1>0, <2>3, <2>6, <3>0, <3>1, FinalizeTouches
    <3>3. /\ T.run[r].status = "complete" /\ T.run[r].slices = R.run[r].slices
          /\ T.run[r].revision = R.run[r].revision + 1
          /\ T.run[r].ack = R.run[r].ack
      <4>1. r \in Run /\ R \in StoreT(V)
        BY Zenon, <1>0, <2>3
      <4>2. QED  BY <2>6, <3>0, <4>1, FinalizeEffect
    <3>4. Proceeds(S.run[r], T.run[r])
      BY Zenon, <1>0, <2>1, <2>3, <3>3, ClosedProceeds
    <3>5. Elsewhere(S, T, r)
      BY Zenon, <2>3, <3>2 DEF Elsewhere, Touches
    <3>6. Touches(V, S, T, r) /\ e \in T.run[r].slices
      BY Zenon, <2>2, <2>3, <3>2, <3>3, <3>5 DEF Touches
    <3>7. QED  BY Zenon, <3>4, <3>6 DEF T
  <2>7. QED  BY Zenon, <2>4, <2>5, <2>6
<1>4. QED  BY Zenon, <1>1, <1>2, <1>3

LEMMA IngestTouches ==
    ASSUME NEW V, Offered(V), NEW S, StoreInv(V, S), NEW x \in V
    PROVE  LET T == ingest(S, x).store
               r == x.run
           IN  /\ Touches(V, S, T, r) /\ Proceeds(S.run[r], T.run[r])
               /\ ingest(S, x).code \in CountedCodes =>
                     <<x.slice, x.key>> \in T.run[r].slices
<1>1. CASE normalize_result(x) = "none"
  <2>1. ingest(S, x) = ingest_script(S, x)
    BY Zenon, <1>1 DEF ingest
  <2>2. QED  BY Zenon, <2>1, ScriptTouches
<1>2. CASE normalize_result(x) # "none"
  <2>1. ingest(S, x).store = S /\ ingest(S, x).code = normalize_result(x)
    BY Zenon, <1>2 DEF ingest, Response
  <2>2. normalize_result(x) \in {"kinds", "overflow"}
    BY Zenon, <1>2 DEF normalize_result
  <2>3. ingest(S, x).code \notin CountedCodes
    BY Zenon, <2>1, <2>2 DEF CountedCodes
  <2>4. x.run \in Run /\ S \in StoreT(V) /\ RunOK(S, x.run) /\ S.run[x.run] \in RunT(V)
    <3>1. x.run \in Run /\ S \in StoreT(V) /\ RunOK(S, x.run)
      BY Zenon DEF StoreInv, Offered
    <3>2. QED  BY Zenon, <3>1 DEF StoreT
  <2>5. QED  BY Zenon, <2>1, <2>3, <2>4, SameTouches, ProceedsRefl
<1>3. QED  BY Zenon, <1>1, <1>2

-----------------------------------------------------------------------------
(* The invariant of RunAggregation.                                        *)

Busy == {"ingest", "dlq", "commit"}
Labels == {"down", "start", "idle", "expire", "load", "clean", "publish"}

SummaryT(l) ==
    [run : Run, revision : Nat,
     status : {"absent", "open", "timed_out", "complete"}, expected : Nat,
     slices : SUBSET {e[1] : e \in EntriesIn(Results(l))}, total : Nat]

Task(l) == [summary : SummaryT(l), stage : {"publish", "ack"}]

Types ==
    /\ log \in Logs
    /\ committed \in Nat /\ position \in Nat
    /\ pc \in [Node -> Labels \union Busy]
    /\ cur \in [Node -> Nat]
    /\ held \in [Node -> BOOLEAN]
    /\ ids \in [Node -> SUBSET Run]
    /\ stale \in [Node -> SUBSET Run]
    /\ tasks \in [Node -> SUBSET Task(log)]
    /\ summaries \subseteq SummaryT(log)

(* The consumer group: a record that is held by its owner is the first     *)
(* uncommitted one, and an owner without a record is at the commit.        *)
GroupInv ==
    /\ \A n \in Node :
         /\ pc[n] \in Busy => cur[n] < Len(log)
         /\ pc[n] = "ingest" => log[cur[n] + 1].kind = "result"
         /\ held[n] => /\ assignee = n /\ pc[n] \in Busy
                       /\ cur[n] = committed /\ position = committed + 1
         /\ assignee = n /\ ~held[n] => position = committed

(* The record at offset i is counted in its run or dead-lettered.          *)
Settled(i) ==
    \/ i \in dead
    \/ /\ log[i + 1].kind = "result"
       /\ \/ log[i + 1].run \in discarded
          \/ <<log[i + 1].slice, log[i + 1].key>> \in
                 store.run[log[i + 1].run].slices

SettledInv ==
    /\ \A i \in Nat : i < committed => Settled(i)
    /\ committed <= Len(log)
    /\ \A n \in Node : pc[n] = "commit" => Settled(cur[n])

(* A summary that was loaded from the run it names: it is of a revision    *)
(* the run has reached, and that revision decides its status.              *)
Sane(s) ==
    /\ s.run \in Run /\ s.revision \in Nat \ {0}
    /\ s.run \notin discarded =>
          /\ s.revision <= store.run[s.run].revision
          /\ s.revision = store.run[s.run].revision =>
                s.status = store.run[s.run].status

SummaryInv ==
    /\ \A s \in summaries : Sane(s)
    /\ \A n \in Node : \A t \in tasks[n] :
         /\ Sane(t.summary)
         /\ t.stage = "ack" => t.summary \in summaries

(* A request that is in flight or without a waiter.                        *)
Asked(q) ==
    /\ q.op \in {"ingest", "expire", "clean", "ack"}
    /\ q.run \in Run
    /\ q.op = "ingest" => /\ q.arg \in Nat /\ q.arg < Len(log)
                          /\ log[q.arg + 1].kind = "result"
    /\ q.op = "ack" => \E s \in summaries : s.run = q.run /\ s.revision = q.arg

LateInv == \A q \in late : Asked(q)

AckInv ==
    \A r \in Run \ discarded :
        store.run[r].ack > 0 =>
            \E s \in summaries : s.run = r /\ s.revision = store.run[r].ack

StoreOK == StoreInv(Results(log), store)

IInv ==
    /\ Types /\ StoreOK
    /\ GroupInv /\ SettledInv /\ SummaryInv /\ LateInv /\ AckInv

-----------------------------------------------------------------------------
(* A step admits at most one run to the active-run index, if there is room.*)
Admits(S, T) ==
    \/ T.active = S.active
    \/ \E r \in Run : /\ \A q \in Run \ {r} : T.active[q] = S.active[q]
                      /\ T.active[r] # "none" => S.active[r] # "none" \/ ~AtCapacity(S)

(* What a step does to the store: it stays well formed and kept runs only  *)
(* advance; an acknowledgement that is new is of a published summary.      *)
StoreStep ==
    /\ log' = log
    /\ StoreOK' /\ Admits(store, store')
    /\ discarded \subseteq discarded'
    /\ \A r \in Run \ discarded' : Advances(store.run[r], store'.run[r])

AckStep ==
    \A r \in Run \ discarded' :
        \/ store'.run[r].ack = store.run[r].ack
        \/ \E s \in summaries' : s.run = r /\ s.revision = store'.run[r].ack

LEMMA ResultsAreOffered ==
    ASSUME NEW l \in Logs
    PROVE  /\ Offered(Results(l)) /\ Len(l) \in Nat
           /\ \A i \in Nat : i < Len(l) /\ l[i + 1].kind = "result" =>
                                 l[i + 1] \in Results(l)
<1>1. Offered(Results(l)) /\ Len(l) \in Nat
  BY Zenon, AggregationAssumption DEF Offered
<1>2. ASSUME NEW i \in Nat, i < Len(l), l[i + 1].kind = "result"
      PROVE  l[i + 1] \in Results(l)
  <2>1. i + 1 \in {j \in 1..Len(l) : l[j].kind = "result"}
    BY <1>1, <1>2
  <2>2. QED  BY Zenon, <2>1 DEF Results
<1>3. QED  BY Zenon, <1>1, <1>2

LEMMA NoStep ==
    ASSUME IInv, UNCHANGED <<log, store, discarded>>
    PROVE  StoreStep /\ AckStep
<1>1. \A r \in Run : store.run[r] \in RunT(Results(log))
  BY Zenon DEF IInv, StoreOK, StoreInv, StoreT
<1>2. \A r \in Run : Advances(store.run[r], store.run[r])
  BY Zenon, <1>1, ProceedsRefl DEF Proceeds
<1>3. StoreOK'
  BY Zenon DEF IInv, StoreOK
<1>4. QED  BY Zenon, <1>2, <1>3 DEF StoreStep, AckStep, Admits

(* A script that touches r.                                                *)
LEMMA TouchStep ==
    ASSUME IInv, NEW r \in Run, UNCHANGED <<log, discarded>>,
           Touches(Results(log), store, store', r),
           Advances(store.run[r], store'.run[r]),
           \/ store'.run[r].ack = store.run[r].ack
           \/ \E s \in summaries' : s.run = r /\ s.revision = store'.run[r].ack
    PROVE  StoreStep /\ AckStep
<1>1. StoreInv(Results(log), store')
  BY Zenon, TouchKeepsInv DEF IInv, StoreOK
<1>2. \A q \in Run \ {r} : Proceeds(store.run[q], store'.run[q])
  BY Zenon, TouchAll DEF IInv, StoreOK
<1>3. StoreOK'
  BY Zenon, <1>1 DEF StoreOK
<1>4. Admits(store, store')
  BY Zenon DEF Admits, Touches, Elsewhere
<1>5. QED  BY Zenon, <1>2, <1>3, <1>4 DEF Proceeds, StoreStep, AckStep

(* Redis executes the ingest of the record at offset i.                    *)
LEMMA IngestStep ==
    ASSUME IInv, NEW i \in Nat, i < Len(log), log[i + 1].kind = "result",
           UNCHANGED <<log, discarded>>,
           store' = ingest(store, log[i + 1]).store
    PROVE  /\ StoreStep /\ AckStep
           /\ ingest(store, log[i + 1]).code \in CountedCodes =>
                 <<log[i + 1].slice, log[i + 1].key>> \in
                     store'.run[log[i + 1].run].slices
<1>1. log \in Logs /\ StoreInv(Results(log), store)
  BY Zenon DEF IInv, Types, StoreOK
<1>2. Offered(Results(log)) /\ log[i + 1] \in Results(log)
  BY Zenon, <1>1, ResultsAreOffered
<1>3. log[i + 1].run \in Run
  BY Zenon, <1>2 DEF Offered
<1>4. /\ Touches(Results(log), store, store', log[i + 1].run)
      /\ Proceeds(store.run[log[i + 1].run], store'.run[log[i + 1].run])
      /\ ingest(store, log[i + 1]).code \in CountedCodes =>
            <<log[i + 1].slice, log[i + 1].key>> \in
                store'.run[log[i + 1].run].slices
  BY Zenon, <1>1, <1>2, IngestTouches
<1>5. StoreStep /\ AckStep
  BY Zenon, <1>3, <1>4, TouchStep DEF Proceeds
<1>6. QED  BY Zenon, <1>4, <1>5

(* Redis executes a request that some node made.                           *)
LEMMA RequestStep ==
    ASSUME IInv, NEW q, Asked(q), UNCHANGED <<log, discarded>>,
           summaries \subseteq summaries', store' = Apply(q).store
    PROVE  StoreStep /\ AckStep
<1>1. StoreInv(Results(log), store) /\ q.run \in Run
  BY Zenon DEF IInv, StoreOK, Asked
<1>2. CASE q.op = "ingest"
  <2>1. q.arg \in Nat /\ q.arg < Len(log) /\ log[q.arg + 1].kind = "result"
    BY Zenon, <1>2 DEF Asked
  <2>2. store' = ingest(store, log[q.arg + 1]).store
    BY Zenon, <1>2 DEF Apply
  <2>3. QED  BY Zenon, <2>1, <2>2, IngestStep
<1>3. CASE q.op = "expire"
  <2>1. store' = mark_expired(store, q.run).store
    BY Zenon, <1>3 DEF Apply
  <2>2. /\ Touches(Results(log), store, store', q.run)
        /\ Proceeds(store.run[q.run], store'.run[q.run])
    BY Zenon, <1>1, <2>1, MarkExpiredTouches
  <2>3. QED  BY Zenon, <1>1, <2>2, TouchStep DEF Proceeds
<1>4. CASE q.op = "clean"
  <2>1. store' = clean_outbox(store, q.run).store
    BY Zenon, <1>4 DEF Apply
  <2>2. Touches(Results(log), store, store', q.run) /\ store'.run = store.run
    BY Zenon, <1>1, <2>1, CleanTouches
  <2>3. store.run[q.run] \in RunT(Results(log))
    BY Zenon, <1>1 DEF StoreInv, StoreT
  <2>4. Proceeds(store.run[q.run], store'.run[q.run])
    BY Zenon, <2>2, <2>3, ProceedsRefl
  <2>5. QED  BY Zenon, <1>1, <2>2, <2>4, TouchStep DEF Proceeds
<1>5. CASE q.op = "ack"
  <2>1. store' = acknowledge_summary(store, q.run, q.arg).store
    BY Zenon, <1>5 DEF Apply
  <2>2. PICK s \in summaries : s.run = q.run /\ s.revision = q.arg
    BY Zenon, <1>5 DEF Asked
  <2>3. q.arg \in Nat
    BY Zenon, <2>2 DEF IInv, SummaryInv, Sane
  <2>4. /\ Touches(Results(log), store, store', q.run)
        /\ Advances(store.run[q.run], store'.run[q.run])
        /\ store'.run[q.run].ack \in {store.run[q.run].ack, q.arg}
    <3>1. PICK V : V = Results(log)
      BY Zenon
    <3>2. PICK revision \in Nat : revision = q.arg
      BY Zenon, <2>3
    <3>3. StoreInv(V, store) /\ store' = acknowledge_summary(store, q.run, revision).store
      BY Zenon, <1>1, <2>1, <3>1, <3>2
    <3>4. /\ Touches(V, store, store', q.run)
          /\ Advances(store.run[q.run], store'.run[q.run])
          /\ store'.run[q.run].ack \in {store.run[q.run].ack, revision}
      BY <1>1, <3>3, AcknowledgeTouches
    <3>5. QED  BY Zenon, <3>1, <3>2, <3>4
  <2>5. QED  BY Zenon, <1>1, <2>2, <2>4, TouchStep
<1>6. QED  BY Zenon, <1>2, <1>3, <1>4, <1>5 DEF Asked

-----------------------------------------------------------------------------
(* What holds of an offset, a summary or a request goes on holding.        *)
LEMMA SettledStays ==
    ASSUME IInv, StoreStep, dead \subseteq dead', NEW i \in Nat, i < Len(log),
           Settled(i)
    PROVE  Settled(i)'
<1>1. CASE i \in dead
  BY Zenon, <1>1 DEF Settled
<1>2. CASE i \notin dead
  <2>1. log[i + 1].kind = "result"
    BY Zenon, <1>2 DEF Settled
  <2>2. log[i + 1].run \in Run
    BY Zenon, <2>1, ResultsAreOffered DEF IInv, Types, Offered
  <2>3. QED  BY Zenon, <1>2, <2>1, <2>2 DEF Settled, StoreStep, Advances
<1>3. QED  BY Zenon, <1>1, <1>2

LEMMA SaneStays ==
    ASSUME IInv, StoreStep, NEW s, Sane(s)
    PROVE  Sane(s)'
<1>1. s.run \in Run /\ s.revision \in Nat \ {0}
  BY Zenon DEF Sane
<1>2. ASSUME s.run \notin discarded'
      PROVE  /\ s.revision <= store'.run[s.run].revision
             /\ s.revision = store'.run[s.run].revision =>
                   s.status = store'.run[s.run].status
  <2> DEFINE a == store.run[s.run]
             b == store'.run[s.run]
  <2>1. /\ s.revision <= a.revision
        /\ s.revision = a.revision => s.status = a.status
    BY Zenon, <1>2 DEF Sane, StoreStep
  <2>2. Advances(a, b)
    BY Zenon, <1>1, <1>2 DEF StoreStep
  <2>3. a \in RunT(Results(log)) /\ b \in RunT(Results(log))
    BY Zenon, <1>1 DEF IInv, StoreStep, StoreOK, StoreInv, StoreT
  <2>4. a.revision \in Nat /\ b.revision \in Nat
    BY Zenon, <2>3 DEF RunT
  <2>5. a.revision > 0 => a.status \in {"timed_out", "complete"}
    BY Zenon, <1>1 DEF IInv, StoreOK, StoreInv, RunOK, Finalized
  <2> HIDE DEF a, b
  <2>6. s.revision <= b.revision /\ (s.revision = b.revision => s.status = b.status)
    BY <1>1, <2>1, <2>2, <2>4, <2>5 DEF Advances
  <2>7. QED  BY Zenon, <2>6 DEF a, b
<1>3. QED  BY Zenon, <1>1, <1>2 DEF Sane

LEMMA AskedStays ==
    ASSUME NEW q, Asked(q), log' = log, summaries \subseteq summaries'
    PROVE  Asked(q)'
  BY Zenon DEF Asked

LEMMA AckInvStays ==
    ASSUME IInv, StoreStep, AckStep, summaries \subseteq summaries'
    PROVE  AckInv'
  BY DEF IInv, AckInv, StoreStep, AckStep

LEMMA SettledInvStays ==
    ASSUME IInv, StoreStep, dead \subseteq dead', committed' = committed,
           \A n \in Node : pc'[n] = "commit" => pc[n] = "commit" /\ cur'[n] = cur[n]
    PROVE  SettledInv'
<1>1. /\ committed \in Nat /\ committed <= Len(log) /\ Len(log) \in Nat
      /\ \A n \in Node : cur[n] \in Nat
      /\ \A n \in Node : pc[n] = "commit" => cur[n] < Len(log)
  BY Zenon, ResultsAreOffered DEF IInv, Types, SettledInv, GroupInv, Busy
<1>2. ASSUME NEW i \in Nat, i < committed
      PROVE  Settled(i)'
  BY <1>1, <1>2, SettledStays DEF IInv, SettledInv
<1>3. ASSUME NEW n \in Node, pc'[n] = "commit"
      PROVE  Settled(cur[n])' 
  <2>1. PICK i \in Nat : i = cur[n]
    BY Zenon, <1>1
  <2>2. Settled(i)'
    BY Zenon, <1>1, <1>3, <2>1, SettledStays DEF IInv, SettledInv
  <2>3. cur'[n] = i
    BY Zenon, <1>3, <2>1
  <2>4. QED  BY Zenon, <2>2, <2>3 DEF Settled
<1>4. committed' <= Len(log')
  BY Zenon, <1>1 DEF StoreStep
<1>5. QED  BY Zenon, <1>2, <1>3, <1>4 DEF SettledInv

(* The offset of a settled record is committed.                            *)
LEMMA CommitSettles ==
    ASSUME IInv, StoreStep, dead \subseteq dead', NEW n \in Node,
           pc[n] = "commit", held[n], committed' = cur[n] + 1,
           \A m \in Node : pc'[m] = "commit" => pc[m] = "commit" /\ cur'[m] = cur[m]
    PROVE  SettledInv'
<1>1. /\ committed \in Nat /\ cur[n] = committed /\ Len(log) \in Nat
      /\ \A m \in Node : cur[m] \in Nat
      /\ \A m \in Node : pc[m] = "commit" => cur[m] < Len(log)
  BY Zenon, ResultsAreOffered DEF IInv, Types, SettledInv, GroupInv, Busy
<1>2. ASSUME NEW i \in Nat, i < committed'
      PROVE  Settled(i)'
  <2>1. CASE i < committed
    BY <1>1, <2>1, SettledStays DEF IInv, SettledInv
  <2>2. CASE i = cur[n]
    BY Zenon, <1>1, <2>2, SettledStays DEF IInv, SettledInv
  <2>3. QED  BY <1>1, <1>2, <2>1, <2>2
<1>3. ASSUME NEW m \in Node, pc'[m] = "commit"
      PROVE  Settled(cur[m])'
  <2>1. PICK i \in Nat : i = cur[m]
    BY Zenon, <1>1
  <2>2. Settled(i)'
    BY Zenon, <1>1, <1>3, <2>1, SettledStays DEF IInv, SettledInv
  <2>3. cur'[m] = i
    BY Zenon, <1>3, <2>1
  <2>4. QED  BY Zenon, <2>2, <2>3 DEF Settled
<1>4. committed' <= Len(log')
  BY <1>1 DEF StoreStep
<1>5. QED  BY Zenon, <1>2, <1>3, <1>4 DEF SettledInv

(* Summaries, tasks and delayed requests: the new ones are in order.       *)
Orderly ==
    /\ tasks' \in [Node -> SUBSET Task(log)]
    /\ summaries \subseteq summaries' /\ summaries' \subseteq SummaryT(log)
    /\ \A s \in summaries' \ summaries : Sane(s)
    /\ \A n \in Node : \A t \in tasks'[n] :
         \/ t \in tasks[n]
         \/ Sane(t.summary) /\ (t.stage = "ack" => t.summary \in summaries')
    /\ \A q \in late' : q \in late \/ Asked(q)

LEMMA OrderlyStep ==
    ASSUME IInv, StoreStep, AckStep, Orderly
    PROVE  SummaryInv' /\ LateInv' /\ AckInv'
<1>1. \A s \in summaries' : Sane(s)'
  BY Zenon, SaneStays DEF IInv, SummaryInv, Orderly
<1>2. ASSUME NEW n \in Node, NEW t \in tasks'[n]
      PROVE  Sane(t.summary)' /\ (t.stage = "ack" => t.summary \in summaries')
  <2>1. Sane(t.summary) /\ (t.stage = "ack" => t.summary \in summaries')
    BY Zenon, <1>2 DEF IInv, SummaryInv, Orderly
  <2>2. QED  BY Zenon, <2>1, SaneStays
<1>3. SummaryInv'
  BY Zenon, <1>1, <1>2 DEF SummaryInv
<1>4. \A q \in late' : Asked(q)'
  BY Zenon, AskedStays DEF IInv, LateInv, Orderly, StoreStep
<1>5. QED  BY Zenon, <1>3, <1>4, AckInvStays DEF LateInv, Orderly

(* A step outside of process_record: the group and the offsets stay.       *)
LEMMA CycleStep ==
    ASSUME IInv, StoreStep, AckStep, Orderly,
           UNCHANGED <<committed, assignee, position, dead, cur, held>>,
           ids' \in [Node -> SUBSET Run], stale' \in [Node -> SUBSET Run],
           \/ pc' = pc
           \/ \E n \in Node : \E l \in Labels :
                  pc[n] \notin Busy /\ pc' = [pc EXCEPT ![n] = l]
    PROVE  IInv'
<1>1. /\ pc' \in [Node -> Labels \union Busy]
      /\ \A m \in Node : pc'[m] \in Busy \/ pc[m] \in Busy => pc'[m] = pc[m]
  BY Zenon DEF IInv, Types, Labels, Busy
<1>2. Types'
  BY Zenon, <1>1 DEF IInv, Types, StoreStep, Orderly
<1>3. GroupInv'
  <2>1. log' = log
    BY Zenon DEF StoreStep
  <2>2. \A m \in Node : pc'[m] = "ingest" => pc[m] = "ingest"
    BY Zenon, <1>1 DEF Busy
  <2>3. QED  BY Zenon, <1>1, <2>1, <2>2 DEF IInv, GroupInv
<1>4. SettledInv'
  BY Zenon, <1>1, SettledInvStays DEF Busy
<1>5. QED  BY Zenon, <1>2, <1>3, <1>4, OrderlyStep DEF IInv, StoreStep

(* The process of n ends, possibly with a commit that took effect.         *)
LEMMA LeaveStep ==
    ASSUME IInv, StoreStep, AckStep, NEW n \in Node, Down(n),
           UNCHANGED position, dead \subseteq dead',
           \/ committed' = committed
           \/ /\ pc[n] = "commit" /\ held[n] /\ assignee = n
              /\ committed' = cur[n] + 1,
           summaries \subseteq summaries', summaries' \subseteq SummaryT(log),
           \A s \in summaries' \ summaries : Sane(s),
           \A q \in late' : q \in late \/ Asked(q)
    PROVE  IInv'
<1>0. /\ log' = log /\ Len(log) \in Nat /\ committed \in Nat
      /\ \A m \in Node : cur[m] \in Nat
  BY Zenon, ResultsAreOffered DEF IInv, Types, StoreStep
<1>1. /\ pc' \in [Node -> Labels \union Busy] /\ pc'[n] = "down"
      /\ \A m \in Node \ {n} : pc'[m] = pc[m]
  BY Zenon DEF IInv, Types, Down, Goto, Labels, Busy
<1>2. /\ cur' \in [Node -> Nat] /\ held' \in [Node -> BOOLEAN] /\ ~held'[n]
      /\ \A m \in Node \ {n} : cur'[m] = cur[m] /\ (held'[m] <=> held[m])
  BY Zenon DEF IInv, Types, Down
<1>3. /\ ids' \in [Node -> SUBSET Run] /\ stale' \in [Node -> SUBSET Run]
      /\ tasks' \in [Node -> SUBSET Task(log)]
      /\ \A m \in Node : tasks'[m] \subseteq tasks[m]
  BY Zenon DEF IInv, Types, Down
<1>4. Orderly
  BY Zenon, <1>3 DEF Orderly
<1>5. committed' \in Nat
  BY <1>0
<1>6. Types'
  BY Zenon, <1>0, <1>1, <1>2, <1>3, <1>5 DEF IInv, Types
<1>7. ASSUME NEW m \in Node
      PROVE  /\ pc'[m] \in Busy => cur'[m] < Len(log')
             /\ pc'[m] = "ingest" => log'[cur'[m] + 1].kind = "result"
             /\ held'[m] => /\ assignee' = m /\ pc'[m] \in Busy
                            /\ cur'[m] = committed' /\ position' = committed' + 1
             /\ assignee' = m /\ ~held'[m] => position' = committed'
  <2>1. CASE m = n
    <3>1. assignee' # n
      BY Zenon, AggregationAssumption DEF Down
    <3>2. QED  BY Zenon, <1>1, <1>2, <2>1, <3>1 DEF Busy
  <2>2. CASE m # n
    <3>1. pc'[m] = pc[m] /\ cur'[m] = cur[m] /\ (held'[m] <=> held[m])
      BY Zenon, <1>1, <1>2, <2>2
    <3>2. assignee = m => assignee' = m /\ committed' = committed
      BY Zenon, <2>2 DEF Down
    <3>3. assignee' = m => assignee = m
      BY Zenon, <2>2, AggregationAssumption DEF Down
    <3>4. QED  BY Zenon, <1>0, <3>1, <3>2, <3>3 DEF IInv, GroupInv
  <2>3. QED  BY Zenon, <2>1, <2>2
<1>8. GroupInv'
  BY Zenon, <1>7 DEF GroupInv
<1>9. SettledInv'
  <2>1. \A m \in Node : pc'[m] = "commit" => pc[m] = "commit" /\ cur'[m] = cur[m]
    BY Zenon, <1>1, <1>2
  <2>2. CASE committed' = committed
    BY Zenon, <2>1, <2>2, SettledInvStays
  <2>3. CASE pc[n] = "commit" /\ held[n] /\ assignee = n /\ committed' = cur[n] + 1
    BY Zenon, <1>0, <2>1, <2>3, CommitSettles
  <2>4. QED  BY Zenon, <2>2, <2>3
<1>10. QED  BY Zenon, <1>4, <1>6, <1>8, <1>9, OrderlyStep DEF IInv, StoreStep

LEMMA StillOrderly ==
    ASSUME IInv, UNCHANGED <<tasks, summaries>>, \A q \in late' : q \in late \/ Asked(q)
    PROVE  Orderly
  BY Zenon DEF IInv, Types, Orderly


-----------------------------------------------------------------------------
(* Init and the steps around the runtimes.                                 *)

LEMMA InitIInv == Init => IInv
<1> SUFFICES ASSUME Init PROVE IInv
  BY Zenon
<1>1. Len(log) \in Nat /\ log \in Logs
  BY Zenon, ResultsAreOffered DEF Init
<1>2. Types
  BY Zenon, <1>1 DEF Init, Types, Labels
<1>3. StoreOK
  <2> DEFINE V == Results(log)
  <2>1. /\ Absent \in RunT(V) /\ Absent.status = "absent" /\ Absent.revision = 0
        /\ Absent.pending = 0 /\ Absent.ack = 0 /\ Absent.slices = {}
    BY Zenon DEF RunT, Absent, BoundsIn, Unset
  <2> HIDE DEF V
  <2>2. /\ EmptyStore \in StoreT(V) /\ \A r \in Run : EmptyStore.run[r] = Absent
    BY Zenon, <2>1 DEF EmptyStore, StoreT, Due
  <2>3. \A r \in Run : RunOK(EmptyStore, r)
    BY <2>1, <2>2 DEF RunOK, Exists, Finalized, Unpublished
  <2>4. QED  BY Zenon, <2>2, <2>3 DEF Init, StoreOK, StoreInv, V
<1>4. GroupInv
  BY Zenon, AggregationAssumption DEF Init, GroupInv, Busy
<1>5. SettledInv
  BY <1>1 DEF Init, SettledInv
<1>6. SummaryInv /\ LateInv
  BY Zenon DEF Init, SummaryInv, LateInv
<1>7. AckInv
  <2>1. \A r \in Run : store.run[r].ack = 0
    BY Zenon DEF Init, EmptyStore, Absent
  <2>2. QED  BY <2>1 DEF AckInv
<1>8. QED  BY Zenon, <1>2, <1>3, <1>4, <1>5, <1>6, <1>7 DEF IInv

LEMMA RegisterSteps ==
    ASSUME IInv, NEW r \in Run, Register(r)
    PROVE  StoreStep /\ IInv'
<1>1. PICK due \in BOOLEAN : store' = register_run(store, r, Expected[r], due).store
  BY Zenon DEF Register
<1>2. Expected[r] \in Nat /\ StoreInv(Results(log), store)
  BY Zenon, AggregationAssumption DEF IInv, StoreOK
<1>3. /\ Touches(Results(log), store, store', r)
      /\ Proceeds(store.run[r], store'.run[r])
  BY Zenon, <1>1, <1>2, RegisterTouches
<1>4. /\ UNCHANGED <<log, committed, assignee, position, dead, summaries, late>>
      /\ UNCHANGED <<discarded, pc, cur, held, ids, stale, tasks>>
  BY Zenon DEF Register, kafkaVars, taskVars, cycleVars
<1>5. StoreStep /\ AckStep
  BY Zenon, <1>3, <1>4, TouchStep DEF Proceeds
<1>6. Orderly
  BY Zenon, <1>4, StillOrderly
<1>7. QED  BY Zenon, <1>4, <1>5, <1>6, CycleStep DEF IInv, Types

LEMMA DeadlineSteps ==
    ASSUME IInv, NEW r \in Run, DeadlinePasses(r)
    PROVE  StoreStep /\ IInv'
<1>1. store' = DeadlinePassed(store, r) /\ StoreInv(Results(log), store)
  BY Zenon DEF DeadlinePasses, IInv, StoreOK
<1>2. /\ Touches(Results(log), store, store', r)
      /\ Proceeds(store.run[r], store'.run[r])
  BY Zenon, <1>1, DeadlineTouches
<1>3. /\ UNCHANGED <<log, committed, assignee, position, dead, summaries, late>>
      /\ UNCHANGED <<discarded, pc, cur, held, ids, stale, tasks>>
  BY Zenon DEF DeadlinePasses, kafkaVars, ghostVars, taskVars, cycleVars
<1>4. StoreStep /\ AckStep
  BY Zenon, <1>2, <1>3, TouchStep DEF Proceeds
<1>5. Orderly
  BY Zenon, <1>3, StillOrderly
<1>6. QED  BY Zenon, <1>3, <1>4, <1>5, CycleStep DEF IInv, Types

LEMMA RetentionSteps ==
    ASSUME IInv, NEW r \in Run, RetentionEnds(r)
    PROVE  StoreStep /\ IInv'
<1>1. /\ store' = RetentionEnded(store, r) /\ StoreInv(Results(log), store)
      /\ ~store.run[r].persist
  BY Zenon DEF RetentionEnds, IInv, StoreOK
<1>2. Touches(Results(log), store, store', r)
  BY Zenon, <1>1, RetentionTouches
<1>3. /\ UNCHANGED <<log, committed, assignee, position, dead, summaries, late>>
      /\ UNCHANGED <<pc, cur, held, ids, stale, tasks>>
      /\ discarded' = discarded \union {r}
  BY Zenon DEF RetentionEnds, kafkaVars, taskVars, cycleVars
<1>4. StoreInv(Results(log), store')
  BY Zenon, <1>1, <1>2, TouchKeepsInv
<1>5. \A q \in Run \ {r} : Proceeds(store.run[q], store'.run[q])
  BY Zenon, <1>1, <1>2, TouchAll
<1>6. Admits(store, store')
  BY Zenon, <1>2 DEF Admits, Touches, Elsewhere
<1>7. StoreStep /\ AckStep
  BY Zenon, <1>3, <1>4, <1>5, <1>6 DEF StoreStep, AckStep, StoreOK, Proceeds
<1>8. Orderly
  BY Zenon, <1>3, StillOrderly
<1>9. QED  BY Zenon, <1>3, <1>7, <1>8, CycleStep DEF IInv, Types

LEMMA LateSteps ==
    ASSUME IInv, NEW q \in late, ExecuteLate(q)
    PROVE  StoreStep /\ IInv'
<1>1. Asked(q) /\ store' = Apply(q).store /\ late' = late \ {q}
  BY Zenon DEF IInv, LateInv, ExecuteLate
<1>2. /\ UNCHANGED <<log, committed, assignee, position, dead, summaries>>
      /\ UNCHANGED <<discarded, pc, cur, held, ids, stale, tasks>>
  BY Zenon DEF ExecuteLate, kafkaVars, ghostVars, taskVars, cycleVars
<1>3. StoreStep /\ AckStep
  BY Zenon, <1>1, <1>2, RequestStep
<1>4. Orderly
  BY Zenon, <1>1, <1>2, StillOrderly
<1>5. QED  BY Zenon, <1>2, <1>3, <1>4, CycleStep DEF IInv, Types

LEMMA RebalanceSteps ==
    ASSUME IInv, NEW n \in Node, Rebalance(n)
    PROVE  StoreStep /\ IInv'
<1>1. /\ UNCHANGED <<log, committed, dead, summaries, store, late>>
      /\ UNCHANGED <<discarded, pc, cur, ids, stale, tasks>>
      /\ assignee' = n /\ position' = committed
      /\ held' = [m \in Node |-> FALSE]
  BY Zenon DEF Rebalance, ghostVars, cycleVars
<1>2. StoreStep /\ AckStep
  BY Zenon, <1>1, NoStep
<1>3. Orderly
  BY Zenon, <1>1, StillOrderly
<1>4. Types'
  BY Zenon, <1>1 DEF IInv, Types
<1>5. GroupInv'
  BY Zenon, <1>1 DEF IInv, GroupInv
<1>6. SettledInv'
  BY Zenon, <1>1, <1>2, SettledInvStays
<1>7. QED  BY Zenon, <1>2, <1>3, <1>4, <1>5, <1>6, OrderlyStep DEF IInv, StoreStep

-----------------------------------------------------------------------------
(* process_record.                                                         *)

LEMMA ReceiveSteps ==
    ASSUME IInv, NEW n \in Node, Receive(n)
    PROVE  StoreStep /\ IInv'
<1> DEFINE label == IF log[position + 1].kind = "result" THEN "ingest" ELSE "dlq"
<1>1. /\ UNCHANGED <<log, committed, assignee, dead, summaries, store, late>>
      /\ UNCHANGED <<discarded, ids, stale, tasks>>
      /\ position' = position + 1
      /\ pc' = [pc EXCEPT ![n] = label]
      /\ cur' = [cur EXCEPT ![n] = position]
      /\ held' = [held EXCEPT ![n] = TRUE]
  BY Zenon DEF Receive, Goto, ghostVars, cycleVars
<1>2. StoreStep /\ AckStep
  BY Zenon, <1>1, NoStep
<1>3. Orderly
  BY Zenon, <1>1, StillOrderly
<1>4. /\ label \in {"ingest", "dlq"}
      /\ label = "ingest" => log[position + 1].kind = "result"
  BY Zenon
<1> HIDE DEF label
<1>5. pc[n] = "idle" /\ assignee = n /\ position < Len(log) /\ ~held[n]
  BY Zenon DEF Receive, IInv, GroupInv, Busy
<1>6. position = committed
  BY Zenon, <1>5 DEF IInv, GroupInv
<1>7. Types'
  BY <1>1, <1>4 DEF IInv, Types, Busy
<1>8. GroupInv'
  <2> SUFFICES ASSUME NEW m \in Node
               PROVE  /\ pc'[m] \in Busy => cur'[m] < Len(log)
                      /\ pc'[m] = "ingest" => log[cur'[m] + 1].kind = "result"
                      /\ held'[m] => /\ assignee = m /\ pc'[m] \in Busy
                                     /\ cur'[m] = committed
                                     /\ position' = committed + 1
                      /\ assignee = m /\ ~held'[m] => position' = committed
    BY Zenon, <1>1 DEF GroupInv
  <2>1. CASE m = n
    BY Zenon, <1>1, <1>4, <1>5, <1>6, <2>1 DEF IInv, Types, Busy
  <2>2. CASE m # n
    BY Zenon, <1>1, <1>5, <2>2 DEF IInv, Types, GroupInv
  <2>3. QED  BY Zenon, <2>1, <2>2
<1>9. SettledInv'
  <2>1. \A m \in Node : pc'[m] = "commit" => pc[m] = "commit" /\ cur'[m] = cur[m]
    BY Zenon, <1>1, <1>4 DEF IInv, Types
  <2>2. QED  BY Zenon, <1>1, <1>2, <2>1, SettledInvStays
<1>10. QED
  BY Zenon, <1>2, <1>3, <1>7, <1>8, <1>9, OrderlyStep DEF IInv, StoreStep

(* A step of process_record on n, to a label of the same record.           *)
LEMMA BusyStep ==
    ASSUME IInv, StoreStep, AckStep, Orderly, NEW n \in Node,
           NEW label \in {"dlq", "commit"},
           pc[n] \in Busy, pc' = [pc EXCEPT ![n] = label],
           UNCHANGED <<committed, assignee, position, cur, held, ids, stale>>,
           dead \subseteq dead',
           \A i \in Nat : i = cur[n] /\ label = "commit" => Settled(i)'
    PROVE  IInv'
<1>1. log' = log /\ Len(log) \in Nat
  BY Zenon, ResultsAreOffered DEF IInv, Types, StoreStep
<1>2. Types'
  BY Zenon, <1>1 DEF IInv, Types, Busy, Orderly
<1>3. GroupInv'
  BY Zenon, <1>1 DEF IInv, GroupInv, Types, Busy
<1>4. /\ committed \in Nat /\ committed <= Len(log)
      /\ \A m \in Node : cur[m] \in Nat
      /\ \A m \in Node : pc[m] = "commit" => cur[m] < Len(log)
  BY Zenon DEF IInv, Types, SettledInv, GroupInv, Busy
<1>5. ASSUME NEW i \in Nat, i < committed
      PROVE  Settled(i)'
  <2>1. Settled(i) /\ i < Len(log)
    BY <1>1, <1>4, <1>5 DEF IInv, SettledInv
  <2>2. QED  BY Zenon, <2>1, SettledStays
<1>6. ASSUME NEW m \in Node, pc'[m] = "commit"
      PROVE  Settled(cur[m])'
  <2>1. PICK i \in Nat : i = cur[m]
    BY Zenon, <1>4
  <2>2. CASE m = n
    <3>1. label = "commit"
      BY Zenon, <1>6, <2>2 DEF IInv, Types
    <3>2. Settled(i)'
      BY Zenon, <2>1, <2>2, <3>1
    <3>3. QED  BY Zenon, <2>1, <3>2 DEF Settled
  <2>3. CASE m # n
    <3>1. pc[m] = "commit"
      BY Zenon, <1>6, <2>3 DEF IInv, Types
    <3>2. Settled(i)'
      BY Zenon, <1>4, <2>1, <3>1, SettledStays DEF IInv, SettledInv
    <3>3. QED  BY Zenon, <2>1, <3>2 DEF Settled
  <2>4. QED  BY Zenon, <2>2, <2>3
<1>7. SettledInv'
  BY Zenon, <1>1, <1>4, <1>5, <1>6 DEF SettledInv
<1>8. QED  BY Zenon, <1>2, <1>3, <1>7, OrderlyStep DEF IInv, StoreStep

LEMMA IngestSteps ==
    ASSUME IInv, NEW n \in Node, Ingest(n)
    PROVE  StoreStep /\ IInv'
<1>1. PICK i \in Nat : i = cur[n]
  BY Zenon DEF IInv, Types
<1> DEFINE reply == ingest(store, log[i + 1])
<1>2. pc[n] = "ingest" /\ i < Len(log) /\ log[i + 1].kind = "result"
  BY Zenon, <1>1 DEF Ingest, IInv, GroupInv, Busy
<1>3. Apply(Request("ingest", RecordOf(n).run, cur[n])) = reply
  BY Zenon, <1>1 DEF Apply, Request
<1>4. /\ UNCHANGED <<log, committed, position, dead, summaries, late, discarded>>
      /\ store' = reply.store
      /\ \/ /\ reply.code \notin {"capacity", "invalid"}
            /\ Goto(n, IF Permanent(reply.code) THEN "dlq" ELSE "commit")
            /\ UNCHANGED <<assignee, cur, held, ids, stale, tasks>>
         \/ Down(n)
  BY Zenon, <1>3 DEF Ingest, ghostVars, cycleVars
<1>5. /\ StoreStep /\ AckStep
      /\ reply.code \in CountedCodes =>
            <<log[i + 1].slice, log[i + 1].key>> \in store'.run[log[i + 1].run].slices
  BY Zenon, <1>2, <1>4, IngestStep
<1>6. reply.code \in CountedCodes \union {"capacity", "invalid", "conflict",
                                         "kinds", "overflow"}
  BY Zenon DEF ingest, ingest_script, normalize_result, Response, Refusal,
               CountedCodes
<1> HIDE DEF reply
<1>7. CASE /\ reply.code \notin {"capacity", "invalid"}
           /\ Goto(n, IF Permanent(reply.code) THEN "dlq" ELSE "commit")
           /\ UNCHANGED <<assignee, cur, held, ids, stale, tasks>>
  <2> DEFINE label == IF Permanent(reply.code) THEN "dlq" ELSE "commit"
  <2>1. label \in {"dlq", "commit"} /\ pc' = [pc EXCEPT ![n] = label]
    BY Zenon, <1>7 DEF Goto
  <2>2. label = "commit" => reply.code \in CountedCodes
    BY Zenon, <1>6, <1>7 DEF Permanent
  <2> HIDE DEF label
  <2>3. label = "commit" => Settled(i)'
    BY Zenon, <1>2, <1>4, <1>5, <2>2 DEF Settled
  <2>4. Orderly
    BY Zenon, <1>4, <1>7, StillOrderly
  <2>5. QED
    BY Zenon, <1>1, <1>2, <1>4, <1>5, <1>7, <2>1, <2>3, <2>4, BusyStep DEF Busy
<1>8. CASE Down(n)
  BY Zenon, <1>4, <1>5, <1>8, LeaveStep DEF IInv, Types
<1>9. QED  BY Zenon, <1>4, <1>5, <1>7, <1>8

LEMMA DeadLetterSteps ==
    ASSUME IInv, NEW n \in Node, DeadLetter(n)
    PROVE  StoreStep /\ IInv'
<1>1. /\ UNCHANGED <<log, committed, assignee, position, summaries, store, late>>
      /\ UNCHANGED <<discarded, cur, held, ids, stale, tasks>>
      /\ dead' = dead \union {cur[n]}
      /\ pc[n] = "dlq" /\ pc' = [pc EXCEPT ![n] = "commit"]
  BY Zenon DEF DeadLetter, Goto, ghostVars, cycleVars
<1>2. StoreStep /\ AckStep
  BY Zenon, <1>1, NoStep
<1>3. Orderly
  BY Zenon, <1>1, StillOrderly
<1>4. \A i \in Nat : i = cur[n] => Settled(i)'
  BY Zenon, <1>1 DEF Settled
<1>5. QED  BY Zenon, <1>1, <1>2, <1>3, <1>4, BusyStep DEF Busy

LEMMA CommitSteps ==
    ASSUME IInv, NEW n \in Node, Commit(n)
    PROVE  StoreStep /\ IInv'
<1>1. /\ UNCHANGED <<log, position, dead, summaries, store, late, discarded>>
      /\ pc[n] = "commit"
  BY Zenon DEF Commit, ghostVars
<1>2. StoreStep /\ AckStep
  BY Zenon, <1>1, NoStep
<1>3. CASE ~(held[n] /\ assignee = n) /\ Down(n) /\ UNCHANGED committed
  BY Zenon, <1>1, <1>2, <1>3, LeaveStep DEF IInv, Types
<1>4. CASE /\ held[n] /\ assignee = n
           /\ committed' = cur[n] + 1
           /\ Goto(n, "idle")
           /\ cur' = [cur EXCEPT ![n] = 0]
           /\ held' = [held EXCEPT ![n] = FALSE]
           /\ UNCHANGED <<assignee, cycleVars>>
  <2>1. UNCHANGED <<ids, stale, tasks, assignee>> /\ pc' = [pc EXCEPT ![n] = "idle"]
    BY Zenon, <1>4 DEF cycleVars, Goto
  <2>2. Orderly
    BY Zenon, <1>1, <2>1, StillOrderly
  <2>3. Types'
    BY <1>1, <1>4, <2>1 DEF IInv, Types, Labels
  <2>4. cur[n] = committed /\ position = committed + 1
    BY Zenon, <1>4 DEF IInv, GroupInv
  <2>5. GroupInv'
    <3> SUFFICES ASSUME NEW m \in Node
                 PROVE  /\ pc'[m] \in Busy => cur'[m] < Len(log)
                        /\ pc'[m] = "ingest" => log[cur'[m] + 1].kind = "result"
                        /\ held'[m] => /\ assignee = m /\ pc'[m] \in Busy
                                       /\ cur'[m] = committed'
                                       /\ position' = committed' + 1
                        /\ assignee = m /\ ~held'[m] => position' = committed'
      BY Zenon, <1>1, <2>1 DEF GroupInv
    <3>1. CASE m = n
      BY Zenon, <1>1, <1>4, <2>1, <2>4, <3>1 DEF IInv, Types, Busy
    <3>2. CASE m # n
      BY Zenon, <1>4, <2>1, <3>2 DEF IInv, Types, GroupInv
    <3>3. QED  BY Zenon, <3>1, <3>2
  <2>6. SettledInv'
    <3>1. \A m \in Node : pc'[m] = "commit" => pc[m] = "commit" /\ cur'[m] = cur[m]
      BY Zenon, <1>4, <2>1 DEF IInv, Types
    <3>2. QED  BY Zenon, <1>1, <1>2, <1>4, <3>1, CommitSettles
  <2>7. QED
    BY Zenon, <1>2, <2>2, <2>3, <2>5, <2>6, OrderlyStep DEF IInv, StoreStep
<1>5. QED  BY Zenon, <1>2, <1>3, <1>4 DEF Commit

-----------------------------------------------------------------------------
(* maintenance.  Every call changes the store as its request does.         *)

LEMMA BatchesAreRuns ==
    ASSUME IInv
    PROVE  /\ \A b \in Batches(due_runs(store), Batch) : b \subseteq Run
           /\ \A b \in Batches(store.outbox, Batch) : b \subseteq Run
<1>1. store.outbox \subseteq Run
  BY Zenon DEF IInv, StoreOK, StoreInv, StoreT
<1>2. QED  BY Zenon, <1>1 DEF Batches, due_runs

LEMMA AbandonAsks ==
    ASSUME NEW requests, Abandon(requests), \A q \in requests : Asked(q)
    PROVE  \A q \in late' : q \in late \/ Asked(q)
  BY Zenon DEF Abandon

(* Steps that only move the label of n, or the batch it works on.          *)
LEMMA ScanSteps ==
    ASSUME IInv, NEW n \in Node,
           BeginMaintenance(n) \/ LoadDone(n) \/ CleanDone(n) \/ Stop(n) \/ Restart(n)
    PROVE  StoreStep /\ IInv'
<1>1. /\ UNCHANGED <<log, committed, assignee, position, dead, summaries, late>>
      /\ UNCHANGED <<store, discarded, cur, held, stale, tasks>>
  BY Zenon DEF BeginMaintenance, LoadDone, CleanDone, Stop, Restart, kafkaVars, ghostVars,
         cycleVars
<1>2. \E l \in Labels : pc[n] \notin Busy /\ pc' = [pc EXCEPT ![n] = l]
  BY Zenon DEF BeginMaintenance, LoadDone, CleanDone, Stop, Restart, ScanOutbox, Goto,
         Labels, Busy
<1>3. ids' = ids \/ \E b \in SUBSET Run : ids' = [ids EXCEPT ![n] = b]
  BY Zenon, BatchesAreRuns
     DEF BeginMaintenance, LoadDone, CleanDone, Stop, Restart, ScanOutbox, cycleVars
<1>4. ids' \in [Node -> SUBSET Run] /\ stale' \in [Node -> SUBSET Run]
  BY Zenon, <1>1, <1>3 DEF IInv, Types
<1>5. StoreStep /\ AckStep
  BY Zenon, <1>1, NoStep
<1>6. Orderly
  BY Zenon, <1>1, StillOrderly
<1>7. QED  BY Zenon, <1>1, <1>2, <1>4, <1>5, <1>6, CycleStep

LEMMA MarkExpiredSteps ==
    ASSUME IInv, NEW n \in Node, NEW r \in Run, MarkExpired(n, r)
    PROVE  StoreStep /\ IInv'
<1>1. /\ UNCHANGED <<log, committed, assignee, position, dead, summaries, late>>
      /\ UNCHANGED <<discarded, pc, cur, held, stale, tasks>>
      /\ ids' = [ids EXCEPT ![n] = @ \ {r}]
      /\ store' = Apply(Request("expire", r, 0)).store
  BY Zenon DEF MarkExpired, kafkaVars, ghostVars
<1>2. Asked(Request("expire", r, 0))
  BY Zenon DEF Asked, Request
<1>3. StoreStep /\ AckStep
  BY Zenon, <1>1, <1>2, RequestStep
<1>4. Orderly
  BY Zenon, <1>1, StillOrderly
<1>5. ids' \in [Node -> SUBSET Run] /\ stale' \in [Node -> SUBSET Run]
  BY Zenon, <1>1 DEF IInv, Types
<1>6. QED  BY Zenon, <1>1, <1>3, <1>4, <1>5, CycleStep

LEMMA CleanSteps ==
    ASSUME IInv, NEW n \in Node, NEW r \in Run, CleanOutbox(n, r)
    PROVE  StoreStep /\ IInv'
<1>1. /\ UNCHANGED <<log, committed, assignee, position, dead, summaries, late>>
      /\ UNCHANGED <<discarded, pc, cur, held, ids, tasks>>
      /\ stale' = [stale EXCEPT ![n] = @ \ {r}]
      /\ store' = Apply(Request("clean", r, 0)).store
  BY Zenon DEF CleanOutbox, kafkaVars, ghostVars
<1>2. Asked(Request("clean", r, 0))
  BY Zenon DEF Asked, Request
<1>3. StoreStep /\ AckStep
  BY Zenon, <1>1, <1>2, RequestStep
<1>4. Orderly
  BY Zenon, <1>1, StillOrderly
<1>5. ids' \in [Node -> SUBSET Run] /\ stale' \in [Node -> SUBSET Run]
  BY Zenon, <1>1 DEF IInv, Types
<1>6. QED  BY Zenon, <1>1, <1>3, <1>4, <1>5, CycleStep

LEMMA MarkExpiredFailsSteps ==
    ASSUME IInv, NEW n \in Node, NEW r \in Run, MarkExpiredFails(n, r)
    PROVE  StoreStep /\ IInv'
<1>1. /\ UNCHANGED <<log, committed, assignee, position, dead, summaries, store>>
      /\ UNCHANGED <<discarded, pc, cur, held, stale, tasks>>
      /\ ids' = [ids EXCEPT ![n] = @ \ {r}]
      /\ Abandon({Request("expire", r, 0)})
  BY Zenon DEF MarkExpiredFails, kafkaVars, ghostVars
<1>2. Asked(Request("expire", r, 0))
  BY Zenon DEF Asked, Request
<1>3. \A q \in late' : q \in late \/ Asked(q)
  BY Zenon, <1>1, <1>2, AbandonAsks
<1>4. StoreStep /\ AckStep
  BY Zenon, <1>1, NoStep
<1>5. Orderly
  BY Zenon, <1>1, <1>3, StillOrderly
<1>6. ids' \in [Node -> SUBSET Run] /\ stale' \in [Node -> SUBSET Run]
  BY Zenon, <1>1 DEF IInv, Types
<1>7. QED  BY Zenon, <1>1, <1>4, <1>5, <1>6, CycleStep

LEMMA ExpiryDoneSteps ==
    ASSUME IInv, NEW n \in Node, ExpiryDone(n)
    PROVE  StoreStep /\ IInv'
<1>1. /\ UNCHANGED <<log, committed, position, dead, summaries, store, late, discarded>>
      /\ pc[n] = "expire"
  BY Zenon DEF ExpiryDone, ghostVars
<1>2. StoreStep /\ AckStep
  BY Zenon, <1>1, NoStep
<1>3. CASE ScanOutbox(n) /\ UNCHANGED <<assignee, cur, held, stale, tasks>>
  <2>1. pc[n] \notin Busy /\ pc' = [pc EXCEPT ![n] = "load"] /\ "load" \in Labels
    BY Zenon, <1>1, <1>3 DEF ScanOutbox, Goto, Busy, Labels
  <2>2. ids' \in [Node -> SUBSET Run] /\ stale' \in [Node -> SUBSET Run]
    BY Zenon, <1>3, BatchesAreRuns DEF ScanOutbox, IInv, Types
  <2>3. Orderly
    BY Zenon, <1>1, <1>3, StillOrderly
  <2>4. QED  BY Zenon, <1>1, <1>2, <1>3, <2>1, <2>2, <2>3, CycleStep
<1>4. CASE Down(n)
  BY Zenon, <1>1, <1>2, <1>4, LeaveStep DEF IInv, Types
<1>5. QED  BY Zenon, <1>2, <1>3, <1>4 DEF ExpiryDone

LEMMA PublishDoneSteps ==
    ASSUME IInv, NEW n \in Node, PublishDone(n)
    PROVE  StoreStep /\ IInv'
<1>1. /\ UNCHANGED <<log, committed, position, dead, summaries, store, late, discarded>>
      /\ pc[n] = "publish"
  BY Zenon DEF PublishDone, ghostVars
<1>2. StoreStep /\ AckStep
  BY Zenon, <1>1, NoStep
<1>3. CASE Goto(n, "idle") /\ UNCHANGED <<assignee, cur, held, cycleVars>>
  <2>1. /\ pc[n] \notin Busy /\ pc' = [pc EXCEPT ![n] = "idle"] /\ "idle" \in Labels
        /\ UNCHANGED <<ids, stale, tasks>>
    BY Zenon, <1>1, <1>3 DEF Goto, Busy, Labels, cycleVars
  <2>2. Orderly
    BY Zenon, <1>1, <2>1, StillOrderly
  <2>3. QED  BY Zenon, <1>1, <1>2, <1>3, <2>1, <2>2, CycleStep DEF IInv, Types
<1>4. CASE Down(n)
  BY Zenon, <1>1, <1>2, <1>4, LeaveStep DEF IInv, Types
<1>5. QED  BY Zenon, <1>2, <1>3, <1>4 DEF PublishDone

(* A summary is loaded from the run as it is.                              *)
LEMMA LoadSteps ==
    ASSUME IInv, NEW n \in Node, NEW r \in Run, LoadSummary(n, r)
    PROVE  StoreStep /\ IInv'
<1>1. /\ UNCHANGED <<log, committed, assignee, position, dead, summaries, late>>
      /\ UNCHANGED <<store, discarded, pc, cur, held>>
      /\ ids' = [ids EXCEPT ![n] = @ \ {r}]
  BY Zenon DEF LoadSummary, kafkaVars, ghostVars
<1>2. StoreStep /\ AckStep
  BY Zenon, <1>1, NoStep
<1>3. ids' \in [Node -> SUBSET Run]
  BY Zenon, <1>1 DEF IInv, Types
<1>4. CASE stale' = [stale EXCEPT ![n] = @ \union {r}] /\ UNCHANGED tasks
  <2>1. Orderly
    BY Zenon, <1>1, <1>4, StillOrderly
  <2>2. stale' \in [Node -> SUBSET Run]
    BY Zenon, <1>4 DEF IInv, Types
  <2>3. QED  BY Zenon, <1>1, <1>2, <1>3, <2>1, <2>2, CycleStep
<1>5. CASE /\ Finalized(store, r)
           /\ tasks' = [tasks EXCEPT ![n] = @ \union
                           {[summary |-> SummaryOf(r), stage |-> "publish"]}]
           /\ UNCHANGED stale
  <2>1. store.run[r] \in RunT(Results(log)) /\ store.run[r].revision > 0
    BY Zenon, <1>5 DEF IInv, StoreOK, StoreInv, StoreT, RunOK
  <2>2. PICK s : s = SummaryOf(r)
    BY Zenon
  <2>3. /\ s.run = r /\ s.revision = store.run[r].revision
        /\ s.status = store.run[r].status
    BY Zenon, <2>2 DEF SummaryOf
  <2>4. Sane(s)
    <3>1. store.run[r].revision \in Nat \ {0}
      BY <2>1 DEF RunT
    <3>2. QED  BY <2>3, <3>1 DEF Sane
  <2>5. s \in SummaryT(log)
    <3>1. {e[1] : e \in store.run[r].slices} \subseteq
              {e[1] : e \in EntriesIn(Results(log))}
      BY Zenon, <2>1 DEF RunT
    <3>2. /\ store.run[r].revision \in Nat /\ store.run[r].expected \in Nat
          /\ store.run[r].total \in Nat
          /\ store.run[r].status \in {"absent", "open", "timed_out", "complete"}
      BY Zenon, <2>1 DEF RunT
    <3>3. QED  BY Zenon, <2>2, <3>1, <3>2 DEF SummaryOf, SummaryT
  <2>6. PICK t : t = [summary |-> s, stage |-> "publish"]
    BY Zenon
  <2>7. t \in Task(log) /\ t.summary = s /\ t.stage = "publish"
    BY Zenon, <2>5, <2>6 DEF Task
  <2>8. tasks' = [tasks EXCEPT ![n] = @ \union {t}]
    BY Zenon, <1>5, <2>2, <2>6
  <2>9. tasks' \in [Node -> SUBSET Task(log)]
    BY Zenon, <2>7, <2>8 DEF IInv, Types
  <2>10. \A m \in Node : \A u \in tasks'[m] : u \in tasks[m] \/ u = t
    BY Zenon, <2>8 DEF IInv, Types
  <2>11. Orderly
    BY Zenon, <1>1, <2>4, <2>7, <2>9, <2>10 DEF IInv, Types, Orderly
  <2>12. QED  BY Zenon, <1>1, <1>2, <1>3, <1>5, <2>11, CycleStep DEF IInv, Types
<1>6. QED  BY Zenon, <1>2, <1>4, <1>5 DEF LoadSummary

(* publish_one.                                                            *)
LEMMA TaskFacts ==
    ASSUME IInv, NEW n \in Node, NEW t \in tasks[n]
    PROVE  /\ t \in Task(log) /\ t.summary \in SummaryT(log) /\ Sane(t.summary)
           /\ t.stage = "ack" => Asked(AckRequest(t))
<1>1. t \in Task(log)
  BY Zenon DEF IInv, Types
<1>2. t.summary \in SummaryT(log)
  BY Zenon, <1>1 DEF Task
<1>3. Sane(t.summary) /\ (t.stage = "ack" => t.summary \in summaries)
  BY Zenon DEF IInv, SummaryInv
<1>4. /\ AckRequest(t).op = "ack" /\ AckRequest(t).run = t.summary.run
      /\ AckRequest(t).arg = t.summary.revision
  BY Zenon DEF AckRequest, Request
<1>5. t.stage = "ack" => Asked(AckRequest(t))
  BY Zenon, <1>3, <1>4 DEF Asked, Sane
<1>6. QED  BY Zenon, <1>1, <1>2, <1>3, <1>5

LEMMA PublishSteps ==
    ASSUME IInv, NEW n \in Node, NEW t \in tasks[n], PublishSummary(n, t)
    PROVE  StoreStep /\ IInv'
<1>1. /\ UNCHANGED <<log, committed, assignee, position, dead, store, late>>
      /\ UNCHANGED <<discarded, pc, cur, held, ids, stale>>
      /\ summaries' = summaries \union {t.summary}
      /\ tasks' = [tasks EXCEPT ![n] = (@ \ {t}) \union {[t EXCEPT !.stage = "ack"]}]
  BY Zenon DEF PublishSummary, Published, ghostVars
<1>2. StoreStep /\ AckStep
  BY Zenon, <1>1, NoStep
<1>3. t \in Task(log) /\ t.summary \in SummaryT(log) /\ Sane(t.summary)
  BY Zenon, TaskFacts
<1>4. PICK u : u = [t EXCEPT !.stage = "ack"]
  BY Zenon
<1>5. u \in Task(log) /\ u.summary = t.summary
  BY Zenon, <1>3, <1>4 DEF Task
<1>6. tasks' = [tasks EXCEPT ![n] = (@ \ {t}) \union {u}]
  BY Zenon, <1>1, <1>4
<1>7. tasks' \in [Node -> SUBSET Task(log)]
  BY Zenon, <1>5, <1>6 DEF IInv, Types
<1>8. \A m \in Node : \A v \in tasks'[m] : v \in tasks[m] \/ v = u
  BY Zenon, <1>6 DEF IInv, Types
<1>9. Orderly
  BY Zenon, <1>1, <1>3, <1>5, <1>7, <1>8 DEF IInv, Types, Orderly
<1>10. QED  BY Zenon, <1>1, <1>2, <1>9, CycleStep DEF IInv, Types

LEMMA PublishFailsSteps ==
    ASSUME IInv, NEW n \in Node, NEW t \in tasks[n], PublishSummaryFails(n, t)
    PROVE  StoreStep /\ IInv'
<1>1. /\ UNCHANGED <<log, committed, assignee, position, dead, store>>
      /\ UNCHANGED <<late, discarded, pc, cur, held, ids, stale>>
      /\ summaries' = summaries \/ summaries' = summaries \union {t.summary}
      /\ tasks' = [tasks EXCEPT ![n] = @ \ {t}]
  BY Zenon DEF PublishSummaryFails, ghostVars
<1>2. StoreStep /\ AckStep
  BY Zenon, <1>1, NoStep
<1>3. t.summary \in SummaryT(log) /\ Sane(t.summary)
  BY Zenon, TaskFacts
<1>4. /\ tasks' \in [Node -> SUBSET Task(log)]
      /\ \A m \in Node : tasks'[m] \subseteq tasks[m]
  BY Zenon, <1>1 DEF IInv, Types
<1>5. Orderly
  BY Zenon, <1>1, <1>3, <1>4 DEF IInv, Types, Orderly
<1>6. QED  BY Zenon, <1>1, <1>2, <1>5, CycleStep DEF IInv, Types

LEMMA AckSteps ==
    ASSUME IInv, NEW n \in Node, NEW t \in tasks[n], AckSummary(n, t)
    PROVE  StoreStep /\ IInv'
<1>1. /\ UNCHANGED <<log, committed, assignee, position, dead, summaries, late>>
      /\ UNCHANGED <<discarded, pc, cur, held, ids, stale>>
      /\ tasks' = [tasks EXCEPT ![n] = @ \ {t}]
      /\ store' = Apply(AckRequest(t)).store
      /\ t.stage = "ack"
  BY Zenon DEF AckSummary, kafkaVars, ghostVars
<1>2. StoreStep /\ AckStep
  BY Zenon, <1>1, TaskFacts, RequestStep
<1>3. /\ tasks' \in [Node -> SUBSET Task(log)]
      /\ \A m \in Node : tasks'[m] \subseteq tasks[m]
  BY Zenon, <1>1 DEF IInv, Types
<1>4. Orderly
  BY Zenon, <1>1, <1>3 DEF IInv, Types, Orderly
<1>5. QED  BY Zenon, <1>1, <1>2, <1>4, CycleStep DEF IInv, Types

LEMMA AckFailsSteps ==
    ASSUME IInv, NEW n \in Node, NEW t \in tasks[n], AckSummaryFails(n, t)
    PROVE  StoreStep /\ IInv'
<1>1. /\ UNCHANGED <<log, committed, assignee, position, dead, summaries, store>>
      /\ UNCHANGED <<discarded, pc, cur, held, ids, stale>>
      /\ tasks' = [tasks EXCEPT ![n] = @ \ {t}]
      /\ Abandon({AckRequest(t)})
      /\ t.stage = "ack"
  BY Zenon DEF AckSummaryFails, kafkaVars, ghostVars
<1>2. StoreStep /\ AckStep
  BY Zenon, <1>1, NoStep
<1>3. \A q \in late' : q \in late \/ Asked(q)
  BY Zenon, <1>1, TaskFacts, AbandonAsks
<1>4. /\ tasks' \in [Node -> SUBSET Task(log)]
      /\ \A m \in Node : tasks'[m] \subseteq tasks[m]
  BY Zenon, <1>1 DEF IInv, Types
<1>5. Orderly
  BY Zenon, <1>1, <1>3, <1>4 DEF IInv, Types, Orderly
<1>6. QED  BY Zenon, <1>1, <1>2, <1>5, CycleStep DEF IInv, Types

-----------------------------------------------------------------------------
(* A crash: the call in flight may or may not have its effect.             *)
LEMMA InFlightIsAsked ==
    ASSUME IInv, NEW n \in Node
    PROVE  \A q \in InFlight(n) : Asked(q)
<1> DEFINE Ingests == {Request("ingest", RecordOf(n).run, cur[n])}
           Expires == {Request("expire", r, 0) : r \in ids[n]}
           Cleans == {Request("clean", r, 0) : r \in stale[n]}
           Acks == {AckRequest(t) : t \in {u \in tasks[n] : u.stage = "ack"}}
<1>1. ids[n] \subseteq Run /\ stale[n] \subseteq Run /\ cur[n] \in Nat
  BY Zenon DEF IInv, Types
<1>2. CASE pc[n] = "ingest"
  <2>1. InFlight(n) = Ingests
    BY Zenon, <1>2 DEF InFlight
  <2>2. cur[n] < Len(log) /\ log[cur[n] + 1].kind = "result"
    BY Zenon, <1>2 DEF IInv, GroupInv, Busy
  <2>3. log[cur[n] + 1].run \in Run
    BY Zenon, <1>1, <2>2, ResultsAreOffered DEF IInv, Types, Offered
  <2>4. QED  BY <1>1, <2>1, <2>2, <2>3 DEF Asked, Request, RecordOf
<1>3. CASE pc[n] = "expire"
  <2>1. InFlight(n) = Expires
    BY Zenon, <1>3 DEF InFlight
  <2>2. QED  BY <1>1, <2>1 DEF Asked, Request
<1>4. CASE pc[n] = "clean"
  <2>1. InFlight(n) = Cleans
    BY Zenon, <1>4 DEF InFlight
  <2>2. QED  BY <1>1, <2>1 DEF Asked, Request
<1>5. CASE pc[n] = "publish"
  <2>1. InFlight(n) = Acks
    BY Zenon, <1>5 DEF InFlight
  <2>2. QED  BY Zenon, <2>1, TaskFacts
<1>6. CASE pc[n] \notin {"ingest", "expire", "clean", "publish"}
  <2>1. InFlight(n) = {}
    BY Zenon, <1>6 DEF InFlight
  <2>2. QED  BY Zenon, <2>1
<1>7. QED  BY Zenon, <1>2, <1>3, <1>4, <1>5, <1>6

LEMMA CrashSteps ==
    ASSUME IInv, NEW n \in Node, Crash(n)
    PROVE  StoreStep /\ IInv'
<1>1. UNCHANGED <<log, position, store, discarded>> /\ Down(n) /\ Abandon(InFlight(n))
  BY Zenon DEF Crash, ghostVars
<1>2. StoreStep /\ AckStep
  BY Zenon, <1>1, NoStep
<1>3. \A q \in late' : q \in late \/ Asked(q)
  BY Zenon, <1>1, InFlightIsAsked, AbandonAsks
<1>4. \A s \in Unacknowledged(n) : s \in SummaryT(log) /\ Sane(s)
  BY Zenon, TaskFacts DEF Unacknowledged
<1>5. summaries' = summaries \/ \E s \in Unacknowledged(n) : summaries' = summaries \union {s}
  BY Zenon DEF Crash
<1>6. /\ summaries \subseteq summaries' /\ summaries' \subseteq SummaryT(log)
      /\ \A s \in summaries' \ summaries : Sane(s)
  BY Zenon, <1>4, <1>5 DEF IInv, Types
<1>7. dead \subseteq dead'
  BY Zenon DEF Crash
<1>8. \/ committed' = committed
      \/ pc[n] = "commit" /\ held[n] /\ assignee = n /\ committed' = cur[n] + 1
  BY Zenon DEF Crash
<1>9. QED  BY Zenon, <1>1, <1>2, <1>3, <1>6, <1>7, <1>8, LeaveStep

-----------------------------------------------------------------------------
LEMMA CycleSteps ==
    ASSUME IInv, NEW n \in Node, Cycle(n)
    PROVE  StoreStep /\ IInv'
<1>1. CASE BeginMaintenance(n) \/ LoadDone(n) \/ CleanDone(n)
  BY Zenon, <1>1, ScanSteps
<1>2. CASE \E r \in Run : MarkExpired(n, r)
  BY Zenon, <1>2, MarkExpiredSteps
<1>3. CASE ExpiryDone(n)
  BY Zenon, <1>3, ExpiryDoneSteps
<1>4. CASE \E r \in Run : LoadSummary(n, r)
  BY Zenon, <1>4, LoadSteps
<1>5. CASE \E r \in Run : CleanOutbox(n, r)
  BY Zenon, <1>5, CleanSteps
<1>6. CASE \E t \in tasks[n] : PublishSummary(n, t)
  BY Zenon, <1>6, PublishSteps
<1>7. CASE \E t \in tasks[n] : AckSummary(n, t)
  BY Zenon, <1>7, AckSteps
<1>8. CASE PublishDone(n)
  BY Zenon, <1>8, PublishDoneSteps
<1>9. QED
  BY Zenon, <1>1, <1>2, <1>3, <1>4, <1>5, <1>6, <1>7, <1>8 DEF Cycle

LEMMA FailureSteps ==
    ASSUME IInv, NEW n \in Node, Failure(n)
    PROVE  StoreStep /\ IInv'
<1>1. CASE \E r \in Run : MarkExpiredFails(n, r)
  BY Zenon, <1>1, MarkExpiredFailsSteps
<1>2. CASE \E t \in tasks[n] : PublishSummaryFails(n, t)
  BY Zenon, <1>2, PublishFailsSteps
<1>3. CASE \E t \in tasks[n] : AckSummaryFails(n, t)
  BY Zenon, <1>3, AckFailsSteps
<1>4. CASE Stop(n)
  BY Zenon, <1>4, ScanSteps
<1>5. CASE Crash(n)
  BY Zenon, <1>5, CrashSteps
<1>6. QED  BY Zenon, <1>1, <1>2, <1>3, <1>4, <1>5 DEF Failure

LEMMA NextIInv ==
    ASSUME IInv, [Next]_vars
    PROVE  StoreStep /\ IInv'
<1>1. CASE \E r \in Run : Register(r) \/ DeadlinePasses(r) \/ RetentionEnds(r)
  BY Zenon, <1>1, RegisterSteps, DeadlineSteps, RetentionSteps
<1>2. ASSUME NEW n \in Node, \/ Rebalance(n) \/ Receive(n) \/ Settlement(n)
                              \/ Cycle(n) \/ Failure(n) \/ Restart(n)
      PROVE  StoreStep /\ IInv'
  <2>1. CASE Rebalance(n)
    BY Zenon, <2>1, RebalanceSteps
  <2>2. CASE Receive(n)
    BY Zenon, <2>2, ReceiveSteps
  <2>3. CASE Settlement(n)
    BY Zenon, <2>3, IngestSteps, DeadLetterSteps, CommitSteps DEF Settlement
  <2>4. CASE Cycle(n)
    BY Zenon, <2>4, CycleSteps
  <2>5. CASE Failure(n)
    BY Zenon, <2>5, FailureSteps
  <2>6. CASE Restart(n)
    BY Zenon, <2>6, ScanSteps
  <2>7. QED  BY Zenon, <1>2, <2>1, <2>2, <2>3, <2>4, <2>5, <2>6
<1>3. CASE \E q \in late : ExecuteLate(q)
  BY Zenon, <1>3, LateSteps
<1>4. CASE UNCHANGED vars
  <2>1. /\ UNCHANGED <<log, committed, assignee, position, dead, summaries, late>>
        /\ UNCHANGED <<store, discarded, pc, cur, held, ids, stale, tasks>>
    BY Zenon, <1>4 DEF vars, kafkaVars, ghostVars, taskVars, cycleVars
  <2>2. StoreStep /\ AckStep
    BY Zenon, <2>1, NoStep
  <2>3. Orderly
    BY Zenon, <2>1, StillOrderly
  <2>4. QED  BY Zenon, <2>1, <2>2, <2>3, CycleStep DEF IInv, Types
<1>5. QED  BY Zenon, <1>1, <1>2, <1>3, <1>4 DEF Next

LEMMA Invariance == Spec => []IInv
<1>1. Init => IInv
  BY Zenon, InitIInv
<1>2. IInv /\ [Next]_vars => IInv'
  BY NextIInv
<1>3. QED  BY <1>1, <1>2, PTL DEF Spec

(* No summary is lost between Redis and Kafka: whatever acknowledgements,  *)
(* cleanups and retention refreshes interleave, a run with an unpublished  *)
(* revision stays in the outbox and cannot expire, and an open run stays   *)
(* in the deadline index.                                                  *)
THEOREM SummariesAreRecoverable == Spec => []PendingIsRecoverable
<1>1. IInv => PendingIsRecoverable
  BY Zenon DEF IInv, StoreOK, StoreInv, RunOK, PendingIsRecoverable
<1>2. QED  BY <1>1, Invariance, PTL

(* A revision is acknowledged in Redis only after its summary, with its    *)
(* status, is on the topic.                                                *)
THEOREM AcksFollowPublication == Spec => []AckedIsPublished
<1>1. IInv => AckedIsPublished
  <2> SUFFICES ASSUME IInv, NEW r \in Run \ discarded
               PROVE  /\ store.run[r].ack > 0 =>
                            \E s \in summaries :
                               s.run = r /\ s.revision = store.run[r].ack
                      /\ Finalized(store, r) /\ store.run[r].ack = store.run[r].revision =>
                            \E s \in summaries : /\ s.run = r
                                                 /\ s.revision = store.run[r].revision
                                                 /\ s.status = store.run[r].status
    BY Zenon DEF AckedIsPublished
  <2>1. store.run[r].ack > 0 =>
           \E s \in summaries : s.run = r /\ s.revision = store.run[r].ack
    BY Zenon DEF IInv, AckInv
  <2>2. Finalized(store, r) => store.run[r].revision > 0
    BY Zenon DEF IInv, StoreOK, StoreInv, RunOK
  <2>3. \A s \in summaries : s.run = r /\ s.revision = store.run[r].revision =>
                                 s.status = store.run[r].status
    BY Zenon DEF IInv, SummaryInv, Sane
  <2>4. QED  BY Zenon, <2>1, <2>2, <2>3
<1>2. QED  BY <1>1, Invariance, PTL

(* The offset of a record is committed only after the record was counted   *)
(* in its run or dead-lettered, across crashes, rebalances and commits     *)
(* whose answer was lost.                                                  *)
THEOREM CommitsFollowIngest == Spec => []CommittedIsAggregated
<1>1. IInv => CommittedIsAggregated
  <2> SUFFICES ASSUME IInv, NEW i \in 0 .. committed - 1
               PROVE  Settled(i)
    BY Zenon DEF CommittedIsAggregated, Settled
  <2>1. committed \in Nat
    BY Zenon DEF IInv, Types
  <2>2. i \in Nat /\ i < committed
    BY <2>1
  <2>3. QED  BY <2>2 DEF IInv, SettledInv
<1>2. QED  BY <1>1, Invariance, PTL

(* Until its state is discarded a run only moves forward: no step of any   *)
(* node, however delayed, drops a slice, regresses a revision, or times a  *)
(* complete run out.                                                       *)
THEOREM RunsMoveForward == Spec => RunsOnlyAdvance
<1>1. IInv /\ [Next]_vars =>
        [\A r \in Run \ discarded' :
           LET a == store.run[r]
               b == store'.run[r]
           IN  /\ a.slices \subseteq b.slices
               /\ a.revision <= b.revision /\ a.ack <= b.ack
               /\ a.status = "complete" => b.status = "complete"
               /\ a.status = "timed_out" => b.status # "open"
               /\ b.revision > a.revision => b.status # a.status]_vars
  BY Zenon, NextIInv DEF StoreStep, Advances
<1>2. QED  BY <1>1, Invariance, PTL DEF Spec, RunsOnlyAdvance

-----------------------------------------------------------------------------
(* The capacity of the active-run index, which needs to count.             *)
INSTANCE FiniteSetTheorems

WithinLimit ==
    /\ IsFiniteSet(ActiveRuns(store))
    /\ Cardinality(ActiveRuns(store)) <= MaxActive

LEMMA AdmitsWithinLimit ==
    ASSUME WithinLimit, Admits(store, store')
    PROVE  WithinLimit'
<1>1. PICK A, B : A = ActiveRuns(store) /\ B = ActiveRuns(store')
  BY Zenon
<1>2. /\ IsFiniteSet(A) /\ Cardinality(A) \in Nat /\ Cardinality(A) <= MaxActive
      /\ MaxActive \in Nat
  BY Zenon, <1>1, FS_CardinalityType, StoreAssumption DEF WithinLimit
<1>3. IsFiniteSet(B) /\ Cardinality(B) <= MaxActive
  <2>1. CASE B \subseteq A
    <3>1. IsFiniteSet(B) /\ Cardinality(B) <= Cardinality(A)
      BY Zenon, <1>2, <2>1, FS_Subset
    <3>2. Cardinality(B) \in Nat
      BY Zenon, <3>1, FS_CardinalityType
    <3>3. QED  BY <1>2, <3>1, <3>2
  <2>2. CASE ~(B \subseteq A)
    <3>1. PICK r \in Run :
             /\ \A q \in Run \ {r} : store'.active[q] = store.active[q]
             /\ store'.active[r] # "none" => store.active[r] # "none" \/ ~AtCapacity(store)
      BY Zenon, <1>1, <2>2 DEF Admits, ActiveRuns
    <3>2. B \subseteq A \union {r}
      BY Zenon, <1>1, <3>1 DEF ActiveRuns
    <3>3. r \in B /\ r \notin A
      BY Zenon, <2>2, <3>2
    <3>4. Cardinality(A) < MaxActive
      BY <1>1, <1>2, <3>1, <3>3 DEF ActiveRuns, AtCapacity
    <3>5. IsFiniteSet(A \union {r}) /\ Cardinality(A \union {r}) = Cardinality(A) + 1
      BY Zenon, <1>2, <3>3, FS_AddElement
    <3>6. IsFiniteSet(B) /\ Cardinality(B) <= Cardinality(A) + 1
      BY Zenon, <3>2, <3>5, FS_Subset
    <3>7. Cardinality(B) \in Nat
      BY Zenon, <3>6, FS_CardinalityType
    <3>8. QED  BY <1>2, <3>4, <3>6, <3>7
  <2>3. QED  BY Zenon, <2>1, <2>2
<1>4. QED  BY Zenon, <1>1, <1>3 DEF WithinLimit

(* The active-run index covers every stored run with its retention, and    *)
(* there are never more than max_active_runs of them.                      *)
THEOREM RunsStayWithinLimit == Spec => []CapacityIsKept
<1>1. Init => WithinLimit
  <2>1. Init => ActiveRuns(store) = {}
    BY DEF Init, EmptyStore, ActiveRuns
  <2>2. QED  BY <2>1, FS_EmptySet, StoreAssumption DEF WithinLimit
<1>2. IInv /\ WithinLimit /\ [Next]_vars => WithinLimit'
  BY Zenon, NextIInv, AdmitsWithinLimit DEF StoreStep
<1>3. IInv /\ WithinLimit => CapacityIsKept
  <2> SUFFICES ASSUME IInv, WithinLimit PROVE CapacityIsKept
    BY Zenon
  <2> DEFINE Stored == {r \in Run : Exists(store, r)}
  <2>1. \A r \in Run : RunOK(store, r)
    BY Zenon DEF IInv, StoreOK, StoreInv
  <2>2. \A r \in Run : Exists(store, r) =>
           store.active[r] = IF store.run[r].persist THEN "forever" ELSE "finite"
    BY Zenon, <2>1 DEF RunOK
  <2>3. Stored \subseteq ActiveRuns(store)
    BY Zenon, <2>2 DEF ActiveRuns
  <2>4. /\ IsFiniteSet(ActiveRuns(store)) /\ Cardinality(ActiveRuns(store)) <= MaxActive
        /\ Cardinality(Stored) <= Cardinality(ActiveRuns(store))
        /\ Cardinality(Stored) \in Nat /\ Cardinality(ActiveRuns(store)) \in Nat
    BY Zenon, <2>3, FS_Subset, FS_CardinalityType DEF WithinLimit
  <2>5. Cardinality(Stored) <= MaxActive
    BY <2>4, StoreAssumption
  <2>6. QED  BY Zenon, <2>2, <2>5 DEF CapacityIsKept
<1>4. QED  BY <1>1, <1>2, <1>3, Invariance, PTL DEF Spec
=============================================================================
