------------------------------ MODULE RunStore ------------------------------
(***************************************************************************)
(* The Redis state of distributed run aggregation and its Lua scripts      *)
(* (infrastructure/redis/aggregation.rs, and register_run of               *)
(* infrastructure/redis/mod.rs).  Redis runs a script atomically, so each  *)
(* script is a function from the state S before it to the state after it   *)
(* and its response code.                                                  *)
(*                                                                         *)
(*   S.run[r]        the hash of run r                                     *)
(*   S.deadlines[r]  the score of r in the deadline index against Redis    *)
(*                   TIME: "ahead", "past", or "none" if r is not in it    *)
(*   S.outbox        the members of the summary outbox                     *)
(*   S.active[r]     the score of r in the active-run index: "finite"      *)
(*                   (now + retention), "forever" or "none"                *)
(*                                                                         *)
(* Scenario, schema version and expected slice count of a run are compared *)
(* together and are one field here, expected.  Of the counters only total  *)
(* is kept: success, failure, the buckets and the error counts are summed  *)
(* the same way.                                                           *)
(***************************************************************************)
EXTENDS Naturals, FiniteSets

CONSTANTS
    Run,        \* run identifiers
    MaxActive,  \* max_active_runs
    MaxKinds,   \* max_error_kinds
    MaxExact    \* largest integer a Lua number holds exactly

ASSUME StoreAssumption ==
    /\ MaxActive \in Nat \ {0}
    /\ MaxKinds \in Nat \ {0}
    /\ MaxExact \in Nat

(* The value of histogram_bounds before the first result, and of a result  *)
(* without buckets.                                                        *)
Unset == "unset"

Absent ==
    [status |-> "absent", expected |-> 0, bounds |-> Unset, slices |-> {},
     received |-> 0, total |-> 0, kinds |-> {}, due |-> FALSE,
     revision |-> 0, pending |-> 0, ack |-> 0, persist |-> FALSE]

NewRun(expected, bounds) ==
    [Absent EXCEPT !.status = "open", !.expected = expected, !.bounds = bounds]

EmptyStore ==
    [run |-> [r \in Run |-> Absent],
     deadlines |-> [r \in Run |-> "none"],
     outbox |-> {},
     active |-> [r \in Run |-> "none"]]

Exists(S, r) == S.run[r].status # "absent"
Finalized(S, r) == S.run[r].status \in {"timed_out", "complete"}
Unpublished(S, r) == S.run[r].pending > S.run[r].ack
ActiveRuns(S) == {r \in Run : S.active[r] # "none"}
AtCapacity_off_by_one(S) == Cardinality(ActiveRuns(S)) > MaxActive
AtCapacity(S) == Cardinality(ActiveRuns(S)) >= MaxActive

Response(S, code) == [store |-> S, code |-> code]

-----------------------------------------------------------------------------
(* PERSIST and PEXPIRE go together with the score in the active-run index. *)
Persist(S, r) ==
    [S EXCEPT !.run[r].persist = TRUE, !.active[r] = "forever"]

Expire(S, r) ==
    [S EXCEPT !.run[r].persist = FALSE, !.active[r] = "finite"]

refresh_retention_always_expires(S, r) ==
    Expire(S, r)

refresh_retention(S, r) ==
    IF Unpublished(S, r) THEN Persist(S, r) ELSE Expire(S, r)

(* A run reaches a final status: a new revision of its summary is pending  *)
(* in the outbox and the run is kept until it is acknowledged.             *)
Closed(run, status) ==
    [run EXCEPT !.status = status,
                !.revision = run.revision + 1,
                !.pending = run.revision + 1]

Finalize_without_outbox(S, r, status) ==
    Persist([S EXCEPT !.run[r] = Closed(@, status),
                      !.deadlines[r] = "none"], r)

Finalize(S, r, status) ==
    Persist([S EXCEPT !.run[r] = Closed(@, status),
                      !.deadlines[r] = "none",
                      !.outbox = @ \union {r}], r)

(* What the scripts do about a run whose hash has expired.                 *)
Forget(S, r) ==
    [S EXCEPT !.deadlines[r] = "none", !.outbox = @ \ {r}, !.active[r] = "none"]

-----------------------------------------------------------------------------
(* register_run: the scheduler announces a run before its first job.       *)
register_run(S, r, expected, due) ==
    IF Exists(S, r)
    THEN IF S.run[r].expected # expected
         THEN Response(S, "changed")
         ELSE Response(refresh_retention(S, r), "known")
    ELSE IF AtCapacity(S)
         THEN Response(S, "capacity")
         ELSE Response(
                Expire([S EXCEPT !.run[r] = [NewRun(expected, Unset) EXCEPT !.due = due],
                                 !.deadlines[r] = IF due THEN "past" ELSE "ahead"], r),
                "registered")

(* INGEST_SCRIPT, first part: why a result x is not accepted.              *)
Changed(run, x) ==
    \/ run.expected # x.expected
    \/ run.bounds # Unset /\ run.bounds # x.bounds

Duplicate(run, x) ==
    <<x.slice, x.key>> \in run.slices

Taken(run, x) ==
    \E e \in run.slices : e[1] = x.slice \/ e[2] = x.key

Refusal_accepting_repeats(S, x) ==
    IF ~Exists(S, x.run) /\ AtCapacity(S) THEN "capacity"
    ELSE IF S.run[x.run].status = "complete" THEN "conflict" ELSE "none"

Refusal_rejecting_repeats(S, x) ==
    IF ~Exists(S, x.run) /\ AtCapacity(S) THEN "capacity"
    ELSE IF Taken(S.run[x.run], x) THEN "invalid" ELSE "none"

Refusal(S, x) ==
    LET run == S.run[x.run]
    IN  IF ~Exists(S, x.run) /\ AtCapacity(S)              THEN "capacity"
        ELSE IF Exists(S, x.run) /\ Changed(run, x)        THEN "conflict"
        ELSE IF run.bounds = Unset /\ run.received # 0     THEN "invalid"
        ELSE IF Duplicate(run, x)                          THEN "duplicate"
        ELSE IF Taken(run, x)                              THEN "conflict"
        ELSE IF run.status = "complete"                    THEN "conflict"
        ELSE IF Exists(S, x.run) /\ run.received >= run.expected
                                                           THEN "invalid"
        ELSE IF Cardinality(run.kinds \union x.kinds) > MaxKinds
                                                           THEN "kinds"
        ELSE IF run.total + x.total > MaxExact             THEN "overflow"
        ELSE "none"

(* The histogram bounds are adopted before most of the refusals.           *)
Adopt(S, x) ==
    IF /\ Exists(S, x.run) /\ ~Changed(S.run[x.run], x)
       /\ S.run[x.run].bounds = Unset /\ S.run[x.run].received = 0
    THEN [S EXCEPT !.run[x.run].bounds = x.bounds]
    ELSE S

(* Second part: the slice is recorded and counted; the last one completes  *)
(* the run.  A late slice that does not complete it changes no revision.   *)
Counted(run, x) ==
    [run EXCEPT !.slices = @ \union {<<x.slice, x.key>>},
                !.received = @ + 1,
                !.total = @ + x.total,
                !.kinds = @ \union x.kinds]

Record(S, x) ==
    LET T == IF Exists(S, x.run)
             THEN Adopt(S, x)
             ELSE [S EXCEPT !.run[x.run] = NewRun(x.expected, x.bounds),
                            !.deadlines[x.run] = "ahead"]
    IN  refresh_retention([T EXCEPT !.run[x.run] = Counted(@, x)], x.run)

ingest_script(S, x) ==
    LET refusal == Refusal(S, x)
        T == Record(S, x)
        late == Finalized(S, x.run)
    IN  IF refusal = "duplicate"
        THEN Response(refresh_retention(Adopt(S, x), x.run), "duplicate")
        ELSE IF refusal # "none"
        THEN Response(Adopt(S, x), refusal)
        ELSE IF T.run[x.run].received = T.run[x.run].expected
        THEN Response(Finalize(T, x.run, "complete"),
                      IF late THEN "late_completed" ELSE "completed")
        ELSE Response(T, IF late THEN "late_accepted" ELSE "accepted")

(* normalize_result refuses a result that is too large by itself before the*)
(* script sees it.                                                         *)
normalize_result(x) ==
    IF Cardinality(x.kinds) > MaxKinds THEN "kinds"
    ELSE IF x.total > MaxExact         THEN "overflow"
    ELSE "none"

ingest(S, x) ==
    IF normalize_result(x) # "none"
    THEN Response(S, normalize_result(x))
    ELSE ingest_script(S, x)

-----------------------------------------------------------------------------
(* MARK_EXPIRED_SCRIPT.                                                    *)
mark_expired_reopens_final(S, r) ==
    IF ~Exists(S, r)
    THEN Response(Forget(S, r), "missing")
    ELSE IF ~S.run[r].due
    THEN Response(S, "not_expired")
    ELSE Response(Finalize(S, r, "timed_out"), "timed_out")

mark_expired(S, r) ==
    IF ~Exists(S, r)
    THEN Response(Forget(S, r), "missing")
    ELSE IF Finalized(S, r)
    THEN LET T == [S EXCEPT !.deadlines[r] = "none"]
         IN  Response(IF Unpublished(S, r) THEN Persist(T, r) ELSE T, "final")
    ELSE IF ~S.run[r].due
    THEN Response(S, "not_expired")
    ELSE Response(Finalize(S, r, "timed_out"), "timed_out")

(* ACKNOWLEDGE_SUMMARY_SCRIPT.  An acknowledgement of an older revision    *)
(* than the current one leaves the outbox alone.                           *)
Settle(S, r) == Expire([S EXCEPT !.outbox = @ \ {r}], r)

acknowledge_any_revision(S, r, revision) ==
    IF ~Exists(S, r)
    THEN Response([S EXCEPT !.outbox = @ \ {r}, !.active[r] = "none"], "missing")
    ELSE Response(Settle([S EXCEPT !.run[r].ack = S.run[r].pending], r),
                  "acknowledged")

acknowledge_summary(S, r, revision) ==
    LET run == S.run[r]
        acked == [S EXCEPT !.run[r].ack = revision]
    IN  IF ~Exists(S, r)
        THEN Response([S EXCEPT !.outbox = @ \ {r}, !.active[r] = "none"], "missing")
        ELSE IF revision > run.revision
        THEN Response(S, "invalid")
        ELSE IF revision < run.revision
        THEN Response(IF revision > run.ack THEN acked ELSE S, "stale")
        ELSE IF run.ack >= revision
        THEN Response(IF Unpublished(S, r) THEN S ELSE Settle(S, r), "already")
        ELSE Response(IF run.pending = revision THEN Settle(acked, r) ELSE acked,
                      "acknowledged")

(* CLEAN_OUTBOX_SCRIPT.                                                    *)
clean_outbox(S, r) ==
    IF Exists(S, r) /\ Unpublished(S, r)
    THEN Response(S, "pending")
    ELSE Response([S EXCEPT !.outbox = @ \ {r}], "cleaned")

(* DUE_RUNS_SCRIPT and the ZRANGE of pending_summaries: at most limit of   *)
(* the members, of which the models take any.                              *)
Batches(members, limit) ==
    {b \in SUBSET members :
        Cardinality(b) = IF Cardinality(members) < limit
                         THEN Cardinality(members) ELSE limit}

due_runs(S) == {r \in Run : S.deadlines[r] = "past"}

-----------------------------------------------------------------------------
(* Time.  Both scores that retention sets end together.                    *)
DeadlinePassed(S, r) ==
    [S EXCEPT !.run[r].due = @ \/ S.run[r].status = "open",
              !.deadlines[r] = IF @ = "ahead" THEN "past" ELSE @]

RetentionEnded(S, r) ==
    [S EXCEPT !.run[r] = IF @.persist THEN @ ELSE Absent,
              !.active[r] = IF @ = "finite" THEN "none" ELSE @]
=============================================================================
