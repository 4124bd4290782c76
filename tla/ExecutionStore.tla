--------------------------- MODULE ExecutionStore ---------------------------
(***************************************************************************)
(* RedisIdempotencyStore (infrastructure/redis/mod.rs): the record of one  *)
(* attempt of one job and the four Lua scripts on it.  A script is the     *)
(* function from the stored record to the typed answer and the record it   *)
(* leaves behind.                                                          *)
(*                                                                         *)
(* `live' says that lease_until is later than Redis TIME; the owner token  *)
(* is a fresh UUID per claim, here a positive number.                      *)
(***************************************************************************)
EXTENDS Naturals

Terminal == {"completed", "retry_published", "dlq_published"}

Absent == [state |-> "absent", owner |-> 0, live |-> FALSE]
Running(t) == [state |-> "running", owner |-> t, live |-> TRUE]

Answer(code, record) == [code |-> code, record |-> record]

(* claim: acquire an absent record or an expired lease; a terminal record  *)
(* is a verified duplicate, a live lease is busy.                          *)
claim_busy_as_completed(r, t) ==
    IF r = Absent \/ (r.state = "running" /\ ~r.live)
    THEN Answer("acquired", Running(t))
    ELSE Answer("completed", r)
claim_never_recovers(r, t) ==
    IF r = Absent THEN Answer("acquired", Running(t))
    ELSE Answer(IF r.state \in Terminal THEN "completed" ELSE "busy", r)
claim(r, t) ==
    IF r = Absent THEN Answer("acquired", Running(t))
    ELSE IF r.state \in Terminal THEN Answer("completed", r)
    ELSE IF ~r.live THEN Answer("acquired", Running(t))
    ELSE Answer("busy", r)

(* renew: extends the lease of its live owner, which `live' does not show. *)
renew(r, t) ==
    IF r = Absent THEN Answer("stale", r)
    ELSE IF r.state # "running" THEN Answer("invalid", r)
    ELSE IF r.owner # t \/ ~r.live THEN Answer("stale", r)
    ELSE Answer("ok", r)

(* complete: the owner records its outcome once; repeating it is harmless. *)
complete(r, t, outcome) ==
    IF r = Absent \/ r.owner # t THEN Answer("stale", r)
    ELSE IF r.state \in Terminal
    THEN Answer(IF r.state = outcome THEN "ok" ELSE "invalid", r)
    ELSE IF ~r.live THEN Answer("stale", r)
    ELSE Answer("ok", [state |-> outcome, owner |-> t, live |-> FALSE])

(* release: the live owner deletes the record of an unsettled attempt.     *)
release_without_owner_check(r, t) ==
    IF r.state = "running" THEN Answer("released", Absent) ELSE Answer("invalid", r)
release(r, t) ==
    IF r = Absent THEN Answer("absent", r)
    ELSE IF r.state # "running" THEN Answer("invalid", r)
    ELSE IF r.owner # t \/ ~r.live THEN Answer("stale", r)
    ELSE Answer("released", Absent)

=============================================================================
