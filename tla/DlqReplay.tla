------------------------------ MODULE DlqReplay ------------------------------
(***************************************************************************)
(* The replay tool pulse_dlq: sessions of one consumer group read the      *)
(* dead-letter topic, publish a new one-slice job for every failed job     *)
(* that matches their filters, and commit the offset after that.  Workers  *)
(* claim and execute the new jobs, retry them or dead-letter them again.   *)
(* A claim ends: by release, by its lease, or by the retention of the      *)
(* terminal state, which is shorter than that of the dead-letter topic.    *)
(*                                                                         *)
(* One partition.  A record stands for its classes: whether it fits the    *)
(* size limit and has a payload, which identity fields it has, whether     *)
(* its envelope is valid, its scenario, its time and the identity of the   *)
(* terminal event.  Kafka is external: a publication or a commit that      *)
(* fails for the tool may have been executed.                              *)
(***************************************************************************)
EXTENDS Naturals, Sequences, FiniteSets

CONSTANTS
  Tools,         \* instances of the tool
  Modes,         \* the environments in which sessions are started
  FirstLogs,     \* what the dead-letter topic may hold at the beginning
  Limit,         \* PULSE_DLQ_REPLAY_LIMIT
  WorkerPlan,    \* the scenario plan of the workers
  MaxRetries,    \* PULSE_WORKER_MAX_RETRIES
  MaxLog,        \* bound on the length of the dead-letter topic
  MaxSessions,   \* bound on the number of sessions
  MaxFaults      \* bound on failed calls, crashes, rebalances and ends of claims

None == 0   \* no tool owns the partition

Record == [fits: BOOLEAN, markers: SUBSET {"failed", "poison"},
           valid: BOOLEAN, scenario: STRING, failed_at: Nat, event: Seq(Nat)]

\* The environment of a session, as far as it decides something.
Mode == [dry_run: BOOLEAN, confirmed: BOOLEAN, scenario_ids: SUBSET STRING,
         since: Nat, until: Nat, known: SUBSET STRING, buildable: BOOLEAN,
         plan: Nat]

ASSUME ReplayAssumption ==
  /\ None \notin Tools
  /\ Modes # {} /\ Modes \subseteq Mode
  /\ {Limit, MaxRetries, MaxLog, MaxSessions, MaxFaults} \subseteq Nat
  /\ FirstLogs \subseteq Seq(Record)

VARIABLES
  dlq,        \* the dead-letter topic
  jobs,       \* the replayed jobs in the jobs topic
  committed,  \* the group's committed offset: the next record
  owner,      \* the tool to which the broker has assigned the partition
  session,    \* session[t]: mode, records seen and control point of a tool
  at,         \* at[t]: offset of the next record, or of the one in hand
  passed,     \* ghost: offsets that a session skipped by its filters
  leased,     \* claims of executions that are running
  settled,    \* claims of executions with a terminal state
  traffic,    \* ghost: executions begun, by DLQ offset and attempt
  ended,      \* ghost: claims that have ended, by DLQ offset and attempt
  sessions,   \* sessions started
  faults      \* faults so far

workers == <<leased, settled, traffic, ended>>
vars == <<dlq, jobs, committed, owner, session, at, passed, workers, sessions,
          faults>>

Attempts == (0 .. MaxLog) \X (0 .. MaxRetries)

Offsets == 0 .. Len(dlq) - 1
RecordAt(o) == dlq[o + 1]

Off == [pc |-> "Off", mode |-> CHOOSE m \in Modes : TRUE, seen |-> 0]

-----------------------------------------------------------------------------
(* Classification of a record. *)

decode_replay_record_lenient(r) ==
  IF r.markers = {"failed"} /\ r.valid THEN "failed" ELSE "poison"

\* Only one of the two kinds of identity fields makes a record known.
decode_replay_record(r) ==
  IF r.valid /\ r.markers = {"failed"} THEN "failed"
  ELSE IF r.valid /\ r.markers = {"poison"} THEN "poison"
  ELSE "invalid"

\* ReplayFilters::matches; a search for a reason filters in the same way.
matches(f, r) ==
  /\ f.scenario_ids = {} \/ r.scenario \in f.scenario_ids
  /\ f.since <= r.failed_at /\ r.failed_at <= f.until

\* What a session does with a record: Err stops it with the offset unsettled.
Disposition(m, r) ==
  IF ~r.fits \/ decode_replay_record(r) = "invalid" THEN "stop"
  ELSE IF decode_replay_record(r) = "poison" \/ ~matches(m, r) \/ m.dry_run THEN "skip"
  ELSE IF r.scenario \in m.known /\ m.buildable THEN "replay"
  ELSE "stop"

build_replay_job_per_session(o, m) ==
  [source |-> o, identity |-> <<sessions, o>> \o RecordAt(o).event,
   scenario |-> RecordAt(o).scenario, plan |-> m.plan, attempt |-> 0]

\* A new run of one slice.  Its identity comes from the coordinates of the
\* record and the identity of the failure; its load and its fingerprint come
\* from the scenarios of the session.
build_replay_job(o, m) ==
  [source |-> o, identity |-> <<o>> \o RecordAt(o).event,
   scenario |-> RecordAt(o).scenario, plan |-> m.plan, attempt |-> 0]

-----------------------------------------------------------------------------
Init ==
  /\ dlq \in FirstLogs
  /\ jobs = {} /\ passed = {} /\ leased = {} /\ settled = {}
  /\ committed = 0 /\ owner = None
  /\ session = [t \in Tools |-> Off]
  /\ at = [t \in Tools |-> 0]
  /\ traffic = [a \in Attempts |-> 0] /\ ended = traffic
  /\ sessions = 0 /\ faults = 0

Fault == faults < MaxFaults /\ faults' = faults + 1
Goto(t, pc) == session' = [session EXCEPT ![t].pc = pc]

Stop(t) ==
  /\ session' = [session EXCEPT ![t] = Off]
  /\ owner' = IF owner = t THEN None ELSE owner
  /\ at' = [at EXCEPT ![t] = 0]

\* The operator starts a session.  Without dry run the confirmation of
\* idempotency is required.
Start(t) ==
  /\ session[t].pc = "Off" /\ sessions < MaxSessions
  /\ \E m \in Modes :
       /\ m.dry_run \/ m.confirmed
       /\ session' = [session EXCEPT ![t] = [pc |-> "Join", mode |-> m, seen |-> 0]]
  /\ sessions' = sessions + 1
  /\ UNCHANGED <<dlq, jobs, committed, owner, at, passed, workers, faults>>

\* The broker assigns the partition: to a waiting member when it is free, or
\* away from another one, which learns of it when it polls again.
Assign(t) ==
  /\ session[t].pc = "Join"
  /\ \/ owner = None /\ UNCHANGED faults
     \/ owner \notin {None, t} /\ Fault
  /\ owner' = t
  /\ at' = [at EXCEPT ![t] = committed]
  /\ Goto(t, "Poll")
  /\ UNCHANGED <<dlq, jobs, committed, passed, workers, sessions>>

Revoked(t) ==
  /\ session[t].pc = "Poll" /\ owner # t
  /\ Goto(t, "Join")
  /\ UNCHANGED <<dlq, jobs, committed, owner, at, passed, workers, sessions,
                 faults>>

\* The scan limit, checked before each poll.
MayScan(s) == s.seen < Limit

LimitReached_spins(t) ==
  /\ session[t].pc = "Poll" /\ ~MayScan(session[t])
  /\ UNCHANGED vars

LimitReached(t) ==
  /\ session[t].pc = "Poll" /\ ~MayScan(session[t])
  /\ Stop(t)
  /\ UNCHANGED <<dlq, jobs, committed, passed, workers, sessions, faults>>

\* Ctrl-c while the session waits for a record, or the death of the process at
\* any point.
Interrupted(t) ==
  /\ session[t].pc # "Off"
  /\ \/ session[t].pc \in {"Join", "Poll"} /\ UNCHANGED faults
     \/ Fault
  /\ Stop(t)
  /\ UNCHANGED <<dlq, jobs, committed, passed, workers, sessions>>

\* The next record is received and classified.  A skipped record is committed,
\* but in a dry run the session just moves on; a failed job to replay waits for
\* its token.
Recv(t) ==
  LET s == session[t]
      o == at[t]
      d == Disposition(s.mode, RecordAt(o))
      next == IF d = "replay" THEN "Publish"
              ELSE IF s.mode.dry_run THEN "Poll" ELSE "Commit"
  IN /\ s.pc = "Poll" /\ owner = t /\ MayScan(s) /\ o \in Offsets
     /\ \/ d = "stop" /\ Stop(t) /\ UNCHANGED passed
        \/ /\ d # "stop"
           /\ session' = [session EXCEPT ![t].pc = next, ![t].seen = @ + 1]
           /\ at' = [at EXCEPT ![t] = IF next = "Poll" THEN o + 1 ELSE o]
           /\ passed' = IF next = "Commit" /\ decode_replay_record(RecordAt(o)) = "failed"
                          THEN passed \cup {o} ELSE passed
           /\ UNCHANGED owner
     /\ UNCHANGED <<dlq, jobs, committed, workers, sessions, faults>>

\* publish_job: acknowledged, or failed with or without the effect.
Publish(t) ==
  /\ session[t].pc = "Publish"
  /\ \/ /\ jobs' = jobs \cup {build_replay_job(at[t], session[t].mode)}
        /\ Goto(t, "Commit")
        /\ UNCHANGED <<owner, at, faults>>
     \/ /\ jobs' \in {jobs, jobs \cup {build_replay_job(at[t], session[t].mode)}}
        /\ Fault /\ Stop(t)
  /\ UNCHANGED <<dlq, committed, passed, workers, sessions>>

\* commit_message: the broker accepts it from the owner only.
Commit(t) ==
  /\ session[t].pc = "Commit" /\ owner = t
  /\ committed' = at[t] + 1
  /\ at' = [at EXCEPT ![t] = @ + 1]
  /\ Goto(t, "Poll")
  /\ UNCHANGED <<dlq, jobs, owner, passed, workers, sessions, faults>>

CommitFails_unfenced(t) ==
  /\ session[t].pc = "Commit"
  /\ \/ owner # t /\ committed' = at[t] + 1 /\ UNCHANGED faults
     \/ owner = t /\ Fault /\ committed' \in {committed, at[t] + 1}
  /\ Stop(t)
  /\ UNCHANGED <<dlq, jobs, passed, workers, sessions>>

\* A refused commit, or one whose answer is lost, stops the session.
CommitFails(t) ==
  /\ session[t].pc = "Commit"
  /\ \/ owner # t /\ UNCHANGED <<committed, faults>>
     \/ owner = t /\ Fault /\ committed' \in {committed, at[t] + 1}
  /\ Stop(t)
  /\ UNCHANGED <<dlq, jobs, passed, workers, sessions>>

-----------------------------------------------------------------------------
(* The workers, as far as they decide what a replayed job does. *)

Key(j) == <<j.identity, j.attempt>>

failed_job(j) ==
  [fits |-> TRUE, markers |-> {"failed"}, valid |-> TRUE, scenario |-> j.scenario,
   failed_at |-> 0, event |-> Append(j.identity, j.attempt)]

Dead(j) == Len(dlq) < MaxLog /\ dlq' = Append(dlq, failed_job(j)) /\ UNCHANGED jobs

\* A job of another plan is dead-lettered before its execution is claimed.
Reject(j) ==
  /\ j.plan # WorkerPlan
  /\ Dead(j)
  /\ UNCHANGED <<workers, faults>>

\* Otherwise its execution is claimed, and begins.  While there is a claim, a
\* further delivery is busy or a completed duplicate, and does nothing.
Claim(j) ==
  /\ j.plan = WorkerPlan /\ Key(j) \notin leased \cup settled
  /\ leased' = leased \cup {Key(j)}
  /\ traffic' = [traffic EXCEPT ![<<j.source, j.attempt>>] = @ + 1]
  /\ UNCHANGED <<dlq, jobs, settled, ended, faults>>

\* What an execution leaves in the topics: a result, a further attempt, or a
\* dead letter.
Outcome(j) ==
  \/ UNCHANGED <<dlq, jobs>>
  \/ /\ j.attempt < MaxRetries
     /\ jobs' = jobs \cup {[j EXCEPT !.attempt = @ + 1]}
     /\ UNCHANGED dlq
  \/ Dead(j)

Settle(j) ==
  /\ j.plan = WorkerPlan /\ Key(j) \in leased
  /\ Outcome(j)
  /\ leased' = leased \ {Key(j)} /\ settled' = settled \cup {Key(j)}
  /\ UNCHANGED <<traffic, ended, faults>>

End(j) == ended' = [ended EXCEPT ![<<j.source, j.attempt>>] = @ + 1] /\ UNCHANGED traffic

\* The worker dies or is cut off, and the lease runs out; or it releases the
\* lease because the outcome was not acknowledged, or not recorded.
Lost(j) ==
  /\ j.plan = WorkerPlan /\ Key(j) \in leased
  /\ Fault /\ Outcome(j) /\ End(j)
  /\ leased' = leased \ {Key(j)} /\ UNCHANGED settled

\* The retention of the terminal state ends.
Forgotten(j) ==
  /\ j.plan = WorkerPlan /\ Key(j) \in settled
  /\ Fault /\ End(j)
  /\ settled' = settled \ {Key(j)} /\ UNCHANGED <<dlq, jobs, leased>>

Work(j) ==
  /\ Reject(j) \/ Claim(j) \/ Settle(j) \/ Lost(j) \/ Forgotten(j)
  /\ UNCHANGED <<committed, owner, session, at, passed, sessions>>

-----------------------------------------------------------------------------
ToolStep(t) ==
  \/ Start(t) \/ Assign(t) \/ Revoked(t) \/ LimitReached(t) \/ Interrupted(t)
  \/ Recv(t) \/ Publish(t) \/ Commit(t) \/ CommitFails(t)

Next == (\E t \in Tools : ToolStep(t)) \/ (\E j \in jobs : Work(j))

Spec == Init /\ [][Next]_vars

\* A running tool takes its steps: recv, publication and commit have timeouts.
\* The operator, faults and workers are not fair.
FairSpec ==
  /\ Spec
  /\ \A t \in Tools :
       WF_vars(\/ Assign(t) \/ Revoked(t) \/ LimitReached(t) \/ Recv(t)
               \/ Publish(t) \/ Commit(t) \/ CommitFails(t))

-----------------------------------------------------------------------------
Pcs == {"Off", "Join", "Poll", "Publish", "Commit"}

\* The types of the tool's and the broker's state.
TypeOK ==
  /\ dlq \in Seq(Record)
  /\ committed \in Nat
  /\ owner \in Tools \cup {None}
  /\ session \in [Tools -> [pc: Pcs, mode: Modes, seen: Nat]]
  /\ at \in [Tools -> Nat]
  /\ traffic \in [Attempts -> Nat] /\ ended \in [Attempts -> Nat]
  /\ jobs \subseteq [source: Nat, identity: Seq(Nat), scenario: STRING, plan: Nat,
                     attempt: 0 .. MaxRetries]

\* A record that is exactly one kind of valid envelope.
Known(r, kind) == r.fits /\ r.valid /\ r.markers = {kind}

\* What a committed offset may mean for a record.
Accounted(o) ==
  \/ Known(RecordAt(o), "poison")
  \/ Known(RecordAt(o), "failed") /\ (o \in passed \/ \E j \in jobs : j.source = o)

\* The group's offset passes a record only when the record is poison evidence,
\* was excluded by the filters of an executing session, or has its new job in
\* the jobs topic.  Unknown envelopes, oversized records, unknown scenarios and
\* failed publications keep the offset where it is, whatever the sessions, their
\* modes, crashes and rebalances are (docs/dlq-operations.md: a republish or
\* commit failure stops before later offsets advance).
CommittedIsAccounted == \A o \in 0 .. committed - 1 : Accounted(o)

\* Replaying a record again, by further sessions or after a lost commit, does not
\* execute it again: a second execution of the same attempt follows an end of its
\* claim.  The replayed jobs of a record have one identity whatever the session,
\* its plan and the number of publications are, and the workers know it (comment
\* of ReplaySource).  Execution is at-least-once: a lost lease, a release, or the
\* retention of the terminal state ends a claim, and then a further delivery or
\* replay of the record does execute.
OneExecutionPerClaim == \A a \in Attempts : traffic[a] <= 1 + ended[a]

\* The group's offset never moves back: a session that lost the partition while
\* it published cannot commit the older offset.
OffsetsOnlyAdvance == [][committed' >= committed]_committed

\* Nothing to do: no session, a session without the partition, or a session
\* that has read the whole topic.
Idle(t) ==
  \/ session[t].pc = "Off"
  \/ session[t].pc = "Join" /\ owner \notin {None, t}
  \/ session[t].pc = "Poll" /\ owner = t /\ at[t] = Len(dlq)
       /\ (session[t].mode.dry_run \/ committed = Len(dlq))

\* Every session ends or reads to the end of the topic, the records that its
\* own jobs produce included; two sessions do not keep each other from it.
SessionsComeToRest == <>[](\A t \in Tools : Idle(t))
=============================================================================
