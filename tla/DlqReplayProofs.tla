--------------------------- MODULE DlqReplayProofs ---------------------------
(***************************************************************************)
(* Proofs about the replay tool, for every set of tools and modes, every   *)
(* dead-letter topic and all bounds.                                       *)
(***************************************************************************)
EXTENDS DlqReplay, TLAPS

Holding == {"Poll", "Publish", "Commit"}

\* Offsets lie in the topic, and all below them is accounted for: below the
\* committed one, and below the position of a session that executes.
LogInv ==
  /\ committed <= Len(dlq)
  /\ CommittedIsAccounted
  /\ \A t \in Tools :
       /\ at[t] <= Len(dlq) /\ (session[t].pc = "Off" => at[t] = 0)
       /\ ~session[t].mode.dry_run => \A o \in 0 .. at[t] - 1 : Accounted(o)

\* What a session knows of the record in hand.
HandInv ==
  \A t \in Tools :
    session[t].pc \in {"Publish", "Commit"} =>
      /\ ~session[t].mode.dry_run
      /\ at[t] < Len(dlq)
      /\ session[t].pc = "Publish" => Known(RecordAt(at[t]), "failed")
      /\ session[t].pc = "Commit" => Accounted(at[t])

\* The owner holds the partition and is not behind the committed offset.
OwnerInv ==
  \A t \in Tools : owner = t => session[t].pc \in Holding /\ committed <= at[t]

Identity(o) == <<o>> \o RecordAt(o).event

\* A job has the identity of its record.
JobInv == \A j \in jobs : j.source \in Offsets /\ j.identity = Identity(j.source)

Claims == leased \cup settled

\* An execution beyond the ended claims has its claim.
ClaimInv ==
  \A o \in 0 .. MaxLog, n \in 0 .. MaxRetries :
    LET a == <<o, n>>
    IN traffic[a] # 0 =>
         /\ o \in Offsets
         /\ \/ traffic[a] <= ended[a]
            \/ traffic[a] = ended[a] + 1 /\ <<Identity(o), n>> \in Claims

IInv == TypeOK /\ LogInv /\ HandInv /\ OwnerInv /\ JobInv /\ ClaimInv

-----------------------------------------------------------------------------
\* Disposition has three values.  Only failed jobs are replayed, never in a dry
\* run, and only known envelopes are skipped.
LEMMA DispositionFacts ==
  ASSUME NEW m \in Mode, NEW r \in Record
  PROVE  /\ Disposition(m, r) \in {"stop", "skip", "replay"}
         /\ Disposition(m, r) = "replay" => ~m.dry_run /\ Known(r, "failed")
         /\ Disposition(m, r) = "skip" =>
              Known(r, decode_replay_record(r))
                /\ decode_replay_record(r) \in {"failed", "poison"}
<1> USE DEF Mode, Record
<1>1. /\ decode_replay_record(r) \in {"failed", "poison", "invalid"}
      /\ decode_replay_record(r) # "invalid" =>
           r.valid /\ r.markers = {decode_replay_record(r)}
  BY DEF decode_replay_record
<1>2. matches(m, r) \in BOOLEAN /\ (r.scenario \notin m.known) \in BOOLEAN
  BY DEF matches
<1> QED BY <1>1, <1>2 DEF Disposition, Known

\* The topic is append-only, and records are never unaccounted for.
LEMMA AccountedStays ==
  ASSUME dlq \in Seq(Record),
         dlq' = dlq \/ \E r \in Record : dlq' = Append(dlq, r),
         jobs \subseteq jobs', passed \subseteq passed',
         NEW o \in Nat, o < Len(dlq)
  PROVE  /\ Len(dlq) <= Len(dlq')
         /\ RecordAt(o)' = RecordAt(o) /\ Identity(o)' = Identity(o)
         /\ Accounted(o) => Accounted(o)'
<1>1. Len(dlq) <= Len(dlq') /\ dlq'[o + 1] = dlq[o + 1]
  OBVIOUS
<1> QED BY <1>1 DEF RecordAt, Identity, Accounted

\* The initial states satisfy the inductive invariant.
LEMMA InitIInv == Init => IInv
<1> SUFFICES ASSUME Init PROVE IInv
  OBVIOUS
<1> USE ReplayAssumption DEF Init, Off
<1>1. TypeOK
  BY DEF TypeOK, Pcs
<1>2. LogInv
  BY DEF LogInv, CommittedIsAccounted
<1>3. HandInv /\ OwnerInv
  BY DEF HandInv, OwnerInv
<1>4. JobInv /\ ClaimInv
  BY DEF JobInv, ClaimInv, Attempts
<1> QED BY <1>1, <1>2, <1>3, <1>4 DEF IInv

\* What every step leaves: the topic grows, and so does what is accounted for.
LEMMA Growth ==
  ASSUME TypeOK, [Next]_vars
  PROVE  /\ dlq' = dlq \/ \E r \in Record : dlq' = Append(dlq, r)
         /\ jobs \subseteq jobs' /\ passed \subseteq passed'
<1>1. ASSUME NEW t \in Tools, ToolStep(t)
      PROVE  dlq' = dlq /\ jobs \subseteq jobs' /\ passed \subseteq passed'
  BY <1>1 DEF ToolStep, Start, Assign, Revoked, LimitReached, Interrupted, Recv,
              Publish, Commit, CommitFails
<1>2. ASSUME NEW j \in jobs, Work(j)
      PROVE  /\ dlq' = dlq \/ \E r \in Record : dlq' = Append(dlq, r)
             /\ jobs \subseteq jobs' /\ passed' = passed
  <2>1. failed_job(j) \in Record
    BY DEF TypeOK, Record, failed_job
  <2> QED BY <1>2, <2>1 DEF Work, Reject, Claim, Settle, Lost, Forgotten, Outcome, Dead
<1>3. CASE UNCHANGED vars
  BY <1>3 DEF vars
<1> QED BY <1>1, <1>2, <1>3 DEF Next

\* The invariant is preserved by a step in which one session moves to s with
\* position a, if what s claims of its record holds.
LEMMA SessionStep ==
  ASSUME IInv, NEW t \in Tools,
         NEW s \in [pc: Pcs, mode: Modes, seen: Nat], NEW a \in Nat,
         session' = [session EXCEPT ![t] = s], at' = [at EXCEPT ![t] = a],
         UNCHANGED <<dlq, leased, settled, traffic, ended>>,
         jobs \subseteq jobs', passed \subseteq passed',
         \A j \in jobs' : \/ j \in jobs
                          \/ \E o \in Offsets, m \in Modes : j = build_replay_job(o, m),
         a <= Len(dlq), s.pc = "Off" => a = 0,
         ~s.mode.dry_run => \A o \in 0 .. a - 1 : Accounted(o)',
         s.pc \in {"Publish", "Commit"} => ~s.mode.dry_run /\ a < Len(dlq),
         s.pc = "Publish" => Known(RecordAt(a), "failed"),
         s.pc = "Commit" => Accounted(a)',
         committed' = committed \/ (owner = t /\ committed' \in 0 .. Len(dlq)),
         \A o \in 0 .. committed' - 1 : Accounted(o)',
         owner' \in {owner, t, None},
         owner' = t => s.pc \in Holding /\ committed' <= a,
         owner' # t => owner' = None \/ owner # t
  PROVE  IInv'
<1> USE DEF IInv
<1>1. TypeOK'
  <2>1. \A o \in Offsets, m \in Modes : build_replay_job(o, m) \in
          [source: Nat, identity: Seq(Nat), scenario: STRING, plan: Nat,
           attempt: 0 .. MaxRetries]
    <3> TAKE o \in Offsets, m \in Modes
    <3>1. o \in Nat /\ RecordAt(o) \in Record /\ m \in Mode
      BY ReplayAssumption DEF Offsets, RecordAt, TypeOK
    <3>2. <<o>> \o RecordAt(o).event \in Seq(Nat)
      BY <3>1 DEF Record
    <3>3. 0 \in 0 .. MaxRetries
      BY ReplayAssumption
    <3> QED BY <3>1, <3>2, <3>3 DEF build_replay_job, Record, Mode
  <2> QED BY <2>1 DEF TypeOK
<1>2. \A o \in Nat : /\ o < Len(dlq) => (Accounted(o) => Accounted(o)')
                     /\ RecordAt(o)' = RecordAt(o) /\ Identity(o)' = Identity(o)
  BY DEF Accounted, RecordAt, Identity
<1>3. \A u \in Tools : u # t => session'[u] = session[u] /\ at'[u] = at[u]
  BY DEF TypeOK
<1>4. session'[t] = s /\ at'[t] = a
  BY DEF TypeOK
<1>5. LogInv'
  <2>1. committed' <= Len(dlq') /\ CommittedIsAccounted'
    BY DEF LogInv, CommittedIsAccounted, TypeOK
  <2>2. ASSUME NEW u \in Tools
        PROVE  /\ at'[u] <= Len(dlq') /\ (session'[u].pc = "Off" => at'[u] = 0)
               /\ ~session'[u].mode.dry_run => \A o \in 0 .. at'[u] - 1 : Accounted(o)'
    <3>1. CASE u = t
      BY <3>1, <1>4
    <3>2. CASE u # t
      <4>1. at[u] <= Len(dlq) /\ at[u] \in Nat /\ Len(dlq) \in Nat
        BY DEF LogInv, TypeOK
      <4> QED BY <4>1, <3>2, <1>2, <1>3 DEF LogInv
    <3> QED BY <3>1, <3>2
  <2> QED BY <2>1, <2>2 DEF LogInv
<1>6. HandInv'
  <2> SUFFICES ASSUME NEW u \in Tools, session'[u].pc \in {"Publish", "Commit"}
               PROVE  /\ ~session'[u].mode.dry_run
                      /\ at'[u] < Len(dlq')
                      /\ session'[u].pc = "Publish" => Known(RecordAt(at[u])', "failed")
                      /\ session'[u].pc = "Commit" => Accounted(at[u])'
    BY DEF HandInv
  <2>1. at[u] \in Nat
    BY DEF TypeOK
  <2>2. CASE u = t
    BY <2>2, <1>2, <1>4 DEF Known, RecordAt, Accounted
  <2>3. CASE u # t
    BY <2>1, <2>3, <1>2, <1>3 DEF HandInv, RecordAt, Accounted
  <2> QED BY <2>2, <2>3
<1>7. OwnerInv'
  BY <1>3, <1>4, ReplayAssumption DEF OwnerInv, TypeOK
<1>8. JobInv'
  <2>1. \A o \in Offsets : o \in Nat
    BY DEF Offsets, TypeOK
  <2>2. ASSUME NEW j \in jobs'
        PROVE  j.source \in Offsets' /\ j.identity = Identity(j.source)'
    <3>1. CASE j \in jobs
      BY <3>1, <2>1, <1>2 DEF JobInv, Offsets
    <3>2. ASSUME NEW o \in Offsets, NEW m \in Modes, j = build_replay_job(o, m)
          PROVE  j.source = o /\ j.identity = Identity(o)
      BY <3>2 DEF build_replay_job, Identity
    <3> QED BY <3>1, <3>2, <2>1, <1>2 DEF Offsets
  <2> QED BY <2>2 DEF JobInv
<1>9. ClaimInv'
  <2>1. \A o \in 0 .. MaxLog : Identity(o)' = Identity(o)
    BY <1>2, ReplayAssumption
  <2> QED BY <2>1 DEF ClaimInv, Claims, Offsets
<1> QED BY <1>1, <1>5, <1>6, <1>7, <1>8, <1>9

\* A session that stops claims nothing.
LEMMA StopStep ==
  ASSUME IInv, NEW t \in Tools, Stop(t),
         UNCHANGED <<dlq, leased, settled, traffic, ended>>, passed' = passed,
         jobs \subseteq jobs',
         \A j \in jobs' : \/ j \in jobs
                          \/ \E o \in Offsets, m \in Modes : j = build_replay_job(o, m),
         committed' = committed \/ (owner = t /\ committed' \in 0 .. Len(dlq)),
         \A o \in 0 .. committed' - 1 : Accounted(o)'
  PROVE  IInv'
<1>1. Off \in [pc: Pcs, mode: Modes, seen: Nat] /\ Off.pc = "Off"
  BY ReplayAssumption DEF Off, Pcs
<1>2. owner' \in {owner, t, None} /\ owner' # t
  BY ReplayAssumption DEF Stop
<1>3. owner' = None \/ owner # t
  BY DEF Stop
<1>4. session' = [session EXCEPT ![t] = Off] /\ at' = [at EXCEPT ![t] = 0]
  BY DEF Stop
<1>5. 0 <= Len(dlq) /\ \A o \in 0 .. 0 - 1 : Accounted(o)'
  BY DEF IInv, TypeOK
<1>6. Off.pc \notin {"Publish", "Commit"} /\ Off.pc # "Publish" /\ Off.pc # "Commit"
  BY <1>1
<1>7. passed \subseteq passed' /\ 0 \in Nat
  OBVIOUS
<1> QED BY ONLY IInv, t \in Tools, UNCHANGED <<dlq, leased, settled, traffic, ended>>,
     jobs \subseteq jobs',
     \A j \in jobs' : \/ j \in jobs
                      \/ \E o \in Offsets, m \in Modes : j = build_replay_job(o, m),
     committed' = committed \/ (owner = t /\ committed' \in 0 .. Len(dlq)),
     \A o \in 0 .. committed' - 1 : Accounted(o)',
     <1>1, <1>2, <1>3, <1>4, <1>5, <1>6, <1>7, SessionStep, Zenon

\* Every step of a session preserves the invariant.
LEMMA ToolIInv ==
  ASSUME IInv, NEW t \in Tools, ToolStep(t)
  PROVE  IInv'
<1> DEFINE S == [pc: Pcs, mode: Modes, seen: Nat]
<1>0. PICK s \in S, a \in Nat : s = session[t] /\ a = at[t]
  BY DEF IInv, TypeOK
<1>1. /\ a <= Len(dlq) /\ Len(dlq) \in Nat /\ dlq \in Seq(Record)
      /\ committed \in Nat /\ committed <= Len(dlq)
      /\ s.pc = "Off" => a = 0
  BY <1>0 DEF IInv, TypeOK, LogInv
<1>2. dlq' = dlq /\ jobs \subseteq jobs' /\ passed \subseteq passed'
      /\ UNCHANGED <<leased, settled, traffic, ended>>
  BY DEF ToolStep, Start, Assign, Revoked, LimitReached, Interrupted, Recv,
         Publish, Commit, CommitFails, workers
<1>3. ASSUME NEW o \in Nat, o < Len(dlq), Accounted(o)
      PROVE  Accounted(o)'
  BY <1>1, <1>2, <1>3, AccountedStays
<1>4. \A o \in 0 .. committed - 1 : Accounted(o)'
  BY <1>1, <1>3 DEF IInv, LogInv, CommittedIsAccounted
<1>5. ~s.mode.dry_run => \A o \in 0 .. a - 1 : Accounted(o)'
  BY <1>0, <1>1, <1>3 DEF IInv, LogInv
<1>6. session = [session EXCEPT ![t] = s] /\ at = [at EXCEPT ![t] = a]
  BY <1>0 DEF IInv, TypeOK
<1>7. ASSUME s.pc = "Commit"
      PROVE  /\ ~s.mode.dry_run /\ a < Len(dlq) /\ Accounted(a)'
             /\ a + 1 \in 0 .. Len(dlq)
             /\ \A o \in 0 .. (a + 1) - 1 : Accounted(o)'
  <2>1. ~s.mode.dry_run /\ a < Len(dlq) /\ Accounted(a)
    BY <1>0, <1>7 DEF IInv, HandInv
  <2>2. Accounted(a)'
    BY <2>1, <1>3
  <2>3. \A o \in 0 .. (a + 1) - 1 : o = a \/ o \in 0 .. a - 1
    OBVIOUS
  <2> QED BY <2>1, <2>2, <2>3, <1>1, <1>5
<1>8. owner = t => s.pc \in Holding /\ committed <= a
  BY <1>0 DEF IInv, OwnerInv
<1>9. CASE Start(t)
  <2>1. PICK m \in Modes :
          session' = [session EXCEPT ![t] = [pc |-> "Join", mode |-> m, seen |-> 0]]
    BY <1>9 DEF Start
  <2>2. PICK n \in S : n = [pc |-> "Join", mode |-> m, seen |-> 0]
    BY DEF Pcs
  <2>3. a = 0 /\ owner # t
    BY <1>0, <1>1, <1>8, <1>9 DEF Start, Holding
  <2>4. /\ at' = [at EXCEPT ![t] = a] /\ jobs' = jobs
        /\ committed' = committed /\ owner' = owner
    BY <1>6, <1>9 DEF Start
  <2>5. \A o \in 0 .. a - 1 : Accounted(o)'
    BY <2>3
  <2> QED BY <1>1, <1>2, <1>4, <2>1, <2>2, <2>3, <2>4, <2>5, SessionStep
<1>10. CASE Assign(t)
  <2>1. PICK n \in S, b \in Nat : n = [s EXCEPT !.pc = "Poll"] /\ b = committed
    BY <1>1 DEF Pcs
  <2>2. /\ session' = [session EXCEPT ![t] = n] /\ at' = [at EXCEPT ![t] = b]
        /\ jobs' = jobs /\ committed' = committed /\ owner' = t
    BY <1>0, <1>10, <2>1 DEF Assign, Goto, IInv, TypeOK
  <2>3. n.pc = "Poll" /\ n.pc \in Holding
    BY <2>1 DEF Holding
  <2>4. /\ b <= Len(dlq) /\ committed' <= b
        /\ \A o \in 0 .. b - 1 : Accounted(o)'
        /\ \A o \in 0 .. committed' - 1 : Accounted(o)'
    BY <1>1, <1>4, <2>1, <2>2
  <2> QED BY <1>2, <2>2, <2>3, <2>4, SessionStep
<1>11. CASE Revoked(t)
  <2>1. PICK n \in S : n = [s EXCEPT !.pc = "Join"]
    BY DEF Pcs
  <2>2. /\ session' = [session EXCEPT ![t] = n] /\ at' = [at EXCEPT ![t] = a]
        /\ jobs' = jobs /\ committed' = committed /\ owner' = owner /\ owner # t
    BY <1>0, <1>6, <1>11, <2>1 DEF Revoked, Goto, IInv, TypeOK
  <2>3. n.pc = "Join" /\ n.mode = s.mode
    BY <2>1
  <2> QED BY <1>1, <1>2, <1>4, <1>5, <2>1, <2>2, <2>3, SessionStep
<1>12. CASE LimitReached(t)
  BY <1>2, <1>4, <1>12, StopStep DEF LimitReached
<1>13. CASE Interrupted(t)
  BY <1>2, <1>4, <1>13, StopStep DEF Interrupted
<1>14. CASE Recv(t)
  <2> DEFINE d == Disposition(s.mode, RecordAt(a))
             next == IF d = "replay" THEN "Publish"
                     ELSE IF s.mode.dry_run THEN "Poll" ELSE "Commit"
  <2>1. /\ s.pc = "Poll" /\ owner = t /\ a < Len(dlq) /\ RecordAt(a) \in Record
        /\ jobs' = jobs /\ committed' = committed
    BY <1>0, <1>1, <1>14 DEF Recv, Offsets, RecordAt
  <2>2. CASE Stop(t) /\ UNCHANGED passed
    BY <1>2, <1>4, <2>1, <2>2, StopStep
  <2>3. CASE d # "stop" /\ owner' = owner
             /\ session' = [session EXCEPT ![t].pc = next, ![t].seen = @ + 1]
             /\ at' = [at EXCEPT ![t] = IF next = "Poll" THEN a + 1 ELSE a]
             /\ passed' = IF next = "Commit" /\ decode_replay_record(RecordAt(a)) = "failed"
                            THEN passed \cup {a} ELSE passed
    <3>1. s.mode \in Mode
      BY ReplayAssumption
    <3>2. /\ d = "replay" => ~s.mode.dry_run /\ Known(RecordAt(a), "failed")
          /\ d # "replay" => /\ Known(RecordAt(a), decode_replay_record(RecordAt(a)))
                             /\ decode_replay_record(RecordAt(a)) \in {"failed", "poison"}
      BY <3>1, <2>1, <2>3, DispositionFacts
    <3>3. PICK n \in S, b \in Nat : /\ n = [pc |-> next, mode |-> s.mode, seen |-> s.seen + 1]
                                    /\ b = IF next = "Poll" THEN a + 1 ELSE a
      <4>1. next \in Pcs
        BY DEF Pcs
      <4> HIDE DEF next
      <4>2. [pc |-> next, mode |-> s.mode, seen |-> s.seen + 1] \in S
        BY <4>1
      <4>3. (IF next = "Poll" THEN a + 1 ELSE a) \in Nat
        OBVIOUS
      <4> QED BY <4>2, <4>3
    <3>4. session' = [session EXCEPT ![t] = n] /\ at' = [at EXCEPT ![t] = b]
      <4>1. session \in [Tools -> S] /\ at \in [Tools -> Nat]
        BY DEF IInv, TypeOK
      <4> HIDE DEF next
      <4> QED BY <1>0, <2>3, <3>3, <4>1
    <3>5. n.pc = next /\ n.mode = s.mode /\ n.pc \in Holding /\ b <= Len(dlq)
      BY <1>1, <2>1, <3>3 DEF Holding
    <3>6. /\ next = "Publish" => ~s.mode.dry_run /\ b = a /\ Known(RecordAt(a), "failed")
          /\ next = "Commit" => ~s.mode.dry_run /\ b = a /\ d # "replay"
          /\ next = "Poll" => s.mode.dry_run
      BY <3>2, <3>3
    <3>7. ASSUME next = "Commit"
          PROVE  Accounted(a)'
      <4>1. decode_replay_record(RecordAt(a)) = "failed" => a \in passed'
        BY <2>3, <3>7
      <4>2. RecordAt(a)' = RecordAt(a)
        BY <1>2 DEF RecordAt
      <4> QED BY <3>2, <3>6, <3>7, <4>1, <4>2 DEF Accounted
    <3>8. ~n.mode.dry_run => \A o \in 0 .. b - 1 : Accounted(o)'
      BY <1>5, <3>5, <3>6
    <3>9. committed' <= b /\ \A o \in 0 .. committed' - 1 : Accounted(o)'
      BY <1>1, <1>4, <1>8, <2>1, <3>3
    <3>10. /\ n.pc # "Off"
           /\ n.pc \in {"Publish", "Commit"} => ~n.mode.dry_run /\ b < Len(dlq)
           /\ n.pc = "Publish" => Known(RecordAt(b), "failed")
           /\ n.pc = "Commit" => Accounted(b)'
      BY <2>1, <3>5, <3>6, <3>7
    <3>11. owner' \in {owner, t, None} /\ owner' = t
      BY <2>1, <2>3
    <3> HIDE DEF next, d
    <3> QED BY <1>2, <2>1, <3>4, <3>5, <3>8, <3>9, <3>10, <3>11, SessionStep
  <2> QED BY <1>0, <1>14, <2>2, <2>3 DEF Recv
<1>15. CASE Publish(t)
  <2>1. /\ s.pc = "Publish" /\ ~s.mode.dry_run /\ a < Len(dlq)
        /\ Known(RecordAt(a), "failed") /\ a \in Offsets
    BY <1>0, <1>1, <1>15 DEF Publish, IInv, HandInv, Offsets
  <2>2. /\ jobs' \in {jobs, jobs \cup {build_replay_job(a, s.mode)}}
        /\ committed' = committed /\ passed' = passed
    BY <1>0, <1>15 DEF Publish
  <2>3. /\ \A j \in jobs' : \/ j \in jobs
                            \/ \E o \in Offsets, m \in Modes : j = build_replay_job(o, m)
        /\ \A o \in 0 .. committed' - 1 : Accounted(o)'
    BY <1>4, <2>1, <2>2
  <2>4. CASE Stop(t)
    BY <1>2, <2>2, <2>3, <2>4, StopStep
  <2>5. CASE /\ jobs' = jobs \cup {build_replay_job(a, s.mode)}
             /\ Goto(t, "Commit") /\ owner' = owner /\ at' = at
    <3>1. PICK n \in S : n = [s EXCEPT !.pc = "Commit"]
      BY DEF Pcs
    <3>2. session' = [session EXCEPT ![t] = n] /\ at' = [at EXCEPT ![t] = a]
      BY <1>0, <1>6, <2>5, <3>1 DEF Goto, IInv, TypeOK
    <3>3. n.pc = "Commit" /\ n.mode = s.mode /\ n.pc \in Holding
      BY <3>1 DEF Holding
    <3>4. build_replay_job(a, s.mode).source = a /\ RecordAt(a)' = RecordAt(a)
      BY <1>2 DEF build_replay_job, RecordAt
    <3>5. Accounted(a)'
      BY <2>1, <2>5, <3>4 DEF Accounted
    <3>6. owner' = t => committed' <= a
      BY <1>8, <2>2, <2>5
    <3> QED BY <1>1, <1>2, <1>5, <2>1, <2>2, <2>3, <2>5, <3>2, <3>3, <3>5, <3>6,
               SessionStep
  <2> QED BY <1>0, <1>15, <2>4, <2>5 DEF Publish
<1>16. CASE Commit(t)
  <2>0. PICK n \in S : n = [s EXCEPT !.pc = "Poll"]
    BY DEF Pcs
  <2>1. PICK b \in Nat : b = a + 1
    OBVIOUS
  <2>2. /\ session' = [session EXCEPT ![t] = n] /\ at' = [at EXCEPT ![t] = b]
        /\ jobs' = jobs /\ committed' = b /\ owner' = owner /\ owner = t
        /\ s.pc = "Commit"
    BY <1>0, <1>16, <2>0, <2>1 DEF Commit, Goto, IInv, TypeOK
  <2>3. n.pc = "Poll" /\ n.mode = s.mode /\ n.pc \in Holding
    BY <2>0 DEF Holding
  <2>4. /\ committed' \in 0 .. Len(dlq) /\ b <= Len(dlq) /\ committed' <= b
        /\ \A o \in 0 .. b - 1 : Accounted(o)'
        /\ \A o \in 0 .. committed' - 1 : Accounted(o)'
    BY <1>7, <2>1, <2>2
  <2> QED BY <1>2, <2>2, <2>3, <2>4, SessionStep
<1>17. CASE CommitFails(t)
  <2>1. /\ s.pc = "Commit" /\ Stop(t) /\ jobs' = jobs /\ passed' = passed
        /\ committed' = committed \/ (owner = t /\ committed' = a + 1)
    BY <1>0, <1>17 DEF CommitFails
  <2>2. committed' = committed \/ (owner = t /\ committed' \in 0 .. Len(dlq))
    BY <1>7, <2>1
  <2>3. \A o \in 0 .. committed' - 1 : Accounted(o)'
    BY <1>4, <1>7, <2>1
  <2> QED BY <1>2, <2>1, <2>2, <2>3, StopStep
<1> QED BY <1>9, <1>10, <1>11, <1>12, <1>13, <1>14, <1>15, <1>16, <1>17 DEF ToolStep

\* A count goes up.
LEMMA CountUp ==
  ASSUME NEW D, NEW f \in [D -> Nat], NEW b
  PROVE  /\ [f EXCEPT ![b] = @ + 1] \in [D -> Nat]
         /\ \A x \in D : [f EXCEPT ![b] = @ + 1][x] = IF x = b THEN f[x] + 1 ELSE f[x]
<1>1. \A x \in D : f[x] \in Nat /\ f[x] + 1 \in Nat
  OBVIOUS
<1> QED BY <1>1

\* Two records have two identities.
LEMMA IdentityIsUnique ==
  ASSUME dlq \in Seq(Record), NEW o \in Offsets, NEW p \in Offsets,
         Identity(o) = Identity(p)
  PROVE  o = p
<1>1. \A q \in Offsets : q \in Nat /\ RecordAt(q).event \in Seq(Nat)
  <2> TAKE q \in Offsets
  <2>1. q \in Nat /\ q + 1 \in 1 .. Len(dlq)
    BY DEF Offsets
  <2>2. RecordAt(q) \in Record
    BY <2>1 DEF RecordAt
  <2> QED BY <2>1, <2>2 DEF Record
<1>2. (<<o>> \o RecordAt(o).event)[1] = o /\ (<<p>> \o RecordAt(p).event)[1] = p
  BY <1>1
<1> QED BY <1>2 DEF Identity

\* What the execution of a replayed job does to the topics.
LEMMA WorkTopics ==
  ASSUME IInv, NEW j \in jobs, Work(j)
  PROVE  /\ dlq' = dlq \/ \E r \in Record : dlq' = Append(dlq, r)
         /\ jobs' = jobs \/ (j.attempt < MaxRetries /\ jobs' = jobs \cup {[j EXCEPT !.attempt = @ + 1]})
         /\ UNCHANGED <<committed, owner, session, at, passed>>
<1>1. TypeOK
  BY DEF IInv
<1>2. dlq' = dlq \/ \E r \in Record : dlq' = Append(dlq, r)
  BY <1>1, Growth DEF Next
<1>3. /\ jobs' = jobs \/ (j.attempt < MaxRetries /\ jobs' = jobs \cup {[j EXCEPT !.attempt = @ + 1]})
      /\ UNCHANGED <<committed, owner, session, at, passed>>
  BY DEF Work, Reject, Claim, Settle, Lost, Forgotten, Outcome, Dead
<1> QED BY <1>2, <1>3

\* The execution of a replayed job preserves what is known of claims.
LEMMA WorkClaims ==
  ASSUME IInv, NEW j \in jobs, Work(j),
         NEW o \in 0 .. MaxLog, NEW n \in 0 .. MaxRetries, traffic'[<<o, n>>] # 0
  PROVE  /\ traffic' \in [Attempts -> Nat] /\ ended' \in [Attempts -> Nat]
         /\ o \in Offsets
         /\ \/ traffic'[<<o, n>>] <= ended'[<<o, n>>]
            \/ traffic'[<<o, n>>] = ended'[<<o, n>>] + 1 /\ <<Identity(o), n>> \in Claims'
<1> DEFINE a == <<o, n>>
           b == <<j.source, j.attempt>>
<1>1. /\ a \in Attempts /\ traffic \in [Attempts -> Nat] /\ ended \in [Attempts -> Nat]
      /\ traffic[a] \in Nat /\ ended[a] \in Nat /\ dlq \in Seq(Record)
  BY DEF IInv, TypeOK, Attempts
<1>2. j.source \in Offsets /\ j.identity = Identity(j.source)
  BY DEF IInv, JobInv
<1>3. traffic[a] # 0 =>
        /\ o \in Offsets
        /\ \/ traffic[a] <= ended[a]
           \/ traffic[a] = ended[a] + 1 /\ <<Identity(o), n>> \in Claims
  BY DEF IInv, ClaimInv
<1>4. a = b <=> o = j.source /\ n = j.attempt
  OBVIOUS
<1>5. CASE Claims \subseteq Claims' /\ UNCHANGED <<traffic, ended>>
  BY <1>1, <1>3, <1>5
<1>6. CASE Claim(j)
  <2>1. /\ Key(j) \notin Claims /\ Claims' = Claims \cup {Key(j)} /\ ended' = ended
        /\ traffic' = [traffic EXCEPT ![b] = @ + 1]
    BY <1>6 DEF Claim, Claims
  <2>2. traffic' \in [Attempts -> Nat]
    BY <1>1, <2>1, CountUp
  <2>3. CASE a = b
    <3>1. Key(j) = <<Identity(o), n>> /\ o \in Offsets
      BY <1>2, <1>4, <2>3 DEF Key
    <3>2. traffic'[a] = traffic[a] + 1
      BY <1>1, <2>1, <2>3
    <3> QED BY <1>1, <1>3, <2>1, <2>2, <3>1, <3>2
  <2>4. CASE a # b
    <3>1. traffic'[a] = traffic[a]
      BY <1>1, <2>1, <2>4
    <3> QED BY <1>1, <1>3, <2>1, <2>2, <3>1
  <2> QED BY <2>3, <2>4
<1>7. CASE Lost(j) \/ Forgotten(j)
  <2>1. /\ Claims \ {Key(j)} \subseteq Claims' /\ traffic' = traffic
        /\ ended' = [ended EXCEPT ![b] = @ + 1]
    BY <1>7 DEF Lost, Forgotten, End, Claims
  <2>2. ended' \in [Attempts -> Nat]
    BY <1>1, <2>1, CountUp
  <2>3. CASE a = b
    <3>1. ended'[a] = ended[a] + 1
      BY <1>1, <2>1, <2>3
    <3> QED BY <1>1, <1>3, <2>1, <2>2, <3>1
  <2>4. CASE a # b
    <3>1. ended'[a] = ended[a]
      BY <1>1, <2>1, <2>4
    <3>2. o \in Offsets => <<Identity(o), n>> # Key(j)
      BY <1>1, <1>2, <1>4, <2>4, IdentityIsUnique DEF Key
    <3> QED BY <1>1, <1>3, <2>1, <2>2, <3>1, <3>2
  <2> QED BY <2>3, <2>4
<1>8. CASE Reject(j) \/ Settle(j)
  BY <1>5, <1>8 DEF Reject, Settle, Claims, workers
<1> QED BY <1>6, <1>7, <1>8 DEF Work

\* So does the execution of a replayed job.
LEMMA WorkIInv ==
  ASSUME IInv, NEW j \in jobs, Work(j)
  PROVE  IInv'
<1>1. TypeOK /\ dlq \in Seq(Record) /\ Len(dlq) \in Nat
  BY DEF IInv, TypeOK
<1>2. /\ dlq' = dlq \/ \E r \in Record : dlq' = Append(dlq, r)
      /\ jobs' = jobs \/ (j.attempt < MaxRetries /\ jobs' = jobs \cup {[j EXCEPT !.attempt = @ + 1]})
      /\ UNCHANGED <<committed, owner, session, at, passed>>
  BY WorkTopics
<1>3. ASSUME NEW o \in Nat, o < Len(dlq)
      PROVE  /\ Len(dlq) <= Len(dlq') /\ RecordAt(o)' = RecordAt(o)
             /\ Identity(o)' = Identity(o) /\ (Accounted(o) => Accounted(o)')
  BY <1>1, <1>2, <1>3, AccountedStays
<1>4. Len(dlq) <= Len(dlq') /\ Len(dlq') \in Nat
  BY <1>1, <1>2
<1>5. j.source \in Offsets /\ j.identity = Identity(j.source)
  BY DEF IInv, JobInv
<1>6. TypeOK'
  <2>1. dlq' \in Seq(Record)
    BY <1>1, <1>2
  <2>2. traffic' \in [Attempts -> Nat] /\ ended' \in [Attempts -> Nat]
    <3>1. traffic \in [Attempts -> Nat] /\ ended \in [Attempts -> Nat]
      BY <1>1 DEF TypeOK
    <3>2. /\ traffic' = traffic \/ traffic' = [traffic EXCEPT ![<<j.source, j.attempt>>] = @ + 1]
          /\ ended' = ended \/ ended' = [ended EXCEPT ![<<j.source, j.attempt>>] = @ + 1]
      BY DEF Work, Reject, Claim, Settle, Lost, Forgotten, End, workers
    <3> QED BY <3>1, <3>2, CountUp
  <2>3. jobs' \subseteq [source: Nat, identity: Seq(Nat), scenario: STRING, plan: Nat,
                       attempt: 0 .. MaxRetries]
    <3> DEFINE J == [source: Nat, identity: Seq(Nat), scenario: STRING, plan: Nat,
                     attempt: 0 .. MaxRetries]
    <3>1. j \in J /\ jobs \subseteq J /\ MaxRetries \in Nat
      BY <1>1, ReplayAssumption DEF TypeOK
    <3>2. j.attempt < MaxRetries => j.attempt + 1 \in 0 .. MaxRetries
      BY <3>1
    <3>3. j.attempt < MaxRetries => [j EXCEPT !.attempt = @ + 1] \in J
      BY <3>1, <3>2
    <3> QED BY <1>2, <3>1, <3>3
  <2> QED BY <1>1, <1>2, <2>1, <2>2, <2>3 DEF TypeOK
<1>7. LogInv'
  BY <1>1, <1>2, <1>3, <1>4 DEF IInv, LogInv, CommittedIsAccounted, TypeOK
<1>8. HandInv'
  <2> SUFFICES ASSUME NEW u \in Tools, session[u].pc \in {"Publish", "Commit"}
               PROVE  /\ ~session[u].mode.dry_run /\ at[u] < Len(dlq')
                      /\ session[u].pc = "Publish" => Known(RecordAt(at[u])', "failed")
                      /\ session[u].pc = "Commit" => Accounted(at[u])'
    BY <1>2 DEF HandInv
  <2>1. PICK b \in Nat : b = at[u]
    BY <1>1 DEF TypeOK
  <2>2. /\ ~session[u].mode.dry_run /\ b < Len(dlq)
        /\ session[u].pc = "Publish" => Known(RecordAt(b), "failed")
        /\ session[u].pc = "Commit" => Accounted(b)
    BY <2>1 DEF IInv, HandInv
  <2>3. at'[u] = b
    BY <1>2, <2>1
  <2>4. b < Len(dlq') /\ RecordAt(b)' = RecordAt(b) /\ (Accounted(b) => Accounted(b)')
    BY <1>1, <1>3, <1>4, <2>2
  <2>5. RecordAt(at[u])' = RecordAt(b)' /\ (Accounted(at[u])' <=> Accounted(b)')
    BY <2>3 DEF RecordAt, Accounted
  <2> QED BY <2>1, <2>2, <2>4, <2>5
<1>9. OwnerInv'
  BY <1>2 DEF IInv, OwnerInv
<1>10. JobInv'
  <2>1. ASSUME NEW i \in jobs'
        PROVE  \E k \in jobs : i.source = k.source /\ i.identity = k.identity
    <3>1. [j EXCEPT !.attempt = @ + 1].source = j.source
          /\ [j EXCEPT !.attempt = @ + 1].identity = j.identity
      BY <1>1 DEF TypeOK
    <3> QED BY <1>2, <2>1, <3>1
  <2>2. \A o \in Offsets : o \in Nat /\ o < Len(dlq) /\ o \in Offsets'
    BY <1>1, <1>4 DEF Offsets
  <2> QED BY <1>3, <2>1, <2>2 DEF IInv, JobInv
<1>11. ClaimInv'
  <2> SUFFICES ASSUME NEW o \in 0 .. MaxLog, NEW n \in 0 .. MaxRetries,
                      traffic'[<<o, n>>] # 0
               PROVE  /\ o \in Offsets'
                      /\ \/ traffic'[<<o, n>>] <= ended'[<<o, n>>]
                         \/ /\ traffic'[<<o, n>>] = ended'[<<o, n>>] + 1
                            /\ <<Identity(o)', n>> \in Claims'
    BY DEF ClaimInv
  <2>1. o \in Offsets
    BY WorkClaims
  <2>2. o \in Offsets' /\ Identity(o)' = Identity(o)
    BY <1>1, <1>3, <1>4, <2>1 DEF Offsets
  <2> QED BY <2>2, WorkClaims
<1> QED BY <1>6, <1>7, <1>8, <1>9, <1>10, <1>11 DEF IInv

\* The invariant is inductive.
LEMMA StepIInv == IInv /\ [Next]_vars => IInv'
<1> SUFFICES ASSUME IInv, [Next]_vars
             PROVE  IInv'
  OBVIOUS
<1>1. CASE \E t \in Tools : ToolStep(t)
  BY <1>1, ToolIInv
<1>2. CASE \E j \in jobs : Work(j)
  BY <1>2, WorkIInv
<1>3. CASE UNCHANGED vars
  BY <1>3 DEF vars, workers, IInv, TypeOK, LogInv, HandInv, OwnerInv, JobInv,
              ClaimInv, Claims, CommittedIsAccounted, Accounted, RecordAt, Identity, Offsets
<1> QED BY <1>1, <1>2, <1>3 DEF Next

\* So it holds in every reachable state.
LEMMA Invariance == Spec => []IInv
<1> QED BY InitIInv, StepIInv, PTL DEF Spec

\* Every variable keeps its type.
THEOREM TypeCorrect == Spec => []TypeOK
<1>1. IInv => TypeOK
  BY DEF IInv
<1> QED BY <1>1, Invariance, PTL

\* The committed offset of the replay group passes only records that are poison
\* evidence, were filtered out by an executing session, or have their new job in
\* the jobs topic: for every mix of sessions, modes, crashes and rebalances.
THEOREM CommittedAccounted == Spec => []CommittedIsAccounted
<1>1. IInv => CommittedIsAccounted
  BY DEF IInv, LogInv
<1> QED BY <1>1, Invariance, PTL

\* However often a record is replayed, the workers execute an attempt of it a
\* second time only after a claim of that attempt has ended.
THEOREM OneExecution == Spec => []OneExecutionPerClaim
<1>1. IInv => OneExecutionPerClaim
  <2> SUFFICES ASSUME IInv, NEW o \in 0 .. MaxLog, NEW n \in 0 .. MaxRetries
               PROVE  traffic[<<o, n>>] <= 1 + ended[<<o, n>>]
    BY DEF OneExecutionPerClaim, Attempts
  <2>1. traffic[<<o, n>>] \in Nat /\ ended[<<o, n>>] \in Nat
    BY DEF IInv, TypeOK, Attempts
  <2>2. traffic[<<o, n>>] # 0 => traffic[<<o, n>>] <= ended[<<o, n>>]
                                 \/ traffic[<<o, n>>] = ended[<<o, n>>] + 1
    BY DEF IInv, ClaimInv
  <2> QED BY <2>1, <2>2
<1> QED BY <1>1, Invariance, PTL

\* The committed offset never moves back.
THEOREM OffsetsAdvance == Spec => OffsetsOnlyAdvance
<1>1. IInv /\ [Next]_vars => [committed' >= committed]_committed
  <2> SUFFICES ASSUME IInv, Next
               PROVE  committed' >= committed
    BY DEF IInv, vars
  <2>1. committed \in Nat
    BY DEF IInv, TypeOK
  <2>2. CASE committed' = committed
    BY <2>1, <2>2
  <2>3. ASSUME NEW t \in Tools, owner = t, committed' = at[t] + 1
        PROVE  committed' >= committed
    BY <2>1, <2>3 DEF IInv, OwnerInv, TypeOK
  <2> QED BY <2>2, <2>3 DEF Next, ToolStep, Start, Assign, Revoked, LimitReached,
             Interrupted, Recv, Publish, Commit, CommitFails, Work
<1> QED BY <1>1, Invariance, PTL DEF Spec, OffsetsOnlyAdvance
=============================================================================
