-------------------------- MODULE LatencyHistogram --------------------------
(***************************************************************************)
(* The latency measurements of one slice: recorded in an HDR histogram of  *)
(* three significant digits, and read back as the fixed buckets of the     *)
(* result contract.  A histogram is a function from the slots in use to    *)
(* their counts; a slot is named by its lowest latency in ms.              *)
(***************************************************************************)
EXTENDS Integers, FiniteSets, FiniteSetsExt

LATENCY_BUCKET_BOUNDS_MS ==
  {1, 2, 5, 10, 25, 50, 100, 250, 500, 1000, 2500, 5000, 10000, 30000,
   60000, 120000}

MaxTracked == 120000
Overflow == MaxTracked + 1   \* stands for every latency above the last bound

EmptyHistogram == [v \in {} |-> 0]

\* Latencies from 1024 * w on share a slot with their neighbours of width w.
Width(v) ==
  IF v < 2048 THEN 1
  ELSE CHOOSE w \in {2, 4, 8, 16, 32, 64} : 1024 * w <= v /\ v < 2048 * w

Slot(v) == v - (v % Width(v))

\* A latency below 1 ms counts as 1 ms, one above two minutes as overflow.
SlotOfDuration(ms) ==
  IF ms > MaxTracked THEN Overflow ELSE Slot(IF ms < 1 THEN 1 ELSE ms)

record(h, duration) ==
  LET slot == SlotOfDuration(duration)
  IN [v \in DOMAIN h \cup {slot} |->
        (IF v \in DOMAIN h THEN h[v] ELSE 0) + (IF v = slot THEN 1 ELSE 0)]

\* hdrhistogram counts every slot that the closed interval touches.
SlotsBetween(low, high) == Slot(low) .. Slot(high)

count_between(h, slots) ==
  MapThenSumSet(LAMBDA v : h[v], DOMAIN h \cap slots)

\* The slots that make up the bucket with upper bound b.
BucketSlots ==
  LET below(b) == {c \in LATENCY_BUCKET_BOUNDS_MS : c < b}
      lower(b) == IF below(b) = {} THEN 1 ELSE Max(below(b)) + 1
  IN [b \in LATENCY_BUCKET_BOUNDS_MS |-> SlotsBetween(lower(b), b)]

\* The bucket counts of a result, by upper bound.
mergeable_latency_buckets(h) ==
  [b \in LATENCY_BUCKET_BOUNDS_MS \cup {Overflow} |->
     count_between(h, IF b = Overflow THEN {Overflow} ELSE BucketSlots[b])]
=============================================================================
