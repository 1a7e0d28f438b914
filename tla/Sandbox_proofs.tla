----------------------------- MODULE Sandbox_proofs -----------------------------
(***************************************************************************)
(* Proofs about Sandbox for every retention limit, read size, pipe and      *)
(* amount of output.                                                       *)
(***************************************************************************)
EXTENDS Sandbox, SequenceTheorems, TLAPS

-----------------------------------------------------------------------------
(* Runs of output bytes. *)

\* A run has its length, and its bytes are numbered from its first.
LEMMA BytesRun ==
  ASSUME NEW a \in Nat \ {0}, NEW b \in Nat, a <= b + 1
  PROVE  /\ Bytes(a, b) \in Seq(Nat) /\ Len(Bytes(a, b)) = b - a + 1
         /\ \A i \in 1..(b - a + 1) : Bytes(a, b)[i] = a + i - 1
<1>1. b - a + 1 \in Nat
  OBVIOUS
<1>2. Bytes(a, b) \in [1..(b - a + 1) -> Nat]
  BY DEF Bytes
<1> QED
  BY <1>1, <1>2 DEF Bytes

\* Two runs that meet are one.
LEMMA BytesJoin ==
  ASSUME NEW a \in Nat \ {0}, NEW b \in Nat, NEW c \in Nat, a <= b + 1, b <= c
  PROVE  Bytes(a, b) \o Bytes(b + 1, c) = Bytes(a, c)
<1> DEFINE s == Bytes(a, b)
           t == Bytes(b + 1, c)
           u == Bytes(a, c)
           w == s \o t
<1>1. s \in Seq(Nat) /\ Len(s) = b - a + 1 /\ \A i \in 1..(b - a + 1) : s[i] = a + i - 1
  BY BytesRun
<1>2. t \in Seq(Nat) /\ Len(t) = c - b /\ \A i \in 1..(c - b) : t[i] = b + i
  <2>1. c - (b + 1) + 1 = c - b /\ \A i \in 1..(c - b) : (b + 1) + i - 1 = b + i
    OBVIOUS
  <2> QED
    BY <2>1, BytesRun, b + 1 \in Nat \ {0}, b + 1 <= c + 1
<1>3. u \in Seq(Nat) /\ Len(u) = c - a + 1 /\ \A i \in 1..(c - a + 1) : u[i] = a + i - 1
  BY BytesRun
<1>4. /\ w \in Seq(Nat) /\ Len(w) = Len(s) + Len(t)
      /\ \A i \in 1..(Len(s) + Len(t)) :
           w[i] = IF i <= Len(s) THEN s[i] ELSE t[i - Len(s)]
  <2> HIDE DEF s, t
  <2> QED
    BY <1>1, <1>2, ConcatProperties
<1> HIDE DEF s, t, u, w
<1>5. Len(w) = Len(u)
  BY <1>1, <1>2, <1>3, <1>4
<1>6. ASSUME NEW i \in 1..Len(u)
      PROVE  w[i] = u[i]
  <2>1. i \in Nat /\ 1 <= i /\ i <= c - a + 1 /\ u[i] = a + i - 1
    BY <1>3
  <2>2. CASE i <= b - a + 1
    <3>1. w[i] = s[i]
      BY <1>1, <1>2, <1>4, <2>1, <2>2
    <3> QED
      BY <1>1, <2>1, <2>2, <3>1
  <2>3. CASE ~(i <= b - a + 1)
    <3>1. i - (b - a + 1) \in 1..(c - b)
      BY <2>1, <2>3
    <3>2. w[i] = t[i - (b - a + 1)]
      BY <1>1, <1>2, <1>4, <2>1, <2>3
    <3>3. t[i - (b - a + 1)] = b + (i - (b - a + 1))
      BY <1>2, <3>1
    <3> QED
      BY <2>1, <3>2, <3>3
  <2> QED
    BY <2>2, <2>3
<1>7. w = u
  BY <1>3, <1>4, <1>5, <1>6, SeqEqual
<1> QED
  BY <1>7 DEF s, t, u, w

\* Names the provers do not take apart.
Slice(s, m, n) == SubSeq(s, m, n)
Join(s, u)     == s \o u

\* A part of a run is a run.
LEMMA RunSlice ==
  \A a, b, m, n \in Nat :
    1 <= a /\ a <= b + 1 /\ 1 <= m /\ m <= n + 1 /\ n <= b - a + 1 =>
      Slice(Bytes(a, b), m, n) = Bytes(a + m - 1, a + n - 1)
<1> SUFFICES ASSUME NEW a \in Nat, NEW b \in Nat, NEW m \in Nat, NEW n \in Nat,
                    1 <= a, a <= b + 1, 1 <= m, m <= n + 1, n <= b - a + 1
             PROVE  Slice(Bytes(a, b), m, n) = Bytes(a + m - 1, a + n - 1)
  OBVIOUS
<1> DEFINE s == Bytes(a, b)
           u == Bytes(a + m - 1, a + n - 1)
           p == SubSeq(s, m, n)
<1>1. s \in Seq(Nat) /\ Len(s) = b - a + 1 /\ \A i \in 1..(b - a + 1) : s[i] = a + i - 1
  BY a \in Nat \ {0}, BytesRun
<1>2. u \in Seq(Nat) /\ Len(u) = n - m + 1 /\ \A i \in 1..(n - m + 1) : u[i] = a + m + i - 2
  <2>1. /\ a + m - 1 \in Nat \ {0} /\ a + n - 1 \in Nat
        /\ a + m - 1 <= (a + n - 1) + 1
        /\ (a + n - 1) - (a + m - 1) + 1 = n - m + 1
        /\ \A i \in 1..(n - m + 1) : (a + m - 1) + i - 1 = a + m + i - 2
    OBVIOUS
  <2> QED
    BY <2>1, BytesRun
<1>3. p \in Seq(Nat) /\ Len(p) = n - m + 1 /\ \A i \in 1..(n - m + 1) : p[i] = s[m + i - 1]
  <2> HIDE DEF s
  <2>1. n <= Len(s)
    BY <1>1
  <2> QED
    BY <1>1, <2>1
<1> HIDE DEF s, u, p
<1>4. ASSUME NEW i \in 1..Len(u)
      PROVE  p[i] = u[i]
  BY <1>1, <1>2, <1>3
<1>5. p = u
  BY <1>2, <1>3, <1>4, SeqEqual
<1> QED
  BY <1>5 DEF s, u, p, Slice

-----------------------------------------------------------------------------
(* What the drain holds after so many bytes. *)

\* The first byte of the tail.
TailFrom(t) ==
  IF t <= HeadLimit THEN t + 1 ELSE IF t <= Limit THEN HeadLimit + 1 ELSE t - TailLimit + 1

Retained(t) ==
  /\ head = Bytes(1, Least2(HeadLimit, t))
  /\ tail = Bytes(TailFrom(t), t)
  /\ discarded = Minus(t, Limit)

\* The two limits share the retention limit, and the tail is not empty.
LEMMA Limits ==
  /\ Limit \in Nat \ {0} /\ Chunk \in Nat \ {0} /\ MaxOutput \in Nat
  /\ HeadLimit \in Nat /\ TailLimit \in Nat \ {0} /\ HeadLimit + TailLimit = Limit
<1>1. Limit \in Nat \ {0} /\ Chunk \in Nat \ {0} /\ MaxOutput \in Nat
  BY SandboxAssumption
<1>2. Limit \div 2 \in Nat /\ Limit \div 2 < Limit
  BY <1>1, Z3
<1> QED
  BY <1>1, <1>2 DEF HeadLimit, TailLimit

\* The run behind any byte is empty.
LEMMA NoBytes ==
  ASSUME NEW t \in Nat
  PROVE  Bytes(t + 1, t) = << >>
BY BytesRun, EmptySeq

\* A chunk falls into two runs.
LEMMA ChunkParts ==
  ASSUME NEW t \in Nat, NEW k \in Nat, NEW m \in Nat, m <= k
  PROVE  /\ SubSeq(Bytes(t + 1, t + k), 1, m) = Bytes(t + 1, t + m)
         /\ SubSeq(Bytes(t + 1, t + k), m + 1, k) = Bytes(t + m + 1, t + k)
<1>1. Slice(Bytes(t + 1, t + k), 1, m) = Bytes(t + 1 + 1 - 1, t + 1 + m - 1)
  BY RunSlice
<1>2. Slice(Bytes(t + 1, t + k), m + 1, k) = Bytes(t + 1 + (m + 1) - 1, t + 1 + k - 1)
  BY RunSlice
<1>3. /\ t + 1 + 1 - 1 = t + 1 /\ t + 1 + m - 1 = t + m
      /\ t + 1 + (m + 1) - 1 = t + m + 1 /\ t + 1 + k - 1 = t + k
  OBVIOUS
<1> QED
  BY <1>1, <1>2, <1>3 DEF Slice

\* BytesJoin in terms of Join.
LEMMA RunJoin ==
  \A a, b, c \in Nat :
    1 <= a /\ a <= b + 1 /\ b <= c => Join(Bytes(a, b), Bytes(b + 1, c)) = Bytes(a, c)
<1> SUFFICES ASSUME NEW a \in Nat, NEW b \in Nat, NEW c \in Nat, 1 <= a, a <= b + 1, b <= c
             PROVE  Join(Bytes(a, b), Bytes(b + 1, c)) = Bytes(a, c)
  OBVIOUS
<1> QED
  BY a \in Nat \ {0}, BytesJoin DEF Join

\* The length of a run.
LEMMA RunLen ==
  \A a, b \in Nat : 1 <= a /\ a <= b + 1 => Len(Bytes(a, b)) = b - a + 1
<1> SUFFICES ASSUME NEW a \in Nat, NEW b \in Nat, 1 <= a, a <= b + 1
             PROVE  Len(Bytes(a, b)) = b - a + 1
  OBVIOUS
<1> QED
  BY a \in Nat \ {0}, BytesRun

\* Joining an empty run changes nothing.
LEMMA EmptyRun ==
  \A a, b, t \in Nat :
    1 <= a /\ a <= b + 1 => /\ Join(Bytes(a, b), Bytes(t + 1, t)) = Bytes(a, b)
                            /\ Join(Bytes(t + 1, t), Bytes(a, b)) = Bytes(a, b)
<1> SUFFICES ASSUME NEW a \in Nat, NEW b \in Nat, NEW t \in Nat, 1 <= a, a <= b + 1
             PROVE  /\ Join(Bytes(a, b), Bytes(t + 1, t)) = Bytes(a, b)
                    /\ Join(Bytes(t + 1, t), Bytes(a, b)) = Bytes(a, b)
  OBVIOUS
<1>1. Bytes(t + 1, t) = << >>
  BY NoBytes
<1>2. Bytes(a, b) \in Seq(Nat)
  BY a \in Nat \ {0}, BytesRun
<1> QED
  BY <1>1, <1>2, ConcatEmptySeq DEF Join

\* What is kept of a tail and what follows it, both of them runs.
LEMMA KeptRuns ==
  ASSUME NEW a \in Nat, NEW t \in Nat, NEW b \in Nat, NEW c \in Nat,
         1 <= a, a <= t + 1, t - a + 1 <= TailLimit, t <= b, b <= c, b = t \/ a = t + 1,
         NEW from \in Nat,
         from = IF c - b >= TailLimit THEN c - TailLimit + 1
                ELSE IF b # t THEN b + 1
                ELSE a + Minus((t - a + 1) + (c - b), TailLimit)
  PROVE  Kept(Bytes(a, t), Bytes(b + 1, c)) = Bytes(from, c)
<1> DEFINE old == Bytes(a, t)
           rest == Bytes(b + 1, c)
           T == TailLimit
           excess == Minus((t - a + 1) + (c - b), T)
<1>0. T \in Nat \ {0}
  BY Limits
<1>1. Len(old) = t - a + 1 /\ Len(rest) = c - b
  <2>1. Len(Bytes(a, t)) = t - a + 1
    BY RunLen
  <2>2. Len(Bytes(b + 1, c)) = c - (b + 1) + 1
    BY b + 1 \in Nat \ {0}, b + 1 <= c + 1, BytesRun
  <2>3. c - (b + 1) + 1 = c - b
    OBVIOUS
  <2> QED
    BY <2>1, <2>2, <2>3
<1> HIDE DEF T
<1>2. CASE c - b >= T
  <2>1. Slice(rest, c - b - T + 1, c - b) = Bytes(b + 1 + (c - b - T + 1) - 1, b + 1 + (c - b) - 1)
    BY <1>0, <1>2, RunSlice
  <2>2. b + 1 + (c - b - T + 1) - 1 = c - T + 1 /\ b + 1 + (c - b) - 1 = c
    BY <1>0
  <2>3. Kept(old, rest) = Slice(rest, c - b - T + 1, c - b)
    BY <1>1, <1>2 DEF Kept, Slice, T
  <2> QED
    BY <1>2, <2>1, <2>2, <2>3 DEF T
<1>3. CASE ~(c - b >= T)
  <2>0. excess \in Nat /\ excess <= t - a + 1
    BY <1>0, <1>3 DEF Minus, T
  <2>1. Kept(old, rest) = Join(Slice(old, excess + 1, t - a + 1), rest)
    BY <1>1, <1>3 DEF Kept, Slice, Join, T
  <2>2. Slice(old, excess + 1, t - a + 1) = Bytes(a + (excess + 1) - 1, a + (t - a + 1) - 1)
    <3> HIDE DEF excess
    <3> QED
      BY <2>0, RunSlice
  <2>3. a + (excess + 1) - 1 = a + excess /\ a + (t - a + 1) - 1 = t
    <3> HIDE DEF excess
    <3> QED
      BY <2>0
  <2>4. CASE b = t
    <3>1. Join(Bytes(a + excess, t), Bytes(t + 1, c)) = Bytes(a + excess, c)
      <4> HIDE DEF excess
      <4> QED
        BY <2>0, <2>4, RunJoin
    <3>2. from = a + excess
      BY <1>3, <2>4 DEF T
    <3> QED
      BY <2>1, <2>2, <2>3, <2>4, <3>1, <3>2
  <2>5. CASE b # t
    <3>1. a = t + 1 /\ excess = 0
      BY <1>0, <1>3, <2>5 DEF Minus, T
    <3>2. Join(Bytes(t + 1, t), Bytes(b + 1, c)) = Bytes(b + 1, c)
      BY EmptyRun
    <3>3. from = b + 1
      BY <1>3, <2>5 DEF T
    <3>4. a + excess = t + 1
      BY <3>1
    <3> QED
      BY <2>1, <2>2, <2>3, <3>2, <3>3, <3>4
  <2> QED
    BY <2>4, <2>5
<1> QED
  BY <1>2, <1>3

\* The part of a read that goes to the head, and the rest of it.
Share(k)   == Least2(Minus(HeadLimit, Len(head)), k)
Rest(t, k) == SubSeq(Bytes(t + 1, t + k), Share(k) + 1, k)

\* One read, whatever its size, keeps what is to be kept.
LEMMA ReadRetains ==
  ASSUME NEW t \in Nat, NEW k \in Nat \ {0}, Retained(t)
  PROVE  /\ head \o SubSeq(Bytes(t + 1, t + k), 1, Share(k)) = Bytes(1, Least2(HeadLimit, t + k))
         /\ Kept(tail, Rest(t, k)) = Bytes(TailFrom(t + k), t + k)
         /\ discarded + Minus(Len(tail) + Len(Rest(t, k)), TailLimit) = Minus(t + k, Limit)
<1> DEFINE H == HeadLimit
           T == TailLimit
           keep == Share(k)
           rest == Rest(t, k)
           h == head \o SubSeq(Bytes(t + 1, t + k), 1, keep)
           l == Kept(tail, rest)
           d == discarded + Minus(Len(tail) + Len(rest), T)
<1>0. H \in Nat /\ T \in Nat \ {0} /\ H + T = Limit /\ Limit \in Nat
  BY Limits
<1>1. /\ h = head \o SubSeq(Bytes(t + 1, t + k), 1, keep)
      /\ l = Kept(tail, rest)
      /\ d = discarded + Minus(Len(tail) + Len(rest), T)
  OBVIOUS
<1> HIDE DEF h, l, d, H, T
<1>2. Len(head) = Least2(H, t) /\ Least2(H, t) \in Nat
  <2>1. Least2(H, t) \in Nat
    BY <1>0 DEF Least2
  <2>2. Len(Bytes(1, Least2(H, t))) = Least2(H, t) - 1 + 1
    BY <2>1, 1 \in Nat \ {0}, 1 <= Least2(H, t) + 1, BytesRun
  <2> QED
    BY <2>1, <2>2 DEF Retained, H
<1>3. keep = IF t >= H THEN 0 ELSE IF t + k <= H THEN k ELSE H - t
  BY <1>0, <1>2 DEF Least2, Minus, Share, H
<1> HIDE DEF keep
<1>4. keep \in Nat /\ keep <= k
  BY <1>0, <1>3
<1>5. /\ SubSeq(Bytes(t + 1, t + k), 1, keep) = Bytes(t + 1, t + keep)
      /\ rest = Bytes(t + keep + 1, t + k)
  BY <1>4, ChunkParts DEF Rest, keep
<1> HIDE DEF rest
<1>6. h = Bytes(1, Least2(H, t + k))
  <2>1. h = Join(Bytes(1, Least2(H, t)), Bytes(t + 1, t + keep))
    BY <1>1, <1>5 DEF Retained, Join, H
  <2>2. CASE t >= H
    <3>1. keep = 0 /\ t + keep = t /\ Least2(H, t) = H /\ Least2(H, t + k) = H
      BY <1>0, <1>3, <2>2 DEF Least2
    <3>2. Join(Bytes(1, H), Bytes(t + 1, t)) = Bytes(1, H)
      BY <1>0, EmptyRun
    <3> QED
      BY <2>1, <3>1, <3>2
  <2>3. CASE ~(t >= H)
    <3>1. Least2(H, t) = t /\ Least2(H, t + k) = t + keep
      BY <1>0, <1>3, <2>3 DEF Least2
    <3>2. Join(Bytes(1, t), Bytes(t + 1, t + keep)) = Bytes(1, t + keep)
      BY <1>4, RunJoin
    <3> QED
      BY <2>1, <3>1, <3>2
  <2> QED
    BY <2>2, <2>3
<1>7. PICK a \in Nat : a = TailFrom(t)
  <2>1. TailFrom(t) \in Nat
    BY <1>0 DEF TailFrom, H, T
  <2> QED
    BY <2>1
<1>8. 1 <= a /\ a <= t + 1 /\ t - a + 1 <= T
  BY <1>0, <1>7 DEF TailFrom, H, T
<1>9. l = Bytes(TailFrom(t + k), t + k)
  <2>1. PICK from \in Nat : from = TailFrom(t + k)
    <3>1. TailFrom(t + k) \in Nat
      BY <1>0 DEF TailFrom, H, T
    <3> QED
      BY <3>1
  <2>2. t + keep \in Nat /\ t <= t + keep /\ t + keep <= t + k /\ t + k \in Nat
    BY <1>4
  <2>3. t + keep = t \/ a = t + 1
    BY <1>0, <1>3, <1>7 DEF TailFrom, H
  <2>4. from = IF (t + k) - (t + keep) >= TailLimit THEN (t + k) - TailLimit + 1
               ELSE IF t + keep # t THEN t + keep + 1
               ELSE a + Minus((t - a + 1) + ((t + k) - (t + keep)), TailLimit)
    BY <1>0, <1>3, <1>7, <2>1 DEF TailFrom, Minus, H, T
  <2>5. Kept(Bytes(a, t), Bytes(t + keep + 1, t + k)) = Bytes(from, t + k)
    BY <1>8, <2>2, <2>3, <2>4, KeptRuns DEF T
  <2> QED
    BY <1>1, <1>5, <1>7, <2>1, <2>5 DEF Retained
<1>10. d = Minus(t + k, Limit)
  <2>1. Len(tail) = t - a + 1
    BY <1>7, <1>8, RunLen DEF Retained
  <2>2. Len(rest) = k - keep
    <3>1. Len(Bytes(t + keep + 1, t + k)) = (t + k) - (t + keep + 1) + 1
      BY <1>4, t + keep + 1 \in Nat \ {0}, t + k \in Nat, t + keep + 1 <= t + k + 1, BytesRun
    <3>2. (t + k) - (t + keep + 1) + 1 = k - keep
      BY <1>4
    <3> QED
      BY <1>5, <3>1, <3>2
  <2>3. d = Minus(t, Limit) + Minus((t - a + 1) + (k - keep), T)
    BY <1>1, <2>1, <2>2 DEF Retained
  <2>4. Minus(t, Limit) + Minus((t - a + 1) + (k - keep), T) = Minus(t + k, Limit)
    <3>1. CASE t <= H
      <4>1. a = t + 1
        BY <1>7, <3>1 DEF TailFrom, H
      <4> QED
        BY <1>0, <1>3, <1>4, <3>1, <4>1 DEF Minus
    <3>2. CASE H < t /\ t <= Limit
      <4>1. a = H + 1 /\ keep = 0
        BY <1>0, <1>3, <1>7, <3>2 DEF TailFrom, H
      <4> QED
        BY <1>0, <3>2, <4>1 DEF Minus
    <3>3. CASE Limit < t
      <4>1. a = t - T + 1 /\ keep = 0
        BY <1>0, <1>3, <1>7, <3>3 DEF TailFrom, H, T
      <4> QED
        BY <1>0, <3>3, <4>1 DEF Minus
    <3> QED
      BY <1>0, <3>1, <3>2, <3>3
  <2> QED
    BY <2>3, <2>4
<1> QED
  BY <1>6, <1>9, <1>10 DEF H, T, h, l, d, keep, rest

-----------------------------------------------------------------------------
(* The inductive invariant. *)

Typed ==
  /\ pc \in {"spawn", "wait", "kill", "cleanup", "status", "drain", "decide", "done"}
  /\ stage \in Stages
  /\ box \in [Stages -> {"none", "running", "exited", "removed"}]
  /\ client \in {"none", "running", "dying", "gone"}
  /\ code \in {"success", "failure", None}
  /\ lost \in BOOLEAN /\ held \in BOOLEAN /\ ample \in BOOLEAN /\ elapsed \in BOOLEAN
  /\ timed_out \in BOOLEAN /\ cleanup_error \in BOOLEAN
  /\ wanted \in Nat /\ written \in Nat /\ taken \in Nat
  /\ taken <= written /\ written <= wanted /\ wanted <= MaxOutput
  /\ drain \in {"reading", "sent", "failed"}

\* Where the parent is, and what it has done to the client by then.
Places ==
  /\ pc = "spawn" => client = "none"
  /\ client = "none" => drain = "reading"
  /\ pc \in {"spawn", "wait", "kill"} => ~timed_out
  /\ pc = "cleanup" => timed_out
  /\ timed_out => client \in {"dying", "gone"}
  /\ client = "dying" => timed_out
  /\ pc \in {"drain", "decide"} => client = "gone"
  /\ pc = "decide" => drain = "sent"

\* What the end of a client says of its container.
Ends ==
  /\ client = "gone" /\ ~lost /\ ~timed_out => box[stage] = "exited"
  /\ code = "success" => box[stage] \in {"exited", "removed"}
  /\ box[stage] = "removed" => timed_out
  /\ box[stage] = "none" => written = 0
  /\ pc \in {"status", "drain", "decide", "done"} /\ timed_out /\ ~cleanup_error =>
       box[stage] \in {"none", "removed"}
  /\ stage = "test" => box["prepare"] \in {"none", "exited"}
  /\ stage = "prepare" => box["test"] = "none"

\* The thread hands over what it holds when nothing can follow.
Drained ==
  /\ Retained(taken)
  /\ drain = "sent" => taken = written /\ client = "gone"

\* Nothing a result was made of changes behind it.
Answered ==
  pc = "done" /\ answer # Error =>
    /\ answer = Outcome
    /\ stage = "test" /\ client = "gone" /\ drain = "sent" /\ ~cleanup_error

IInv == Typed /\ Places /\ Ends /\ Drained /\ Answered

\* Before anything is read, nothing is what is to be kept.
LEMMA RetainedNothing ==
  /\ Bytes(1, Least2(HeadLimit, 0)) = << >>
  /\ Bytes(TailFrom(0), 0) = << >>
  /\ Minus(0, Limit) = 0
<1>1. Least2(HeadLimit, 0) = 0 /\ TailFrom(0) = 0 + 1 /\ Minus(0, Limit) = 0
  BY Limits DEF Least2, TailFrom, Minus
<1>2. Bytes(0 + 1, 0) = << >>
  BY NoBytes
<1>3. 0 + 1 = 1
  OBVIOUS
<1> QED
  BY <1>1, <1>2, <1>3

\* Every execution begins in the invariant.
LEMMA InitIInv == Init => IInv
<1> SUFFICES ASSUME Init PROVE IInv
  OBVIOUS
<1>1. MaxOutput \in Nat
  BY SandboxAssumption
<1>2. Typed
  <2>1. box \in [Stages -> {"none", "running", "exited", "removed"}]
    BY DEF Init
  <2>2. stage \in Stages /\ ample \in BOOLEAN
    BY DEF Init
  <2>3. lost \in BOOLEAN /\ held \in BOOLEAN /\ elapsed \in BOOLEAN
        /\ timed_out \in BOOLEAN /\ cleanup_error \in BOOLEAN
    BY Zenon DEF Init
  <2>4. pc = "spawn" /\ client = "none" /\ code = None /\ drain = "reading"
    BY DEF Init, NoOutput
  <2>5. wanted = 0 /\ written = 0 /\ taken = 0
    BY DEF Init, NoOutput
  <2> QED
    BY <1>1, <2>1, <2>2, <2>3, <2>4, <2>5 DEF Typed
<1>3. Places /\ Ends /\ Answered
  BY DEF Init, NoOutput, Places, Ends, Answered, Stages, None
<1>4. Drained
  BY RetainedNothing DEF Init, NoOutput, Drained, Retained
<1> QED
  BY <1>2, <1>3, <1>4 DEF IInv

\* Control of the parent, the client and the container: one step per action.
LEMMA ControlStep ==
  ASSUME Typed, Places, Ends, Next
  PROVE  Typed' /\ Places' /\ Ends'
<1> USE DEF Typed, Places, Ends, Stages, None, world, reader, parent, Outside, Then, Return
<1>0. MaxOutput \in Nat /\ Chunk \in Nat
  BY SandboxAssumption
<1>1. CASE Spawn
  BY <1>1 DEF Spawn
<1>2. CASE PollExited
  BY <1>2 DEF PollExited
<1>3. CASE PollLate
  BY <1>3 DEF PollLate
<1>4. CASE Kill
  BY <1>4 DEF Kill
<1>5. CASE Cleanup
  BY <1>5 DEF Cleanup
<1>6. CASE Status
  BY <1>6 DEF Status
<1>7. CASE Receive
  BY <1>7 DEF Receive
<1>8. CASE Decide
  <2>1. CASE NextStage /\ Prepared /\ stage = "prepare"
    <3>1. code = "success" /\ ~timed_out /\ stage = "prepare"
      BY <2>1 DEF Prepared
    <3>2. /\ stage' = "test" /\ pc' = "spawn" /\ client' = "none" /\ code' = None
          /\ wanted' = 0 /\ written' = 0 /\ taken' = 0 /\ drain' = "reading"
          /\ UNCHANGED <<box, timed_out, cleanup_error, answer, ample>>
      BY <2>1 DEF NextStage
    <3>3. lost' \in BOOLEAN /\ held' \in BOOLEAN /\ elapsed' \in BOOLEAN
      BY <2>1, Zenon DEF NextStage
    <3>4. Typed'
      BY <1>0, <3>2, <3>3
    <3>5. Places' /\ Ends'
      BY <3>1, <3>2
    <3> QED
      BY <3>4, <3>5
  <2>2. CASE pc' = "done" /\ UNCHANGED <<world, reader, stage, timed_out, cleanup_error, ample, elapsed>>
    BY <1>8, <2>2 DEF Decide
  <2> QED
    <3>1. \/ NextStage /\ Prepared /\ stage = "prepare"
          \/ \E a \in {Error, Outcome} : Return(a) /\ UNCHANGED <<world, reader, ample, elapsed>>
      BY <1>8, Zenon DEF Decide
    <3> QED
      BY <2>1, <2>2, <3>1
<1>9. CASE Deadline
  BY <1>9 DEF Deadline
<1>10. CASE Start
  BY <1>0, <1>10 DEF Start
<1>11. CASE Write
  BY <1>11 DEF Write
<1>12. CASE ContainerExits
  BY <1>12 DEF ContainerExits
<1>13. CASE ClientExits
  BY <1>13 DEF ClientExits
<1>14. CASE KillTakesEffect
  BY <1>14 DEF KillTakesEffect
<1>15. CASE Read
  <2>1. PICK k \in 1..Chunk : taken' = taken + k /\ taken + k <= written
    BY <1>15 DEF Read, MayRead
  <2>2. UNCHANGED <<pc, world, drain, parent, ample, elapsed>>
    BY <1>15 DEF Read
  <2> QED
    BY <1>0, <2>1, <2>2
<1>16. CASE EndOfStream
  BY <1>16 DEF EndOfStream
<1>17. CASE PollFails
  BY <1>17 DEF PollFails
<1>18. CASE ReceiveFails
  BY <1>18 DEF ReceiveFails
<1>19. CASE ReadFails
  BY <1>19 DEF ReadFails
<1>20. CASE ClientDies
  BY <1>20 DEF ClientDies
<1> QED
  BY <1>1, <1>2, <1>3, <1>4, <1>5, <1>6, <1>7, <1>8, <1>9, <1>10, <1>11, <1>12, <1>13,
     <1>14, <1>15, <1>16, <1>17, <1>18, <1>19, <1>20 DEF Next, Parent, World, Faults

\* What the thread holds, through its own reads and everyone else's steps.
LEMMA DrainedStep ==
  ASSUME Typed, Places, Drained, Next
  PROVE  Drained'
<1> USE DEF Drained, world, reader, parent
<1>1. CASE Read
  <2>1. PICK k \in 1..Chunk :
          /\ head' = head \o SubSeq(Bytes(taken + 1, taken + k), 1, Share(k))
          /\ tail' = Kept(tail, Rest(taken, k))
          /\ discarded' = discarded + Minus(Len(tail) + Len(Rest(taken, k)), TailLimit)
          /\ taken' = taken + k
    BY <1>1 DEF Read, Share, Rest
  <2>2. taken \in Nat /\ k \in Nat \ {0} /\ Retained(taken)
    BY Limits DEF Typed
  <2>3. /\ head' = Bytes(1, Least2(HeadLimit, taken + k))
        /\ tail' = Bytes(TailFrom(taken + k), taken + k)
        /\ discarded' = Minus(taken + k, Limit)
    BY <2>1, <2>2, ReadRetains, Zenon
  <2>4. drain' = "reading"
    BY <1>1 DEF Read
  <2> QED
    BY <2>1, <2>3, <2>4 DEF Retained, TailFrom
<1>2. CASE NextStage
  BY <1>2, RetainedNothing DEF NextStage, Retained, TailFrom
<1>3. CASE UNCHANGED <<taken, head, tail, discarded>> /\ drain' # "sent"
  BY <1>3 DEF Retained, TailFrom
<1>4. CASE /\ UNCHANGED <<taken, head, tail, discarded, drain>>
           /\ written' = written \/ client = "running"
           /\ client' = client \/ client # "gone"
           /\ client = "gone" => client' = "gone"
  BY <1>4 DEF Retained, TailFrom
<1>5. CASE EndOfStream
  BY <1>5 DEF EndOfStream, Retained, TailFrom
<1>6. CASE UNCHANGED <<taken, head, tail, discarded, drain, written, client>>
  BY <1>6 DEF Retained, TailFrom
<1> USE DEF Outside, Then, Return
<1>7. CASE Spawn
  <2>1. drain' = "reading"
    BY <1>7 DEF Spawn, Places
  <2> QED
    BY <1>3, <1>7, <2>1 DEF Spawn
<1>8. CASE Decide
  <2>1. \/ NextStage
        \/ \E a \in {Error, Outcome} : Return(a) /\ UNCHANGED <<world, reader, ample, elapsed>>
    BY <1>8, Zenon DEF Decide
  <2> QED
    BY <1>2, <1>6, <2>1
<1>9. CASE Kill \/ KillTakesEffect \/ ClientExits \/ ClientDies \/ Write
  BY <1>4, <1>9 DEF Kill, KillTakesEffect, ClientExits, ClientDies, Write
<1>10. CASE PollExited \/ PollLate \/ Cleanup \/ Status \/ Receive \/ Deadline
            \/ Start \/ ContainerExits \/ PollFails \/ ReceiveFails
  BY <1>6, <1>10 DEF PollExited, PollLate, Cleanup, Status, Receive, Deadline, Start,
     ContainerExits, PollFails, ReceiveFails
<1>11. CASE ReadFails
  BY <1>3, <1>11 DEF ReadFails
<1> QED
  BY <1>1, <1>5, <1>7, <1>8, <1>9, <1>10, <1>11 DEF Next, Parent, World, Faults

\* A result is made once, at the end, out of what no longer changes.
LEMMA AnsweredStep ==
  ASSUME Typed, Places, Answered, Next
  PROVE  Answered'
<1> USE DEF Answered, world, reader, parent
<1>1. CASE pc' # "done" \/ answer' = Error
  BY <1>1
<1>2. CASE /\ UNCHANGED <<pc, stage, answer, timed_out, cleanup_error, drain, head, tail, discarded>>
           /\ client = "gone" => client' = "gone" /\ code' = code
  BY <1>2, Zenon DEF Outcome, Result, render
<1> USE DEF Outside, Then, Return
<1>3. CASE Decide
  <2>1. CASE NextStage
    BY <1>1, <2>1 DEF NextStage
  <2>2. CASE Return(Error)
    BY <1>1, <2>2
  <2>3. CASE ~Withheld /\ stage = "test" /\ Return(Outcome) /\ UNCHANGED <<world, reader, ample, elapsed>>
    <3>1. client = "gone" /\ drain = "sent" /\ ~cleanup_error
      BY <1>3, <2>3 DEF Decide, Places, Withheld
    <3>2. Outcome' = Outcome
      BY <2>3 DEF Outcome, Result, render
    <3> QED
      BY <2>3, <3>1, <3>2
  <2> QED
    BY <1>3, <2>1, <2>2, <2>3 DEF Decide, Typed, Stages
<1>4. CASE Spawn
  BY <1>1, <1>4 DEF Spawn
<1>5. CASE PollExited \/ PollLate \/ Kill \/ Cleanup \/ Status \/ Receive \/ PollFails \/ ReceiveFails
  BY <1>1, <1>5 DEF PollExited, PollLate, Kill, Cleanup, Status, Receive, PollFails, ReceiveFails
<1>6. CASE Deadline \/ Start \/ Write \/ ContainerExits \/ ClientExits \/ ClientDies \/ KillTakesEffect
  BY <1>2, <1>6 DEF Deadline, Start, Write, ContainerExits, ClientExits, ClientDies,
     KillTakesEffect
<1>7. CASE Read \/ EndOfStream \/ ReadFails
  <2>1. drain = "reading" /\ UNCHANGED <<pc, answer>>
    BY <1>7 DEF Read, EndOfStream, ReadFails
  <2> QED
    BY <2>1
<1> QED
  BY <1>3, <1>4, <1>5, <1>6, <1>7 DEF Next, Parent, World, Faults

\* Every step, and every stutter, keeps the invariant.
LEMMA NextIInv == IInv /\ [Next]_vars => IInv'
<1> SUFFICES ASSUME IInv, [Next]_vars PROVE IInv'
  OBVIOUS
<1>1. CASE Next
  BY <1>1, ControlStep, DrainedStep, AnsweredStep DEF IInv
<1>2. CASE UNCHANGED vars
  <2>1. Typed' /\ Places' /\ Ends'
    BY <1>2 DEF IInv, vars, world, reader, parent, Typed, Places, Ends
  <2>2. Drained'
    BY <1>2 DEF IInv, vars, world, reader, parent, Drained, Retained, TailFrom
  <2>3. Answered'
    <3>1. UNCHANGED <<pc, stage, client, drain, cleanup_error, answer>>
      BY <1>2 DEF vars, world, reader, parent
    <3>2. Outcome' = Outcome
      BY <1>2 DEF vars, world, reader, parent, Outcome, Result, render
    <3> QED
      BY <3>1, <3>2 DEF IInv, Answered
  <2> QED
    BY <2>1, <2>2, <2>3 DEF IInv
<1> QED
  BY <1>1, <1>2

\* The invariant holds throughout.
LEMMA Invariance == Spec => []IInv
BY InitIInv, NextIInv, PTL DEF Spec

-----------------------------------------------------------------------------
(* What follows from it. *)

\* The two parts of a join.
LEMMA Split ==
  ASSUME NEW s \in Seq(Nat), NEW u \in Seq(Nat)
  PROVE  /\ SubSeq(s \o u, 1, Len(s)) = s
         /\ SubSeq(s \o u, Len(s) + 1, Len(s \o u)) = u
<1> DEFINE w == s \o u
           p == SubSeq(w, 1, Len(s))
           q == SubSeq(w, Len(s) + 1, Len(w))
<1>1. /\ w \in Seq(Nat) /\ Len(w) = Len(s) + Len(u)
      /\ \A i \in 1..(Len(s) + Len(u)) : w[i] = IF i <= Len(s) THEN s[i] ELSE u[i - Len(s)]
  BY ConcatProperties
<1>2. Len(s) \in Nat /\ Len(u) \in Nat
  OBVIOUS
<1> HIDE DEF w
<1>3. p \in Seq(Nat) /\ Len(p) = Len(s) /\ \A i \in 1..Len(s) : p[i] = w[i]
  BY <1>1, <1>2
<1>4. q \in Seq(Nat) /\ Len(q) = Len(u) /\ \A i \in 1..Len(u) : q[i] = w[Len(s) + i]
  BY <1>1, <1>2
<1> HIDE DEF p, q
<1>5. p = s
  <2>1. \A i \in 1..Len(p) : p[i] = s[i]
    BY <1>1, <1>2, <1>3
  <2> QED
    BY <1>3, <2>1, SeqEqual
<1>6. q = u
  <2>1. ASSUME NEW i \in 1..Len(q)
        PROVE  q[i] = u[i]
    <3>1. /\ i \in Nat /\ 1 <= i /\ i <= Len(u) /\ q[i] = w[Len(s) + i]
          /\ Len(s) + i \in 1..(Len(s) + Len(u)) /\ ~(Len(s) + i <= Len(s))
          /\ Len(s) + i - Len(s) = i
      BY <1>2, <1>4
    <3>2. w[Len(s) + i] = u[Len(s) + i - Len(s)]
      BY <1>1, <3>1
    <3> QED
      BY <3>1, <3>2
  <2> QED
    BY <1>4, <2>1, SeqEqual
<1> QED
  BY <1>5, <1>6 DEF p, q, w

\* What is rendered of so many bytes.
LEMMA RenderWhole ==
  ASSUME NEW t \in Nat, Retained(t)
  PROVE  render = IF t <= Limit THEN <<Bytes(1, t)>>
                  ELSE <<Bytes(1, HeadLimit), t - Limit, Bytes(t - TailLimit + 1, t)>>
<1>0. HeadLimit \in Nat /\ TailLimit \in Nat \ {0} /\ HeadLimit + TailLimit = Limit /\ Limit \in Nat
  BY Limits
<1>1. CASE t <= Limit
  <2>1. discarded = 0
    BY <1>0, <1>1 DEF Retained, Minus
  <2>2. head \o tail = Bytes(1, t)
    <3>1. CASE t <= HeadLimit
      <4>1. head = Bytes(1, t) /\ tail = Bytes(t + 1, t)
        BY <1>0, <3>1 DEF Retained, Least2, TailFrom
      <4>2. Join(Bytes(1, t), Bytes(t + 1, t)) = Bytes(1, t)
        BY RunJoin
      <4> QED
        BY <4>1, <4>2 DEF Join
    <3>2. CASE ~(t <= HeadLimit)
      <4>1. head = Bytes(1, HeadLimit) /\ tail = Bytes(HeadLimit + 1, t)
        BY <1>0, <1>1, <3>2 DEF Retained, Least2, TailFrom
      <4>2. Join(Bytes(1, HeadLimit), Bytes(HeadLimit + 1, t)) = Bytes(1, t)
        BY <1>0, <3>2, RunJoin
      <4> QED
        BY <4>1, <4>2 DEF Join
    <3> QED
      BY <3>1, <3>2
  <2> QED
    BY <1>1, <2>1, <2>2 DEF render
<1>2. CASE ~(t <= Limit)
  <2>1. discarded = t - Limit /\ discarded > 0
    BY <1>0, <1>2 DEF Retained, Minus
  <2>2. head = Bytes(1, HeadLimit) /\ tail = Bytes(t - TailLimit + 1, t)
    BY <1>0, <1>2 DEF Retained, Least2, TailFrom
  <2>3. head \in Seq(Nat) /\ Len(head) = HeadLimit
    BY <1>0, <2>2, 1 \in Nat \ {0}, 1 <= HeadLimit + 1, BytesRun
  <2>4. tail \in Seq(Nat)
    <3>1. t - TailLimit + 1 \in Nat \ {0} /\ t - TailLimit + 1 <= t + 1
      BY <1>0, <1>2
    <3> QED
      BY <2>2, <3>1, BytesRun
  <2>5. /\ SubSeq(head \o tail, 1, HeadLimit) = head
        /\ SubSeq(head \o tail, HeadLimit + 1, Len(head \o tail)) = tail
    BY <2>3, <2>4, Split
  <2>6. render = <<head, discarded, tail>>
    BY <2>1, <2>5 DEF render
  <2> QED
    BY <1>2, <2>1, <2>2, <2>6
<1> QED
  BY <1>1, <1>2

\* Types, and the bounds of what is held, of every execution.
THEOREM TypeCorrect == Spec => []TypeOK
<1>1. IInv => TypeOK
  <2> SUFFICES ASSUME IInv PROVE TypeOK
    OBVIOUS
  <2>0. HeadLimit \in Nat /\ TailLimit \in Nat \ {0} /\ HeadLimit + TailLimit = Limit /\ Limit \in Nat
    BY Limits
  <2>1. Retained(taken) /\ taken \in Nat
    BY DEF IInv, Drained, Typed
  <2>2. Len(head) <= HeadLimit
    <3>1. Least2(HeadLimit, taken) \in Nat /\ Least2(HeadLimit, taken) <= HeadLimit
      BY <2>0, <2>1 DEF Least2
    <3>2. Len(Bytes(1, Least2(HeadLimit, taken))) = Least2(HeadLimit, taken) - 1 + 1
      BY <3>1, 1 \in Nat \ {0}, 1 <= Least2(HeadLimit, taken) + 1, BytesRun
    <3> QED
      BY <2>1, <3>1, <3>2 DEF Retained
  <2>3. Len(tail) <= TailLimit
    <3>1. /\ TailFrom(taken) \in Nat \ {0} /\ TailFrom(taken) <= taken + 1
          /\ taken - TailFrom(taken) + 1 <= TailLimit
      BY <2>0, <2>1 DEF TailFrom
    <3>2. Len(Bytes(TailFrom(taken), taken)) = taken - TailFrom(taken) + 1
      BY <2>1, <3>1, BytesRun
    <3> QED
      BY <2>1, <3>1, <3>2 DEF Retained
  <2>4. discarded \in Nat
    BY <2>0, <2>1 DEF Retained, Minus
  <2>5. {lost, held, ample, elapsed, timed_out, cleanup_error} \subseteq BOOLEAN
    BY Zenon DEF IInv, Typed
  <2> QED
    BY <2>2, <2>3, <2>4, <2>5 DEF IInv, Typed, TypeOK
<1> QED
  BY <1>1, Invariance, PTL

\* A result carries the whole output, or its ends and the exact number of bytes
\* between them, whatever the limits and wherever the reads fall.
THEOREM OutputWhole == Spec => []OutputIsWhole
<1>1. IInv => OutputIsWhole
  <2> SUFFICES ASSUME IInv, pc = "done", answer.ok
               PROVE  answer.stdout =
                        IF written <= Limit THEN <<Bytes(1, written)>>
                        ELSE <<Bytes(1, HeadLimit), written - Limit, Bytes(written - TailLimit + 1, written)>>
    BY DEF OutputIsWhole
  <2>1. answer # Error
    BY DEF Error
  <2>2. answer = Outcome /\ drain = "sent"
    BY <2>1 DEF IInv, Answered
  <2>3. Retained(written) /\ written \in Nat
    BY <2>2 DEF IInv, Drained, Typed
  <2>4. answer.stdout = render
    BY <2>2 DEF Outcome, Result
  <2> QED
    BY <2>3, <2>4, RenderWhole
<1> QED
  BY <1>1, Invariance, PTL

\* No result leaves a container of the execution running.
THEOREM ResultsAreOver == Spec => []ResultMeansGone
<1>1. IInv => ResultMeansGone
  <2> SUFFICES ASSUME IInv, pc = "done", answer.ok,
                      ~lost \/ answer.exit = "success" \/ answer.timed_out,
                      NEW s \in Stages
               PROVE  box[s] # "running"
    BY DEF ResultMeansGone
  <2>1. answer # Error
    BY DEF Error
  <2>2. answer = Outcome /\ stage = "test" /\ client = "gone" /\ ~cleanup_error
    BY <2>1 DEF IInv, Answered
  <2>3. answer.exit = (IF timed_out THEN None ELSE code) /\ answer.timed_out = timed_out
    BY <2>2 DEF Outcome, Result
  <2>4. CASE s = "prepare"
    BY <2>2, <2>4 DEF IInv, Ends
  <2>5. CASE s = "test"
    <3>1. CASE timed_out
      BY <2>2, <2>5, <3>1 DEF IInv, Ends
    <3>2. CASE ~timed_out
      <4>1. ~lost \/ code = "success"
        BY <2>3, <3>2
      <4> QED
        BY <2>2, <2>5, <3>2, <4>1 DEF IInv, Ends
    <3> QED
      BY <3>1, <3>2
  <2> QED
    BY <2>4, <2>5 DEF Stages
<1> QED
  BY <1>1, Invariance, PTL

\* The container of the tests never meets an unfinished copy.
THEOREM TestsOnFinishedCopy == Spec => []TestsRunOnFinishedCopy
<1>1. IInv => TestsRunOnFinishedCopy
  BY DEF IInv, Ends, TestsRunOnFinishedCopy
<1> QED
  BY <1>1, Invariance, PTL

=============================================================================
