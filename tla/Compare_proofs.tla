---------------------------- MODULE Compare_proofs ----------------------------
(***************************************************************************)
(* Comparisons and replays of any number of bundles by any number of        *)
(* processes.  The invariant says which locks a process owns at each of     *)
(* its steps; the rest follows from it.                                     *)
(***************************************************************************)
EXTENDS Compare, WellFoundedInduction, TLAPS

Root(p, i) == Roots(command[p])[i]
Working(p) == pc[p] \notin {"leaving", "ended"}

\* What a process has loaded, it owns and it verifies.
LoadedOK(p) ==
  /\ Len(held[p]) \in 0..Len(Roots(command[p]))
  /\ Working(p) => \A i \in 1..Len(held[p]) : lock[Root(p, i)] = p /\ sound[Root(p, i)]
  /\ pc[p] \in {"verify", "lock", "load", "replay"} => Len(held[p]) < Len(Roots(command[p]))
  /\ pc[p] \in {"load", "replay"} => lock[Current(p)] = p
  /\ pc[p] = "captured" => Len(held[p]) = Len(Roots(command[p]))

\* The locks of a process that wants another one are lower in the order.
OrderOK(p) ==
  /\ pc[p] \in {"verify", "lock"} \/ outcome[p] = "busy" =>
       /\ Len(held[p]) < Len(Roots(command[p]))
       /\ \A a \in Bundles : lock[a] = p => a < Current(p)
  /\ pc[p] \in {"load", "replay"} => \A a \in Bundles : lock[a] = p => a <= Current(p)

\* An outcome is set when the work is over.
OutcomeOK(p) == outcome[p] = "none" <=> Working(p)

\* Whoever found a lock taken, somebody gets or got further than he.
Overtaken(p) ==
  outcome[p] = "busy" =>
    \E q \in Procs : \/ outcome[q] \notin {"none", "busy"}
                     \/ /\ outcome[q] = "none"
                        /\ \E a \in Bundles : lock[a] = q /\ Current(p) <= a

Types ==
  /\ sound \in [Bundles -> BOOLEAN] /\ lock \in [Bundles -> Procs \cup {Free}]
  /\ pc \in [Procs -> {"verify", "lock", "load", "captured", "replay", "leaving", "ended"}]
  /\ outcome \in [Procs -> {"none", "busy", "refused", "done", "pass", "fail", "died"}]
  /\ command \in [Procs -> Commands] /\ held \in [Procs -> Seq(Bundles)]
  /\ results \in [Bundles -> Results] /\ policy \in [Bundles -> Policies]

IInv ==
  /\ Types
  /\ \A p \in Procs : LoadedOK(p) /\ OrderOK(p) /\ OutcomeOK(p) /\ Overtaken(p)

-----------------------------------------------------------------------------
(* The bundles of a command, in the order of their paths. *)

LEMMA RootsOrdered ==
  ASSUME NEW c \in Commands
  PROVE  /\ Roots(c) \in Seq(Bundles) /\ Len(Roots(c)) \in {1, 2}
         /\ \A i \in 1..Len(Roots(c)) : Roots(c)[i] \in Bundles
         /\ Len(Roots(c)) = 2 => Roots(c)[1] < Roots(c)[2]
         /\ \A b \in {c.base, c.head} : \E i \in 1..Len(Roots(c)) : Roots(c)[i] = b
<1>1. c.base \in Bundles /\ c.head \in Bundles /\ c.base \in Nat /\ c.head \in Nat
  BY CompareAssumption
<1>2. CASE c.base = c.head
  <2>1. Roots(c) = <<c.base>>
    BY <1>1, <1>2 DEF Roots
  <2> QED
    BY <1>1, <1>2, <2>1
<1>3. CASE c.base < c.head
  <2>1. Roots(c) = <<c.base, c.head>>
    BY <1>1, <1>3 DEF Roots
  <2> QED
    BY <1>1, <1>3, <2>1
<1>4. CASE c.head < c.base
  <2>1. Roots(c) = <<c.head, c.base>>
    BY <1>1, <1>4 DEF Roots
  <2> QED
    BY <1>1, <1>4, <2>1
<1> QED
  BY <1>1, <1>2, <1>3, <1>4

LEMMA InitInv == Init => IInv
<1> SUFFICES ASSUME Init PROVE IInv
  OBVIOUS
<1>1. Types
  BY DEF Init, Types
<1>2. ASSUME NEW p \in Procs
      PROVE  LoadedOK(p) /\ OrderOK(p) /\ OutcomeOK(p) /\ Overtaken(p)
  <2>1. command[p] \in Commands /\ held[p] = << >> /\ pc[p] = "verify" /\ outcome[p] = "none"
    BY DEF Init
  <2>2. \A a \in Bundles : lock[a] # p
    BY CompareAssumption DEF Init, Free
  <2> QED
    BY <2>1, <2>2, RootsOrdered DEF LoadedOK, OrderOK, OutcomeOK, Overtaken, Working
<1> QED
  BY <1>1, <1>2 DEF IInv

LEMMA RootsBefore ==
  ASSUME NEW c \in Commands, NEW n \in Nat, n < Len(Roots(c))
  PROVE  /\ Roots(c)[n + 1] \in Bundles /\ Roots(c)[n + 1] \in Nat
         /\ \A i \in 1..n : Roots(c)[i] \in Bundles /\ Roots(c)[i] < Roots(c)[n + 1]
<1>1. CASE n = 0
  <2>1. 1 \in 1..Len(Roots(c)) /\ n + 1 = 1 /\ 1..n = {}
    BY <1>1, RootsOrdered
  <2> QED
    BY <2>1, RootsOrdered, CompareAssumption
<1>2. CASE n # 0
  <2>1. n = 1 /\ Len(Roots(c)) = 2
    BY <1>2, RootsOrdered
  <2>2. 1..n = {1} /\ n + 1 = 2 /\ 1 \in 1..Len(Roots(c)) /\ 2 \in 1..Len(Roots(c))
    BY <2>1
  <2>3. Roots(c)[1] \in Bundles /\ Roots(c)[2] \in Bundles /\ Roots(c)[1] < Roots(c)[2]
    BY <2>1, <2>2, RootsOrdered
  <2> QED
    BY <2>2, <2>3, CompareAssumption
<1> QED
  BY <1>1, <1>2

\* The bundle a process turns to next.
LEMMA CurrentRoot ==
  ASSUME IInv, NEW p \in Procs, Len(held[p]) < Len(Roots(command[p]))
  PROVE  /\ Current(p) = Root(p, Len(held[p]) + 1)
         /\ Current(p) \in Bundles /\ Current(p) \in Nat
         /\ \A i \in 1..Len(held[p]) : Root(p, i) \in Bundles /\ Root(p, i) < Current(p)
<1>1. command[p] \in Commands /\ Len(held[p]) \in Nat
  BY DEF IInv, Types
<1> QED
  BY <1>1, RootsBefore DEF Current, Root

\* A process that does not move keeps its part of the invariant as long as no
\* one takes its locks or spoils what it owns.
LEMMA Others ==
  ASSUME IInv, NEW q \in Procs, command' = command,
         pc'[q] = pc[q], held'[q] = held[q], outcome'[q] = outcome[q],
         \A a \in Bundles : lock'[a] = q <=> lock[a] = q,
         \A a \in Bundles : lock[a] = q /\ sound[a] => sound'[a]
  PROVE  LoadedOK(q)' /\ OrderOK(q)' /\ OutcomeOK(q)'
<1>1. command[q] \in Commands /\ LoadedOK(q) /\ OrderOK(q) /\ OutcomeOK(q)
  BY DEF IInv, Types
<1>2. \A i \in 1..Len(held[q]) : Root(q, i) \in Bundles /\ Root(q, i)' = Root(q, i)
  BY <1>1, RootsOrdered DEF LoadedOK, Root
<1>3. Current(q)' = Current(q)
  BY DEF Current
<1>4. LoadedOK(q)'
  <2>1. pc[q] \in {"load", "replay"} => Current(q) \in Bundles
    BY <1>1, CurrentRoot DEF LoadedOK
  <2> QED
    BY <1>1, <1>2, <1>3, <2>1 DEF LoadedOK, Working
<1>5. OrderOK(q)' /\ OutcomeOK(q)'
  BY <1>1, <1>3 DEF OrderOK, OutcomeOK, Working
<1> QED
  BY <1>4, <1>5

\* Nobody ends in this step and no working process loses a lock.
LEMMA StillOvertaken ==
  ASSUME IInv, outcome' = outcome,
         \A r \in Procs : outcome[r] = "busy" => Current(r)' = Current(r),
         \A q \in Procs, a \in Bundles : lock[a] = q /\ outcome[q] = "none" => lock'[a] = q
  PROVE  \A r \in Procs : Overtaken(r)'
BY DEF IInv, Overtaken

\* In this step somebody ends who was not turned away.
LEMMA NowOvertaken ==
  ASSUME NEW p \in Procs, outcome'[p] \notin {"none", "busy"}
  PROVE  \A r \in Procs : Overtaken(r)'
BY DEF Overtaken

-----------------------------------------------------------------------------
(* Each action keeps the invariant. *)

Kept(p) == LoadedOK(p) /\ OrderOK(p) /\ OutcomeOK(p)

\* A process that turns to its end and keeps its locks until then.
LEMMA EndKeeps ==
  ASSUME IInv, NEW p \in Procs, Working(p), NEW how \in {"refused", "done", "pass", "fail"},
         End(p, how), UNCHANGED <<sealed, lock, held>>,
         sound' \in [Bundles -> BOOLEAN],
         \A q \in Procs \ {p}, a \in Bundles : lock[a] = q /\ sound[a] => sound'[a]
  PROVE  IInv'
<1>1. Types'
  BY DEF IInv, Types, End, Go, sealed
<1>2. Kept(p)'
  BY DEF IInv, Types, End, Go, sealed, Kept, LoadedOK, OrderOK, OutcomeOK, Working
<1>3. ASSUME NEW q \in Procs \ {p} PROVE Kept(q)'
  BY Others DEF IInv, Types, End, Go, sealed, Kept
<1>4. \A r \in Procs : Overtaken(r)'
  BY NowOvertaken DEF IInv, Types, End, Go
<1> QED
  BY <1>1, <1>2, <1>3, <1>4 DEF IInv, Kept

LEMMA RefuseKeeps ==
  ASSUME IInv, NEW p \in Procs, Working(p), Refuse(p, "refused")
  PROVE  IInv'
<1>1. sound' \in [Bundles -> BOOLEAN]
  BY DEF IInv, Types, Refuse
<1> QED
  BY <1>1, EndKeeps DEF Refuse, sealed

LEMMA VerifyKeeps == ASSUME IInv, NEW p \in Procs, Verify(p) PROVE IInv'
<1>1. CASE Refuse(p, "refused")
  BY <1>1, RefuseKeeps DEF Verify, Working
<1>2. CASE Go(p, "lock") /\ UNCHANGED <<sealed, sound, lock, held, outcome>>
  <2>1. Types'
    BY <1>2 DEF IInv, Types, Go, sealed
  <2>2. Kept(p)'
    <3>1. /\ pc[p] = "verify" /\ pc'[p] = "lock" /\ Current(p)' = Current(p)
          /\ \A i \in Nat : Root(p, i)' = Root(p, i)
      BY <1>2 DEF IInv, Types, Go, sealed, Verify, Root, Current
    <3> QED
      BY <1>2, <3>1 DEF IInv, sealed, Kept, LoadedOK, OrderOK, OutcomeOK, Working
  <2>3. ASSUME NEW q \in Procs \ {p} PROVE Kept(q)'
    BY <1>2, Others DEF IInv, Types, Go, sealed, Kept
  <2>4. \A r \in Procs : Overtaken(r)'
    BY <1>2, StillOvertaken DEF sealed, Current
  <2> QED
    BY <2>1, <2>2, <2>3, <2>4 DEF IInv, Kept
<1> QED
  BY <1>1, <1>2 DEF Verify

\* A process that finds a lock taken: its holder, or whoever overtook the holder
\* in turn, is further in the order of the paths.
LEMMA BusyKeeps ==
  ASSUME IInv, NEW p \in Procs, pc[p] = "lock", lock[Current(p)] # Free, Refuse(p, "busy")
  PROVE  IInv'
<1>0. /\ Kept(p) /\ outcome[p] = "none" /\ Current(p) \in Bundles /\ Current(p) \in Nat
      /\ \A a \in Bundles : lock[a] = p => a < Current(p)
      /\ Len(held[p]) < Len(Roots(command[p]))
  BY CurrentRoot DEF IInv, Kept, OrderOK, OutcomeOK, Working
<1>1. Types'
  BY DEF IInv, Types, Refuse, End, Go, sealed
<1>2. Kept(p)'
  <2>1. /\ pc'[p] = "leaving" /\ Current(p)' = Current(p) /\ outcome'[p] = "busy"
    BY DEF IInv, Types, Refuse, End, Go, sealed, Current
  <2> QED
    BY <1>0, <2>1 DEF Refuse, sealed, Kept, LoadedOK, OrderOK, OutcomeOK, Working
<1>3. ASSUME NEW q \in Procs \ {p} PROVE Kept(q)'
  BY Others DEF IInv, Types, Refuse, End, Go, sealed, Kept
<1>4. /\ \A q \in Procs \ {p} : outcome'[q] = outcome[q]
      /\ lock' = lock /\ \A q \in Procs : Current(q)' = Current(q)
  BY DEF IInv, Types, Refuse, End, sealed, Current
<1>5. PICK w \in Procs \ {p} :
        \/ outcome[w] \notin {"none", "busy"}
        \/ /\ outcome[w] = "none"
           /\ \E a \in Bundles : lock[a] = w /\ Current(p) <= a
  <2>1. PICK h \in Procs \ {p} : lock[Current(p)] = h
    BY <1>0 DEF IInv, Types
  <2>2. CASE outcome[h] = "busy"
    <3>1. Current(p) < Current(h) /\ Current(h) \in Nat
      BY <1>0, <2>1, <2>2, CurrentRoot DEF IInv, OrderOK
    <3>2. PICK q \in Procs : \/ outcome[q] \notin {"none", "busy"}
                             \/ /\ outcome[q] = "none"
                                /\ \E a \in Bundles : lock[a] = q /\ Current(h) <= a
      BY <2>2 DEF IInv, Overtaken
    <3>3. \A a \in Bundles : Current(h) <= a => Current(p) <= a /\ ~(a < Current(p))
      BY <1>0, <3>1, CompareAssumption
    <3> QED
      BY <1>0, <3>2, <3>3
  <2>3. CASE outcome[h] # "busy"
    BY <1>0, <2>1, <2>3
  <2> QED
    BY <2>2, <2>3
<1>6. ASSUME NEW r \in Procs, outcome'[r] = "busy" PROVE Overtaken(r)'
  <2>1. CASE r = p
    BY <1>4, <1>5, <2>1 DEF Overtaken
  <2>2. CASE r # p
    <3>1. PICK q \in Procs : \/ outcome[q] \notin {"none", "busy"}
                             \/ /\ outcome[q] = "none"
                                /\ \E a \in Bundles : lock[a] = q /\ Current(r) <= a
      BY <1>4, <1>6, <2>2 DEF IInv, Overtaken
    <3>2. CASE q # p
      BY <1>4, <3>1, <3>2 DEF Overtaken
    <3>3. CASE q = p
      <4>1. Current(r) \in Nat
        BY <1>4, <1>6, <2>2, CurrentRoot DEF IInv, OrderOK
      <4>2. Current(r) <= Current(p)
        BY <1>0, <3>1, <3>3, <4>1, CompareAssumption
      <4>3. \A a \in Bundles : Current(p) <= a => Current(r) <= a
        BY <1>0, <4>1, <4>2, CompareAssumption
      <4> QED
        BY <1>4, <1>5, <4>3 DEF Overtaken
    <3> QED
      BY <3>2, <3>3
  <2> QED
    BY <2>1, <2>2
<1>7. \A r \in Procs : Overtaken(r)'
  BY <1>6 DEF Overtaken
<1> QED
  BY <1>1, <1>2, <1>3, <1>7 DEF IInv, Kept

LEMMA AcquireKeeps == ASSUME IInv, NEW p \in Procs, Acquire(p) PROVE IInv'
<1>0. /\ pc[p] = "lock" /\ Kept(p) /\ outcome[p] = "none"
      /\ Current(p) \in Bundles /\ Current(p) \in Nat
      /\ Len(held[p]) < Len(Roots(command[p]))
  BY CurrentRoot DEF IInv, Kept, OrderOK, OutcomeOK, Working, Acquire
<1>1. CASE lock[Current(p)] # Free /\ Refuse(p, "busy")
  BY <1>0, <1>1, BusyKeeps
<1>2. CASE /\ lock[Current(p)] = Free
           /\ lock' = LockedWith(p, Current(p))
           /\ Go(p, IF command[p].kind = "replay" THEN "replay" ELSE "load")
           /\ UNCHANGED <<sealed, sound, held, outcome>>
  <2>1. /\ pc'[p] \in {"load", "replay"} /\ Current(p)' = Current(p)
        /\ lock'[Current(p)] = p
        /\ \A a \in Bundles \ {Current(p)} : lock'[a] = lock[a]
        /\ \A i \in Nat : Root(p, i)' = Root(p, i)
    BY <1>0, <1>2 DEF IInv, Types, Go, sealed, Current, LockedWith, Root
  <2>2. Types'
    BY <1>2 DEF IInv, Types, Go, sealed, LockedWith
  <2>3. Kept(p)'
    <3>1. LoadedOK(p)'
      <4>1. \A i \in 1..Len(held[p]) :
              lock[Root(p, i)] = p /\ Root(p, i) \in Bundles /\ Root(p, i) < Current(p)
        BY <1>0, CurrentRoot DEF Kept, LoadedOK, Working
      <4>2. \A i \in 1..Len(held[p]) : lock'[Root(p, i)] = p
        BY <1>0, <2>1, <4>1
      <4> QED
        BY <1>0, <1>2, <2>1, <4>2 DEF Kept, LoadedOK, Working, sealed
    <3>2. \A a \in Bundles : lock'[a] = p => a <= Current(p)
      BY <1>0, <2>1, CompareAssumption DEF Kept, OrderOK
    <3> QED
      BY <1>0, <1>2, <2>1, <3>1, <3>2 DEF Kept, OrderOK, OutcomeOK, Working
  <2>4. ASSUME NEW q \in Procs \ {p} PROVE Kept(q)'
    <3>1. \A a \in Bundles : lock'[a] = q <=> lock[a] = q
      BY <1>2, <2>1, CompareAssumption DEF Free
    <3> QED
      BY <1>2, <3>1, Others DEF IInv, Types, Go, sealed, Kept
  <2>5. \A r \in Procs : Overtaken(r)'
    <3>1. \A q \in Procs, a \in Bundles : lock[a] = q => lock'[a] = q
      BY <1>2, <2>1, CompareAssumption DEF Free
    <3> QED
      BY <1>2, <3>1, StillOvertaken DEF sealed, Current
  <2> QED
    BY <2>2, <2>3, <2>4, <2>5 DEF IInv, Kept
<1> QED
  BY <1>1, <1>2 DEF Acquire

LEMMA LoadKeeps == ASSUME IInv, NEW p \in Procs, Load(p) PROVE IInv'
<1>0. /\ pc[p] = "load" /\ Kept(p) /\ outcome[p] = "none"
      /\ Len(held[p]) < Len(Roots(command[p])) /\ Len(held[p]) \in Nat
      /\ Len(Roots(command[p])) \in {1, 2}
      /\ lock[Current(p)] = p /\ held[p] \in Seq(Bundles) /\ command[p] \in Commands
      /\ \A a \in Bundles : lock[a] = p => a <= Current(p)
  <2>1. /\ pc[p] = "load" /\ Types /\ LoadedOK(p) /\ OrderOK(p) /\ OutcomeOK(p)
    BY DEF IInv, Load
  <2>2. /\ outcome[p] = "none" /\ lock[Current(p)] = p
        /\ Len(held[p]) < Len(Roots(command[p]))
        /\ \A a \in Bundles : lock[a] = p => a <= Current(p)
    BY <2>1 DEF LoadedOK, OrderOK, OutcomeOK, Working
  <2>3. held[p] \in Seq(Bundles) /\ command[p] \in Commands /\ Len(held[p]) \in Nat
    BY <2>1 DEF Types
  <2>4. Len(Roots(command[p])) \in {1, 2}
    BY <2>3, RootsOrdered
  <2> QED
    BY <2>1, <2>2, <2>3, <2>4 DEF Kept
<1>1. CASE Refuse(p, "refused")
  BY <1>0, <1>1, RefuseKeeps DEF Working
<1>2. CASE /\ sound[Current(p)]
           /\ held' = [held EXCEPT ![p] = Append(@, Current(p))]
           /\ Go(p, IF Len(held'[p]) = Len(Roots(command[p])) THEN "captured" ELSE "verify")
           /\ UNCHANGED <<sealed, sound, lock, outcome>>
  <2>0. Current(p) \in Bundles /\ Current(p) \in Nat /\ Current(p) = Root(p, Len(held[p]) + 1)
    BY <1>0, CurrentRoot
  <2>1. /\ held'[p] = Append(held[p], Current(p)) /\ held'[p] \in Seq(Bundles)
        /\ Len(held'[p]) = Len(held[p]) + 1 /\ \A i \in Nat : Root(p, i)' = Root(p, i)
        /\ pc'[p] = IF Len(held'[p]) = Len(Roots(command[p])) THEN "captured" ELSE "verify"
    BY <1>0, <1>2, <2>0 DEF IInv, Types, Go, sealed, Root
  <2>2. Types'
    BY <1>0, <1>2, <2>0, <2>1 DEF IInv, Types, Go, sealed
  <2>3. Kept(p)'
    <3>1. \A i \in 1..Len(held'[p]) : lock'[Root(p, i)'] = p /\ sound'[Root(p, i)']
      <4>1. \A i \in 1..Len(held[p]) : lock[Root(p, i)] = p /\ sound[Root(p, i)]
        BY <1>0 DEF Kept, LoadedOK, Working
      <4>2. \A i \in 1..Len(held'[p]) : i \in 1..Len(held[p]) \/ i = Len(held[p]) + 1
        BY <1>0, <2>1
      <4>3. \A i \in 1..Len(held'[p]) : lock[Root(p, i)] = p /\ sound[Root(p, i)]
        BY <1>0, <1>2, <2>0, <4>1, <4>2
      <4> QED
        BY <1>2, <2>1, <4>3
    <3>2. LoadedOK(p)'
      BY <1>0, <1>2, <2>1, <3>1 DEF LoadedOK, sealed
    <3>3. OrderOK(p)'
      <4>1. CASE pc'[p] = "captured"
        BY <1>0, <1>2, <4>1 DEF OrderOK
      <4>2. CASE pc'[p] = "verify"
        <5>1. Len(held[p]) = 0 /\ Len(held'[p]) = 1 /\ Len(Roots(command[p])) = 2
          <6>1. Len(held'[p]) # Len(Roots(command[p]))
            BY <2>1, <4>2
          <6>2. Len(held'[p]) = Len(held[p]) + 1
            BY <2>1
          <6>3. \A n \in Nat, k \in {1, 2} : n < k /\ n + 1 # k => n = 0 /\ n + 1 = 1 /\ k = 2
            OBVIOUS
          <6>4. /\ Len(held[p]) \in Nat /\ Len(Roots(command[p])) \in {1, 2}
                /\ Len(held[p]) < Len(Roots(command[p]))
                /\ Len(held[p]) + 1 # Len(Roots(command[p]))
            BY <1>0, <6>1, <6>2
          <6>5. Len(held[p]) = 0 /\ Len(held[p]) + 1 = 1 /\ Len(Roots(command[p])) = 2
            BY <6>3, <6>4
          <6> QED
            BY <6>2, <6>5
        <5>2. Current(p) = Roots(command[p])[1] /\ Current(p)' = Roots(command[p])[2]
          BY <1>2, <2>0, <2>1, <5>1 DEF Current, Root, sealed
        <5>3. Current(p) < Current(p)' /\ Current(p)' \in Nat
          <6>1. Roots(command[p])[1] < Roots(command[p])[2] /\ Roots(command[p])[2] \in Bundles
            BY <1>0, <5>1, RootsOrdered
          <6>2. Bundles \subseteq Nat
            BY CompareAssumption
          <6> QED
            BY <5>2, <6>1, <6>2
        <5>4. \A a \in Bundles : a \in Nat
          BY CompareAssumption
        <5>5. \A a \in Bundles : lock'[a] = p => a < Current(p)'
          BY <1>0, <1>2, <2>0, <5>3, <5>4
        <5> QED
          BY <1>0, <1>2, <4>2, <5>1, <5>5 DEF OrderOK, sealed
      <4> QED
        BY <2>1, <4>1, <4>2
    <3> QED
      BY <1>0, <1>2, <2>1, <3>2, <3>3 DEF Kept, OutcomeOK, Working
  <2>4. ASSUME NEW q \in Procs \ {p} PROVE Kept(q)'
    BY <1>2, Others DEF IInv, Types, Go, sealed, Kept
  <2>5. \A r \in Procs : Overtaken(r)'
    <3>1. \A r \in Procs : outcome[r] = "busy" => Current(r)' = Current(r)
      BY <1>0, <1>2 DEF IInv, Types, sealed, Current
    <3> QED
      BY <1>2, <3>1, StillOvertaken
  <2> QED
    BY <2>2, <2>3, <2>4, <2>5 DEF IInv, Kept
<1> QED
  BY <1>1, <1>2 DEF Load

LEMMA ReplayWritesKeeps == ASSUME IInv, NEW p \in Procs, ReplayWrites(p) PROVE IInv'
<1>0. /\ pc[p] = "replay" /\ Kept(p) /\ Len(held[p]) < Len(Roots(command[p]))
      /\ lock[Current(p)] = p
  BY DEF IInv, Kept, LoadedOK, ReplayWrites
<1>1. /\ Current(p) \in Bundles
      /\ \A i \in 1..Len(held[p]) : Root(p, i) \in Bundles /\ Root(p, i) # Current(p)
  BY <1>0, CurrentRoot, CompareAssumption
<1>2. Types'
  BY DEF IInv, Types, ReplayWrites, sealed
<1>3. Kept(p)'
  <2>1. \A i \in 1..Len(held[p]) : sound'[Root(p, i)] = sound[Root(p, i)]
    BY <1>1 DEF IInv, Types, ReplayWrites
  <2>2. Current(p)' = Current(p) /\ \A i \in Nat : Root(p, i)' = Root(p, i)
    BY DEF ReplayWrites, sealed, Current, Root
  <2>3. LoadedOK(p)'
    <3>1. \A i \in 1..Len(held[p]) : Root(p, i)' = Root(p, i)
      BY DEF ReplayWrites, sealed, Root
    <3> QED
      BY <1>0, <2>1, <2>2, <3>1 DEF ReplayWrites, sealed, Kept, LoadedOK, Working
  <2>4. OrderOK(p)' /\ OutcomeOK(p)'
    BY <1>0, <2>2 DEF ReplayWrites, sealed, Kept, OrderOK, OutcomeOK, Working
  <2> QED
    BY <2>3, <2>4 DEF Kept
<1>4. ASSUME NEW q \in Procs \ {p} PROVE Kept(q)'
  <2>1. \A a \in Bundles : lock[a] = q /\ sound[a] => sound'[a]
    BY <1>0 DEF IInv, Types, ReplayWrites
  <2> QED
    BY <2>1, Others DEF ReplayWrites, sealed, Kept
<1>5. \A r \in Procs : Overtaken(r)'
  BY StillOvertaken DEF ReplayWrites, sealed, Current
<1> QED
  BY <1>2, <1>3, <1>4, <1>5 DEF IInv, Kept

LEMMA ReplayEndsKeeps == ASSUME IInv, NEW p \in Procs, ReplayEnds(p) PROVE IInv'
<1>1. sound' \in [Bundles -> BOOLEAN]
  BY DEF IInv, Types, ReplayEnds
<1>2. \A a \in Bundles : sound[a] => sound'[a]
  BY DEF IInv, Types, ReplayEnds
<1> QED
  BY <1>1, <1>2, EndKeeps DEF ReplayEnds, Working

LEMMA DecideKeeps == ASSUME IInv, NEW p \in Procs, Decide(p) PROVE IInv'
<1>1. PICK how \in {"refused", "pass", "fail"} : End(p, how)
  BY DEF Decide
<1>2. pc[p] = "captured" /\ UNCHANGED <<sealed, sound, lock, held>>
  BY DEF Decide
<1>3. sound' \in [Bundles -> BOOLEAN]
  BY <1>2 DEF IInv, Types
<1> QED
  BY <1>1, <1>2, <1>3, EndKeeps DEF Working

LEMMA LeaveKeeps == ASSUME IInv, NEW p \in Procs, Leave(p) PROVE IInv'
<1>0. /\ pc[p] = "leaving" /\ Kept(p) /\ outcome[p] # "none"
      /\ lock' = Unlocked(p) /\ UNCHANGED <<sealed, sound, held, outcome>>
      /\ pc' = [pc EXCEPT ![p] = "ended"]
  BY DEF IInv, Kept, OutcomeOK, Working, Leave, Go
<1>1. Types'
  BY <1>0 DEF IInv, Types, Unlocked, sealed
<1>2. /\ \A a \in Bundles : lock'[a] # p
      /\ \A q \in Procs \ {p}, a \in Bundles : lock'[a] = q <=> lock[a] = q
  BY <1>0, CompareAssumption DEF Unlocked, Free
<1>3. Kept(p)'
  BY <1>0, <1>2 DEF IInv, Types, sealed, Kept, LoadedOK, OrderOK, OutcomeOK, Working
<1>4. ASSUME NEW q \in Procs \ {p} PROVE Kept(q)'
  <2>1. pc'[q] = pc[q]
    BY <1>0 DEF IInv, Types
  <2> QED
    BY <1>0, <1>2, <2>1, Others DEF sealed, Kept
<1>5. \A r \in Procs : Overtaken(r)'
  BY <1>0, <1>2, StillOvertaken DEF sealed, Current
<1> QED
  BY <1>1, <1>3, <1>4, <1>5 DEF IInv, Kept

LEMMA CrashKeeps == ASSUME IInv, NEW p \in Procs, Crash(p) PROVE IInv'
<1>0. /\ Kept(p) /\ UNCHANGED <<sealed, sound, lock, held>>
      /\ pc' = [pc EXCEPT ![p] = "ended"] /\ outcome' = [outcome EXCEPT ![p] = "died"]
  BY DEF IInv, Kept, Crash, Go
<1>1. Types'
  BY <1>0 DEF IInv, Types, sealed
<1>2. pc'[p] = "ended" /\ outcome'[p] = "died"
  BY <1>0 DEF IInv, Types
<1>3. Kept(p)'
  BY <1>0, <1>2 DEF sealed, Kept, LoadedOK, OrderOK, OutcomeOK, Working
<1>4. ASSUME NEW q \in Procs \ {p} PROVE Kept(q)'
  BY <1>0, Others DEF IInv, Types, sealed, Kept
<1>5. \A r \in Procs : Overtaken(r)'
  BY <1>2, NowOvertaken
<1> QED
  BY <1>1, <1>3, <1>4, <1>5 DEF IInv, Kept

LEMMA StepInv == IInv /\ [Next]_vars => IInv'
<1> SUFFICES ASSUME IInv, [Next]_vars PROVE IInv'
  OBVIOUS
<1>1. CASE UNCHANGED vars
  <2>1. Types'
    BY <1>1 DEF IInv, Types, vars
  <2>2. \A p \in Procs : Kept(p)'
    BY <1>1, Others DEF vars, Kept
  <2>3. \A p \in Procs : Overtaken(p)'
    BY <1>1, StillOvertaken DEF vars, Current
  <2> QED
    BY <2>1, <2>2, <2>3 DEF IInv, Kept
<1>2. ASSUME NEW p \in Procs,
             \/ Verify(p) \/ Acquire(p) \/ Load(p) \/ Decide(p) \/ Leave(p)
             \/ ReplayWrites(p) \/ ReplayEnds(p) \/ Crash(p)
      PROVE  IInv'
  BY <1>2, VerifyKeeps, AcquireKeeps, LoadKeeps, DecideKeeps, LeaveKeeps, ReplayWritesKeeps,
     ReplayEndsKeeps, CrashKeeps
<1> QED
  BY <1>1, <1>2 DEF Next

LEMMA Invariant == Spec => []IInv
BY InitInv, StepInv, PTL DEF Spec

-----------------------------------------------------------------------------
(* The theorems. *)

\* Every variable of the model has its type in every state.
THEOREM TypeCorrect == Spec => []TypeOK
<1>1. IInv => TypeOK
  <2>1. \A p \in Procs : IInv => Len(held[p]) <= Len(Roots(command[p]))
    BY RootsOrdered DEF IInv, Types, LoadedOK
  <2> QED
    BY <2>1 DEF IInv, Types, TypeOK
<1> QED
  BY <1>1, Invariant, PTL

\* compare decides on two bundles that verify together while it owns both locks
\* (load_verified_manifest keeps the first lock while it loads the second).
THEOREM CaptureCorrect == Spec => []CapturedTogether
<1>1. IInv => CapturedTogether
  <2> SUFFICES ASSUME IInv, NEW p \in Procs, pc[p] = "captured",
                      NEW b \in {command[p].base, command[p].head}
               PROVE  sound[b] /\ lock[b] = p
    BY DEF CapturedTogether
  <2>1. command[p] \in Commands
    BY DEF IInv, Types
  <2>2. PICK i \in 1..Len(Roots(command[p])) : Roots(command[p])[i] = b
    BY <2>1, RootsOrdered
  <2> QED
    BY <2>2 DEF IInv, LoadedOK, Working, Root
<1> QED
  BY <1>1, Invariant, PTL

\* Comparisons and replays that only try their locks never all turn each other
\* away, however many there are: the roots are sorted before they are locked.
THEOREM ProgressCorrect == Spec => []SomeoneGoesThrough
<1>1. IInv => SomeoneGoesThrough
  <2> SUFFICES ASSUME IInv, \A p \in Procs : pc[p] = "ended",
                      \A p \in Procs : outcome[p] = "busy"
               PROVE  FALSE
    BY DEF SomeoneGoesThrough
  <2>1. PICK p \in Procs : TRUE
    BY CompareAssumption
  <2> QED
    BY <2>1 DEF IInv, Overtaken
<1> QED
  BY <1>1, Invariant, PTL

-----------------------------------------------------------------------------
(* The gate. *)

\* A nonempty set of naturals has the least element FirstOf names.
LEMMA FirstOfLeast ==
  ASSUME NEW S \in SUBSET Nat, S # {}
  PROVE  FirstOf(S) \in S /\ \A j \in S : FirstOf(S) <= j
<1>1. PICK x \in S : \A y \in S : <<y, x>> \notin OpToRel(<, Nat)
  BY NatLessThanWellFounded, WFMin
<1>2. \A y \in S : ~(y < x)
  BY <1>1, Zenon DEF OpToRel
<1>3. \A y \in S : x <= y
  BY <1>2
<1> QED
  BY <1>3 DEF FirstOf

\* The horizon of results whose baseline passed, one of whose failures is
\* confirmed, is observed, and no failure is earlier than its first one.
LEMMA HorizonIsFirst ==
  ASSUME NEW rs, NEW n \in Nat, DOMAIN rs = 1..n, NEW replay,
         FutureFails(rs) # {},
         NEW horizon, horizon = compute_breakage_frontier(TRUE, rs, TRUE, replay)
  PROVE  /\ horizon.observed /\ horizon.first_failing \in FutureFails(rs)
         /\ \A i \in FutureFails(rs) : horizon.first_failing <= i
<1> DEFINE first == FirstOf(FutureFails(rs))
<1>1. FutureFails(rs) \in SUBSET Nat /\ 0 \notin FutureFails(rs)
  BY DEF FutureFails
<1>2. first \in FutureFails(rs) /\ \A i \in FutureFails(rs) : first <= i
  BY <1>1, FirstOfLeast
<1>3. first # 0
  BY <1>1, <1>2
<1>4. horizon.observed = TRUE /\ horizon.first_failing = first
  BY <1>3 DEF compute_breakage_frontier
<1> QED
  BY <1>2, <1>4

\* A failure of an observed bundle is one of its horizon search.
LEMMA FailuresOf ==
  ASSUME NEW r \in Results, r[1] \in {"BaselinePass", "BaselineInvalid"},
         Having(r, "FutureFail") # {}
  PROVE  LET h == Frontier(r) IN
         /\ h.observed /\ h.first_failing \in Having(r, "FutureFail")
         /\ \A i \in Having(r, "FutureFail") : h.first_failing <= i
<1> DEFINE rs == [i \in DOMAIN r |-> [verdict |-> r[i], failure |-> NoFailure]]
<1>1. DOMAIN r = 1..Len(r) /\ Len(r) \in Nat /\ (r[1] # "BaselinePass" => Len(r) = 1)
  <2>1. r \in Seq(VerdictSet) /\ (r[1] # "BaselinePass" => Len(r) = 1)
    BY CompareAssumption
  <2>2. DOMAIN r = 1..Len(r) /\ Len(r) \in Nat
    BY <2>1
  <2> QED
    BY <2>1, <2>2
<1>2. \A i \in Having(r, "FutureFail") : i \in 1..Len(r) /\ i # 1
  BY <1>1 DEF Having
<1>3. r[1] = "BaselinePass"
  <2>1. PICK i : i \in Having(r, "FutureFail")
    OBVIOUS
  <2>2. i \in 1..Len(r) /\ i # 1
    BY <1>2, <2>1
  <2> QED
    BY <1>1, <2>2
<1>4. FutureFails(rs) = Having(r, "FutureFail")
  BY <1>1, <1>2 DEF FutureFails, Having
<1>5. DOMAIN rs = 1..Len(r)
  BY <1>1
<1>6. Frontier(r) = compute_breakage_frontier(TRUE, rs, TRUE, 0)
  BY <1>3 DEF Frontier
<1> HIDE DEF rs
<1> QED
  BY <1>1, <1>4, <1>5, <1>6, HorizonIsFirst

LEMMA GateKeepsHorizon ==
  ASSUME NEW base \in Results, NEW head \in Results, NEW rules,
         rules.new_future_failure, rules.horizon_regression,
         require_observed_gate_inputs(base), require_observed_gate_inputs(head),
         ~evaluate_policy_gate(base, head, rules),
         NEW i \in Having(head, "FutureFail")
  PROVE  \E j \in Having(base, "FutureFail") : j <= i
<1> DEFINE b == Frontier(base)
           h == Frontier(head)
<1>1. Having(base, "FutureFail") # {} /\ Having(head, "FutureFail") # {}
  BY DEF evaluate_policy_gate
<1>2. /\ base[1] \in {"BaselinePass", "BaselineInvalid"}
      /\ head[1] \in {"BaselinePass", "BaselineInvalid"}
  BY DEF require_observed_gate_inputs
<1>3. /\ b.observed /\ b.first_failing \in Having(base, "FutureFail")
      /\ h.observed /\ h.first_failing <= i
  BY <1>1, <1>2, FailuresOf
<1>4. compare_horizons(b, h) # "Regression"
  BY DEF evaluate_policy_gate
<1> HIDE DEF b, h
<1>5. b.first_failing = h.first_failing
  BY <1>3, <1>4 DEF compare_horizons
<1> QED
  BY <1>3, <1>5

\* An outcome never changes to "pass" but by a decision.
LEMMA PassesAreDecided ==
  ASSUME IInv, [Next]_vars, NEW p \in Procs, outcome'[p] = "pass", outcome[p] # "pass"
  PROVE  Decide(p)
<1>1. outcome \in [Procs -> {"none", "busy", "refused", "done", "pass", "fail", "died"}]
  BY DEF IInv, Types
<1>2. PICK q \in Procs :
        \/ Verify(q) \/ Acquire(q) \/ Load(q) \/ Decide(q) \/ Leave(q)
        \/ ReplayWrites(q) \/ ReplayEnds(q) \/ Crash(q)
  BY DEF Next, vars
<1>3. CASE Decide(q)
  BY <1>1, <1>3 DEF Decide, End
<1>4. CASE Verify(q) \/ Acquire(q) \/ Load(q)
  BY <1>1, <1>4 DEF Verify, Acquire, Load, Refuse, End
<1>5. CASE Leave(q) \/ ReplayWrites(q) \/ ReplayEnds(q) \/ Crash(q)
  BY <1>1, <1>5 DEF Leave, ReplayWrites, ReplayEnds, Crash, End
<1> QED
  BY <1>2, <1>3, <1>4, <1>5

LEMMA SealedStay == ASSUME [Next]_vars PROVE sealed' = sealed
BY DEF Next, vars, sealed, Verify, Acquire, Load, Decide, Leave, ReplayWrites, ReplayEnds,
       Crash, Refuse

\* A passing gate with the rules against new failures and regressions enabled
\* (evaluate_policy_gate) never hides a failure earlier than those of the base,
\* whatever the two bundles hold.
THEOREM GateCorrect == Spec => []PassingGateKeepsHorizon
<1>1. Init => PassingGateKeepsHorizon
  BY DEF Init, PassingGateKeepsHorizon
<1>2. IInv /\ PassingGateKeepsHorizon /\ [Next]_vars => PassingGateKeepsHorizon'
  <2> SUFFICES ASSUME IInv, PassingGateKeepsHorizon, [Next]_vars,
                      NEW p \in Procs, outcome'[p] = "pass",
                      policy'[command'[p].head].new_future_failure,
                      policy'[command'[p].head].horizon_regression,
                      NEW i \in Having(results'[command'[p].head], "FutureFail")
               PROVE  \E j \in Having(results'[command'[p].base], "FutureFail") : j <= i
    BY DEF PassingGateKeepsHorizon, Having
  <2>1. results' = results /\ policy' = policy /\ command' = command
    BY SealedStay DEF sealed
  <2>2. CASE outcome[p] = "pass"
    BY <2>1, <2>2 DEF PassingGateKeepsHorizon
  <2>3. CASE outcome[p] # "pass"
    <3>1. Decide(p)
      BY <2>3, PassesAreDecided
    <3>2. command[p].base \in Bundles /\ command[p].head \in Bundles
      BY CompareAssumption DEF IInv, Types
    <3>3. results[command[p].base] \in Results /\ results[command[p].head] \in Results
      BY <3>2 DEF IInv, Types
    <3>4. /\ require_observed_gate_inputs(results[command[p].base])
          /\ require_observed_gate_inputs(results[command[p].head])
          /\ ~evaluate_policy_gate(results[command[p].base], results[command[p].head],
                                   policy[command[p].head])
      BY <3>1 DEF Decide, End, IInv, Types
    <3> QED
      BY <2>1, <3>3, <3>4, GateKeepsHorizon
  <2> QED
    BY <2>2, <2>3
<1> QED
  BY <1>1, <1>2, Invariant, PTL DEF Spec
=============================================================================
