-------------------------- MODULE SharedMapProofs --------------------------
(***************************************************************************)
(* Proofs about SharedMap: its types; that a forced unlock lets nobody in  *)
(* beside another while one process at a time is about to do it, whoever   *)
(* is killed; and, when nobody is held up or killed, that one process at a *)
(* time is inside, that the table is always sound and that SharedMap       *)
(* implements AtomicMap.                                                   *)
(***************************************************************************)
EXTENDS SharedMap, FiniteSetTheorems, TLAPS

-----------------------------------------------------------------------------
(* Types                                                                   *)

\* The state of a process, with the words its next step may touch.
Sound(s) ==
    /\ s \in ProcState
    /\ s.pc \notin {"idle", "dead"} => s.key \in Keys
    /\ s.pc \in {"lock", "force", "probe", "wlen", "rlen"} => s.n = 1
    /\ s.pc = "wkey" => s.n <= KeyLen
    /\ s.pc \in {"wval", "rval"} => s.n <= ValLen

TypeInv ==
    /\ lock \in {0, 1}
    /\ memory \in [Entries -> Entry]
    /\ DOMAIN proc = Procs
    /\ proc = [p \in Procs |-> proc[p]]
    /\ \A p \in Procs : Sound(proc[p])

\* A process that is in a call looks at an entry of the table.
LEMMA IdxInTable ==
    ASSUME TypeInv, NEW p \in Procs, proc[p].pc \notin {"idle", "dead"}
    PROVE  Idx(p) \in Entries
<1>1. Hash[proc[p].key] \in 0 .. MaxEntries - 1 /\ proc[p].i \in 0 .. MaxEntries
  BY MapAssumption DEF TypeInv, Sound, ProcState
<1>2. MaxEntries \in Nat \ {0}
  BY MapAssumption
<1>3. QED
  BY <1>1, <1>2 DEF Idx, Entries

\* A step that moves one process to a sound state keeps the types.
LEMMA GotoSound ==
    ASSUME TypeInv, NEW p \in Procs, NEW s, Sound(s), Goto(p, s),
           lock' \in {0, 1}, memory' \in [Entries -> Entry]
    PROVE  TypeInv'
BY DEF TypeInv, Goto

\* The state in which a call begins or ends.
LEMMA CallSound ==
    ASSUME NEW place \in {"idle", "lock", "dead"}, NEW op \in {"set", "get"},
           NEW k \in Keys \cup {NoKey}, NEW v \in Words,
           place = "lock" => k \in Keys
    PROVE  Sound(Call(place, op, k, v))
<1>1. 1 \in 1 .. KeyLen + ValLen /\ 0 \in 0 .. MaxEntries
  BY MapAssumption
<1>2. Nothing \in [len : Words, val : [1 .. ValLen -> Words]]
  BY DEF Nothing, Words
<1>3. place \in Places
  BY DEF Places
<1>4. QED
  BY <1>1, <1>2, <1>3 DEF Call, Sound, ProcState

\* A process goes on to another place of the same call.
LEMMA MoveSound ==
    ASSUME NEW s \in ProcState, NEW place \in Places, s.key \in Keys,
           place \in {"lock", "force", "probe", "wlen", "rlen"} => s.n = 1,
           place = "wkey" => s.n <= KeyLen,
           place \in {"wval", "rval"} => s.n <= ValLen
    PROVE  Sound([s EXCEPT !.pc = place])
<1>1. [s EXCEPT !.pc = place].pc = place /\ [s EXCEPT !.pc = place].n = s.n
      /\ [s EXCEPT !.pc = place].key = s.key
  BY DEF ProcState
<1>2. [s EXCEPT !.pc = place] \in ProcState
  BY DEF ProcState
<1>3. QED
  BY <1>1, <1>2 DEF Sound

\* Writing one field of an entry leaves the table well-typed.
LEMMA WriteField ==
    ASSUME NEW m \in [Entries -> Entry], NEW e \in Entries
    PROVE  /\ [m EXCEPT ![e].status = 1] \in [Entries -> Entry]
           /\ \A v \in Words : [m EXCEPT ![e].len = v] \in [Entries -> Entry]
           /\ \A n \in 1 .. KeyLen, w \in Nat :
                 [m EXCEPT ![e].key[n] = w] \in [Entries -> Entry]
           /\ \A n \in 1 .. ValLen, v \in Words :
                 [m EXCEPT ![e].val[n] = v] \in [Entries -> Entry]
<1>1. m[e] \in Entry
  OBVIOUS
<1>2. \A x \in Entry : [m EXCEPT ![e] = x] \in [Entries -> Entry]
  OBVIOUS
<1>3. [m[e] EXCEPT !.status = 1] \in Entry
  BY <1>1 DEF Entry
<1>4. \A v \in Words : [m[e] EXCEPT !.len = v] \in Entry
  BY <1>1 DEF Entry
<1>5. ASSUME NEW n \in 1 .. KeyLen, NEW w \in Nat
      PROVE  [m EXCEPT ![e].key[n] = w] \in [Entries -> Entry]
  <2> DEFINE f == [m[e].key EXCEPT ![n] = w]
  <2>1. f \in [1 .. KeyLen -> Nat]
    BY <1>1 DEF Entry
  <2> HIDE DEF f
  <2>2. [m[e] EXCEPT !.key = f] \in Entry
    BY <1>1, <2>1 DEF Entry
  <2>3. [m EXCEPT ![e].key[n] = w] = [m EXCEPT ![e] = [m[e] EXCEPT !.key = f]]
    BY DEF f
  <2>4. QED
    BY <1>2, <2>2, <2>3
<1>6. ASSUME NEW n \in 1 .. ValLen, NEW v \in Words
      PROVE  [m EXCEPT ![e].val[n] = v] \in [Entries -> Entry]
  <2> DEFINE f == [m[e].val EXCEPT ![n] = v]
  <2>1. f \in [1 .. ValLen -> Words]
    BY <1>1 DEF Entry
  <2> HIDE DEF f
  <2>2. [m[e] EXCEPT !.val = f] \in Entry
    BY <1>1, <2>1 DEF Entry
  <2>3. [m EXCEPT ![e].val[n] = v] = [m EXCEPT ![e] = [m[e] EXCEPT !.val = f]]
    BY DEF f
  <2>4. QED
    BY <1>2, <2>2, <2>3
<1>7. QED
  BY <1>2, <1>3, <1>4, <1>5, <1>6

\* What the state of a process in a call is made of.
LEMMA SoundFields ==
    ASSUME TypeInv, NEW p \in Procs
    PROVE  /\ proc[p] \in ProcState
           /\ proc[p].i \in 0 .. MaxEntries
           /\ proc[p].n \in 1 .. KeyLen + ValLen
           /\ proc[p].val \in Words
           /\ proc[p].got.val \in [1 .. ValLen -> Words]
BY DEF TypeInv, Sound, ProcState

LEMMA TypeStep == TypeInv /\ [Next]_vars => TypeInv'
<1> SUFFICES ASSUME TypeInv, [Next]_vars PROVE TypeInv'
  OBVIOUS
<1> USE DEF Inside, Places
<1>1. CASE UNCHANGED vars
  BY <1>1 DEF TypeInv, vars
<1>2. ASSUME NEW p \in Procs,
             Begin(p) \/ Acquire(p) \/ GiveUp(p) \/ ForceUnlock(p) \/ Unlock(p) \/ Crash(p)
      PROVE  TypeInv'
  <2>1. ASSUME Begin(p) PROVE TypeInv'
    <3>1. PICK k \in Keys, op \in {"set", "get"}, v \in Words : Goto(p, Call("lock", op, k, v))
      BY <2>1 DEF Begin, Words
    <3>2. QED
      BY <2>1, <3>1, CallSound, GotoSound DEF Begin, TypeInv
  <2>2. ASSUME Acquire(p) \/ GiveUp(p) \/ ForceUnlock(p) PROVE TypeInv'
    <3>1. PICK place \in {"probe", "force", "lock"} : Goto(p, [proc[p] EXCEPT !.pc = place])
      BY <2>2 DEF Acquire, GiveUp, ForceUnlock
    <3>2. proc[p].pc \in {"lock", "force"} /\ lock' \in {0, 1} /\ memory' = memory
      BY <2>2 DEF Acquire, GiveUp, ForceUnlock, At, TypeInv
    <3>3. proc[p] \in ProcState /\ proc[p].key \in Keys /\ proc[p].n = 1
      BY <3>2 DEF TypeInv, Sound
    <3>4. Sound([proc[p] EXCEPT !.pc = place])
      BY <3>3, MoveSound
    <3>5. QED
      BY <3>1, <3>2, <3>4, GotoSound DEF TypeInv
  <2>3. ASSUME Unlock(p) PROVE TypeInv'
    <3>1. Sound(Idle)
      BY CallSound DEF Idle, Words
    <3>2. QED
      BY <2>3, <3>1, GotoSound DEF Unlock, TypeInv
  <2>4. ASSUME Crash(p) PROVE TypeInv'
    <3>1. Sound(Dead)
      BY CallSound DEF Dead, Words
    <3>2. QED
      BY <2>4, <3>1, GotoSound DEF Crash, TypeInv
  <2>5. QED
    BY <1>2, <2>1, <2>2, <2>3, <2>4
<1>3. ASSUME NEW p \in Procs, Probe(p) PROVE TypeInv'
  <2>1. At(p, "probe") /\ lock' = lock /\ Idx(p) \in Entries
    BY <1>3, IdxInTable DEF Probe, ProbeEmpty, ProbeMatch, ProbeOther, ProbeFull, Probing, At
  <2>2. memory' \in [Entries -> Entry]
    BY <1>3, <2>1, WriteField
       DEF Probe, ProbeEmpty, ProbeMatch, ProbeOther, ProbeFull, TypeInv
  <2>3. PICK s : Goto(p, s) /\ Sound(s)
    <3>1. /\ proc[p] \in ProcState /\ proc[p].key \in Keys /\ proc[p].n = 1
          /\ proc[p].i \in 0 .. MaxEntries /\ MaxEntries \in Nat
          /\ 1 <= KeyLen /\ 1 <= ValLen
      BY <2>1, MapAssumption DEF TypeInv, Sound, At, ProcState
    <3>2. ASSUME NEW place \in {"wlen", "rlen", "unlock"}, NEW b \in BOOLEAN,
                 NEW ret \in {"ok", "full", "hit", "miss"}
          PROVE  /\ Sound([proc[p] EXCEPT !.pc = place])
                 /\ Sound([proc[p] EXCEPT !.pc = place, !.ret = ret])
                 /\ Sound([proc[p] EXCEPT !.pc = place, !.new = b])
      BY <3>1 DEF Sound, ProcState
    <3>3. proc[p].i < MaxEntries => Sound([proc[p] EXCEPT !.i = @ + 1])
      <4> DEFINE j == proc[p].i + 1
      <4>1. proc[p].i < MaxEntries => j \in 0 .. MaxEntries
        BY <3>1
      <4> HIDE DEF j
      <4>2. proc[p].i < MaxEntries => Sound([proc[p] EXCEPT !.i = j])
        BY <3>1, <4>1, <2>1 DEF Sound, ProcState, At
      <4>3. QED
        BY <4>2 DEF j
    <3>4. QED
      BY <1>3, <3>2, <3>3 DEF Probe, ProbeEmpty, ProbeMatch, ProbeOther, ProbeFull, Probing
  <2>4. QED
    BY <2>1, <2>2, <2>3, GotoSound DEF TypeInv
<1>4. ASSUME NEW p \in Procs, Copy(p) PROVE TypeInv'
  <2>1. lock' = lock /\ Idx(p) \in Entries
    BY <1>4, IdxInTable DEF Copy, WriteLen, WriteKey, WriteVal, ReadLen, ReadVal, At
  <2>2. /\ proc[p] \in ProcState /\ proc[p].key \in Keys /\ proc[p].val \in Words
        /\ proc[p].n \in 1 .. KeyLen + ValLen
        /\ KeyLen \in Nat \ {0} /\ ValLen \in Nat \ {0}
        /\ memory[Idx(p)] \in Entry
    BY <1>4, <2>1, MapAssumption
       DEF TypeInv, Sound, At, ProcState, Copy, WriteLen, WriteKey, WriteVal, ReadLen, ReadVal
  <2>3. ASSUME WriteLen(p) PROVE TypeInv'
    <3>1. Sound([proc[p] EXCEPT !.pc = IF proc[p].new THEN "wkey" ELSE "wval"])
      <4>1. proc[p].n = 1 /\ 1 <= KeyLen /\ 1 <= ValLen
        BY <2>2, <2>3 DEF WriteLen, At, TypeInv, Sound
      <4>2. Sound([proc[p] EXCEPT !.pc = "wkey"]) /\ Sound([proc[p] EXCEPT !.pc = "wval"])
        BY <2>2, <4>1, MoveSound
      <4>3. QED
        BY <4>2
    <3>2. memory' \in [Entries -> Entry]
      BY <2>1, <2>2, <2>3, WriteField DEF WriteLen, TypeInv
    <3>3. QED
      BY <2>1, <2>3, <3>1, <3>2, GotoSound DEF WriteLen, TypeInv
  <2>4. ASSUME WriteKey(p) PROVE TypeInv'
    <3>1. proc[p].n \in 1 .. KeyLen /\ proc[p].key[proc[p].n] \in Nat
      BY <2>2, <2>4, MapAssumption DEF WriteKey, At, TypeInv, Sound
    <3>2. memory' \in [Entries -> Entry]
      BY <2>1, <2>2, <2>4, <3>1, WriteField DEF WriteKey, TypeInv
    <3>3. PICK place \in {"wkey", "wval"}, n \in 1 .. KeyLen :
              /\ Goto(p, [proc[p] EXCEPT !.pc = place, !.n = n])
              /\ place = "wval" => n = 1
      <4>1. CASE proc[p].n < KeyLen
        <5>1. proc[p].n + 1 \in 1 .. KeyLen
          BY <3>1, <4>1, <2>2
        <5>2. Goto(p, [proc[p] EXCEPT !.pc = "wkey", !.n = proc[p].n + 1])
          BY <2>4, <4>1, <2>2 DEF WriteKey, At, ProcState
        <5>3. QED
          BY <5>1, <5>2
      <4>2. CASE ~(proc[p].n < KeyLen)
        <5>1. Goto(p, [proc[p] EXCEPT !.pc = "wval", !.n = 1])
          BY <2>4, <4>2 DEF WriteKey
        <5>2. 1 \in 1 .. KeyLen
          BY <2>2
        <5>3. QED
          BY <5>1, <5>2
      <4>3. QED
        BY <4>1, <4>2
    <3>4. Sound([proc[p] EXCEPT !.pc = place, !.n = n])
      <4>1. n \in 1 .. KeyLen + ValLen /\ n <= KeyLen /\ (place = "wval" => n <= ValLen)
        BY <2>2, <3>3
      <4>2. QED
        BY <4>1, <2>2 DEF Sound, ProcState
    <3>5. QED
      BY <2>1, <3>2, <3>3, <3>4, GotoSound DEF TypeInv
  <2>5. ASSUME WriteVal(p) PROVE TypeInv'
    <3>1. proc[p].n \in 1 .. ValLen
      BY <2>2, <2>5 DEF WriteVal, At, TypeInv, Sound
    <3>2. memory' \in [Entries -> Entry]
      BY <2>1, <2>2, <2>5, <3>1, WriteField DEF WriteVal, TypeInv
    <3>3. PICK place \in {"wval", "unlock"}, n \in 1 .. ValLen :
              Goto(p, [proc[p] EXCEPT !.pc = place, !.n = n])
      <4>1. CASE proc[p].n < ValLen
        <5>1. proc[p].n + 1 \in 1 .. ValLen
          BY <3>1, <4>1, <2>2
        <5>2. Goto(p, [proc[p] EXCEPT !.pc = "wval", !.n = proc[p].n + 1])
          BY <2>5, <4>1, <2>2 DEF WriteVal, At, ProcState
        <5>3. QED
          BY <5>1, <5>2
      <4>2. CASE ~(proc[p].n < ValLen)
        <5>1. Goto(p, [proc[p] EXCEPT !.pc = "unlock", !.n = proc[p].n])
          BY <2>5, <4>2, <2>2 DEF WriteVal, ProcState
        <5>2. QED
          BY <5>1, <3>1
      <4>3. QED
        BY <4>1, <4>2
    <3>4. Sound([proc[p] EXCEPT !.pc = place, !.n = n])
      <4>1. n \in 1 .. KeyLen + ValLen /\ n <= ValLen
        BY <2>2, <3>3
      <4>2. QED
        BY <4>1, <2>2 DEF Sound, ProcState
    <3>5. QED
      BY <2>1, <3>2, <3>3, <3>4, GotoSound DEF TypeInv
  <2>6. ASSUME ReadLen(p) PROVE TypeInv'
    <3> DEFINE g == [proc[p].got EXCEPT !.len = memory[Idx(p)].len]
               s == [proc[p] EXCEPT !.pc = "rval", !.got = g]
    <3>1. g \in [len : Words, val : [1 .. ValLen -> Words]]
      BY <2>2 DEF ProcState, Entry
    <3>2. Goto(p, s) /\ At(p, "rlen") /\ memory' = memory
      BY <2>6, <2>2 DEF ReadLen, ProcState
    <3>3. proc[p].n = 1
      BY <3>2 DEF TypeInv, Sound, At
    <3> HIDE DEF g
    <3>4. Sound(s)
      <4>1. s \in ProcState /\ s.pc = "rval" /\ s.n = 1 /\ s.key = proc[p].key
        BY <2>2, <3>1, <3>3 DEF ProcState
      <4>2. QED
        BY <4>1, <2>2 DEF Sound
    <3>5. QED
      BY <2>1, <3>2, <3>4, GotoSound DEF TypeInv
  <2>7. ASSUME ReadVal(p) PROVE TypeInv'
    <3> DEFINE f == [proc[p].got.val EXCEPT ![proc[p].n] = memory[Idx(p)].val[proc[p].n]]
               g == [proc[p].got EXCEPT !.val = f]
               s == [proc[p] EXCEPT !.got = g]
    <3>1. proc[p].n \in 1 .. ValLen /\ proc[p].pc = "rval"
      BY <2>2, <2>7 DEF ReadVal, At, TypeInv, Sound
    <3>2. f \in [1 .. ValLen -> Words]
      BY <2>2, <3>1 DEF ProcState, Entry
    <3> HIDE DEF f
    <3>3. g \in [len : Words, val : [1 .. ValLen -> Words]]
      BY <2>2, <3>2 DEF ProcState
    <3>4. [proc[p] EXCEPT !.got.val[proc[p].n] = memory[Idx(p)].val[proc[p].n]] = s
      BY DEF f
    <3> HIDE DEF g
    <3>5. s \in ProcState /\ s.n = proc[p].n /\ s.pc = "rval" /\ s.key = proc[p].key
      BY <2>2, <3>1, <3>3 DEF ProcState
    <3>6. \/ proc[p].n < ValLen /\ Goto(p, [s EXCEPT !.n = @ + 1])
          \/ Goto(p, [s EXCEPT !.pc = "unlock"])
      BY <2>7, <3>4, <3>5 DEF ReadVal
    <3> HIDE DEF s
    <3>7. proc[p].n < ValLen => Sound([s EXCEPT !.n = @ + 1])
      <4> DEFINE n == s.n + 1
      <4>1. proc[p].n < ValLen => n \in 1 .. KeyLen + ValLen /\ n <= ValLen
        BY <2>2, <3>1, <3>5
      <4> HIDE DEF n
      <4>2. proc[p].n < ValLen => Sound([s EXCEPT !.n = n])
        BY <2>2, <3>5, <4>1 DEF Sound, ProcState
      <4>3. QED
        BY <4>2 DEF n
    <3>8. Sound([s EXCEPT !.pc = "unlock"])
      BY <2>2, <3>5 DEF Sound, ProcState
    <3>9. QED
      BY <2>1, <2>7, <3>6, <3>7, <3>8, GotoSound DEF TypeInv, ReadVal
  <2>8. QED
    BY <1>4, <2>3, <2>4, <2>5, <2>6, <2>7 DEF Copy
<1>5. QED
  BY <1>1, <1>2, <1>3, <1>4 DEF Next

LEMMA TypeInit == Init => TypeInv
<1> SUFFICES ASSUME Init PROVE TypeInv
  OBVIOUS
<1>1. Sound(Idle)
  BY CallSound DEF Idle, Words
<1>2. EmptyEntry \in Entry
  BY DEF EmptyEntry, Entry, Words
<1>3. QED
  BY <1>1, <1>2 DEF Init, TypeInv

\* The lock, the table and every process keep their types, with any number of
\* processes, keys and words, whoever is slow or killed.
THEOREM TypeCorrect == Spec => []TypeOK
<1>1. TypeInv => TypeOK
  BY DEF TypeInv, TypeOK, Sound
<1>2. QED
  BY TypeInit, TypeStep, <1>1, PTL DEF Spec

-----------------------------------------------------------------------------
(* Mutual exclusion                                                        *)

\* Nobody is held up inside the lock until another one has spun to the limit.
Prompt == "slow" \notin Behaviours

\* Nobody is held up inside the lock and nobody is killed: a process that dies
\* between two words leaves an entry no lookup can rely on.
Undisturbed == Behaviours = {}

In(p) == proc[p].pc \in Inside

\* The lock is held when somebody is inside.  Who is about to force it open
\* still finds it held, by nobody; where nobody dies this does not happen.
LockInv ==
    /\ MutualExclusion
    /\ (\E p \in Procs : In(p)) => lock = 1
    /\ \A p \in Procs : At(p, "force") => lock = 1 /\ \A q \in Procs : ~In(q)
    /\ Undisturbed => /\ lock = 1 => \E p \in Procs : In(p)
                      /\ \A p \in Procs : ~At(p, "force")

\* A step of p that keeps it on its side of the lock and the lock as it is.
LEMMA StayLock ==
    ASSUME TypeInv, LockInv, NEW p \in Procs, NEW s, Goto(p, s), lock' = lock,
           s.pc \in Inside <=> In(p), s.pc # "force"
    PROVE  LockInv'
<1>1. \A q \in Procs : In(q)' <=> In(q)
  BY DEF In, Goto, TypeInv
<1>2. \A q \in Procs : At(q, "force")' => At(q, "force")
  BY DEF At, Goto, TypeInv
<1>3. MutualExclusion'
  BY <1>1 DEF LockInv, MutualExclusion, In
<1>4. QED
  BY <1>1, <1>2, <1>3 DEF LockInv, Undisturbed

LEMMA LockStep ==
    ASSUME Prompt, TypeInv, LockInv, OneForces, [Next]_vars
    PROVE  LockInv'
<1>1. CASE UNCHANGED vars
  BY <1>1 DEF LockInv, MutualExclusion, In, At, vars, Undisturbed
<1>2. ASSUME NEW p \in Procs, Begin(p) PROVE LockInv'
  <2>1. PICK k \in Keys, op \in {"set", "get"}, v \in Words : Goto(p, Call("lock", op, k, v))
    BY <1>2 DEF Begin, Words
  <2>2. Call("lock", op, k, v).pc = "lock" /\ lock' = lock /\ proc[p].pc = "idle"
    BY <1>2 DEF Call, Begin, At
  <2>3. QED
    BY <2>1, <2>2, StayLock DEF In, Inside
<1>3. ASSUME NEW p \in Procs, Acquire(p) PROVE LockInv'
  <2>1. /\ lock' = 1
        /\ \A q \in Procs : ~In(q) /\ ~At(q, "force")
    BY <1>3 DEF Acquire, LockInv
  <2>2. In(p)' /\ \A q \in Procs \ {p} : proc'[q] = proc[q]
    BY <1>3 DEF Acquire, Goto, In, Inside, TypeInv, Sound, ProcState
  <2>3. \A q \in Procs : In(q)' => q = p
    BY <2>1, <2>2 DEF In
  <2>4. MutualExclusion'
    BY <2>3 DEF MutualExclusion, In
  <2>5. \A q \in Procs : ~At(q, "force")'
    BY <2>1, <2>2 DEF At, In, Inside
  <2>6. QED
    BY <2>1, <2>2, <2>4, <2>5 DEF LockInv, Undisturbed
<1>4. ASSUME NEW p \in Procs, GiveUp(p) PROVE LockInv'
  <2>1. lock' = 1 /\ lock = 1 /\ proc[p].pc = "lock" /\ \A q \in Procs : ~In(q)
    BY <1>4 DEF GiveUp, Overdue, Prompt, In, At
  <2>2. ~Undisturbed
    BY <2>1 DEF LockInv
  <2>3. proc'[p].pc = "force" /\ \A q \in Procs \ {p} : proc'[q] = proc[q]
    BY <1>4 DEF GiveUp, Goto, TypeInv, Sound, ProcState
  <2>4. \A q \in Procs : ~In(q)'
    BY <2>1, <2>3 DEF In, Inside
  <2>5. MutualExclusion'
    BY <2>4 DEF MutualExclusion, In
  <2>6. QED
    BY <2>1, <2>2, <2>4, <2>5 DEF LockInv, Undisturbed
<1>5. ASSUME NEW p \in Procs, ForceUnlock(p) PROVE LockInv'
  <2>1. /\ lock' = 0 /\ At(p, "force")
        /\ \A q \in Procs \ {p} : proc'[q] = proc[q]
    BY <1>5 DEF ForceUnlock, Goto, TypeInv
  <2>2. proc'[p].pc = "lock"
    BY <1>5 DEF ForceUnlock, Goto, TypeInv, Sound, ProcState
  <2>3. \A q \in Procs : ~In(q)
    BY <2>1 DEF LockInv
  <2>4. \A q \in Procs \ {p} : ~At(q, "force")
    BY <2>1 DEF OneForces
  <2>5. \A q \in Procs : ~In(q)' /\ ~At(q, "force")'
    BY <2>1, <2>2, <2>3, <2>4 DEF In, At, Inside
  <2>6. MutualExclusion'
    BY <2>5 DEF MutualExclusion, In
  <2>7. QED
    BY <2>1, <2>5, <2>6 DEF LockInv, Undisturbed
<1>6. ASSUME NEW p \in Procs, Unlock(p) PROVE LockInv'
  <2>1. lock' = 0 /\ In(p) /\ \A q \in Procs \ {p} : proc'[q] = proc[q]
    BY <1>6 DEF Unlock, Goto, TypeInv, In, At, Inside
  <2>2. proc'[p].pc = "idle"
    BY <1>6 DEF Unlock, Goto, TypeInv, Idle, Call
  <2>3. \A q \in Procs : ~In(q)'
    BY <2>1, <2>2 DEF In, Inside, LockInv, MutualExclusion
  <2>4. \A q \in Procs : ~At(q, "force")
    BY <2>1 DEF LockInv
  <2>5. \A q \in Procs : ~At(q, "force")'
    BY <2>1, <2>2, <2>4 DEF At
  <2>6. MutualExclusion'
    BY <2>3 DEF MutualExclusion, In
  <2>7. QED
    BY <2>1, <2>3, <2>5, <2>6 DEF LockInv, Undisturbed
<1>7. ASSUME NEW p \in Procs, Crash(p) PROVE LockInv'
  <2>1. /\ lock' = lock /\ ~Undisturbed /\ proc'[p].pc = "dead"
        /\ \A q \in Procs \ {p} : proc'[q] = proc[q]
    BY <1>7 DEF Crash, Goto, TypeInv, Dead, Call, Undisturbed
  <2>2. \A q \in Procs : /\ In(q)' => In(q)
                         /\ At(q, "force")' => At(q, "force")
    BY <2>1 DEF In, At, Inside
  <2>3. MutualExclusion'
    BY <2>2 DEF LockInv, MutualExclusion, In
  <2>4. QED
    BY <2>1, <2>2, <2>3 DEF LockInv, Undisturbed
<1>8. ASSUME NEW p \in Procs, Probe(p) PROVE LockInv'
  <2>1. PICK s : Goto(p, s) /\ s.pc \in {"unlock", "wlen", "rlen", "probe"}
    <3>1. proc[p] \in ProcState /\ proc[p].pc = "probe"
      BY <1>8, SoundFields DEF Probe, ProbeEmpty, ProbeMatch, ProbeOther, ProbeFull, Probing, At
    <3>2. ASSUME ProbeEmpty(p)
          PROVE  \E s : Goto(p, s) /\ s.pc \in {"unlock", "wlen"}
      <4>1. /\ [proc[p] EXCEPT !.pc = "unlock", !.ret = "miss"].pc = "unlock"
            /\ [proc[p] EXCEPT !.pc = "wlen", !.new = TRUE].pc = "wlen"
        BY <3>1 DEF ProcState
      <4>2. QED
        BY <3>2, <4>1 DEF ProbeEmpty
    <3>3. ASSUME ProbeMatch(p)
          PROVE  \E s : Goto(p, s) /\ s.pc \in {"rlen", "wlen"}
      <4>1. /\ [proc[p] EXCEPT !.pc = "rlen", !.ret = "hit"].pc = "rlen"
            /\ [proc[p] EXCEPT !.pc = "wlen"].pc = "wlen"
        BY <3>1 DEF ProcState
      <4>2. QED
        BY <3>3, <4>1 DEF ProbeMatch
    <3>4. ASSUME ProbeOther(p)
          PROVE  \E s : Goto(p, s) /\ s.pc = "probe"
      <4>1. [proc[p] EXCEPT !.i = @ + 1].pc = "probe"
        BY <3>1 DEF ProcState
      <4>2. QED
        BY <3>4, <4>1 DEF ProbeOther
    <3>5. ASSUME ProbeFull(p)
          PROVE  \E s : Goto(p, s) /\ s.pc = "unlock"
      <4> DEFINE ret == IF proc[p].op = "get" THEN "miss" ELSE "full"
      <4>1. [proc[p] EXCEPT !.pc = "unlock", !.ret = ret].pc = "unlock"
        BY <3>1 DEF ProcState
      <4>2. Goto(p, [proc[p] EXCEPT !.pc = "unlock", !.ret = ret])
        BY <3>5 DEF ProbeFull
      <4> HIDE DEF ret
      <4>3. QED
        BY <4>1, <4>2
    <3>6. QED
      BY <1>8, <3>2, <3>3, <3>4, <3>5 DEF Probe
  <2>2. lock' = lock /\ At(p, "probe")
    BY <1>8 DEF Probe, ProbeEmpty, ProbeMatch, ProbeOther, ProbeFull, Probing
  <2>3. QED
    BY <2>1, <2>2, StayLock DEF In, At, Inside
<1>9. ASSUME NEW p \in Procs, Copy(p) PROVE LockInv'
  <2>1. lock' = lock /\ In(p)
    BY <1>9 DEF Copy, WriteLen, WriteKey, WriteVal, ReadLen, ReadVal, In, At, Inside
  <2>2. PICK s : Goto(p, s) /\ s.pc \in {"wkey", "wval", "rval", "unlock"}
    <3>1. proc[p] \in ProcState
      BY SoundFields
    <3>2. ASSUME WriteLen(p)
          PROVE  \E s : Goto(p, s) /\ s.pc \in {"wkey", "wval"}
      <4> DEFINE place == IF proc[p].new THEN "wkey" ELSE "wval"
      <4>1. [proc[p] EXCEPT !.pc = place].pc = place
        BY <3>1 DEF ProcState
      <4>2. QED
        BY <3>2, <4>1 DEF WriteLen
    <3>3. ASSUME WriteKey(p)
          PROVE  \E s : Goto(p, s) /\ s.pc \in {"wkey", "wval"}
      <4>1. /\ [proc[p] EXCEPT !.n = @ + 1].pc = proc[p].pc
            /\ [proc[p] EXCEPT !.pc = "wval", !.n = 1].pc = "wval"
        BY <3>1 DEF ProcState
      <4>2. CASE proc[p].n < KeyLen
        BY <3>3, <4>1, <4>2 DEF WriteKey, At
      <4>3. CASE ~(proc[p].n < KeyLen)
        BY <3>3, <4>1, <4>3 DEF WriteKey
      <4>4. QED
        BY <4>2, <4>3
    <3>4. ASSUME WriteVal(p)
          PROVE  \E s : Goto(p, s) /\ s.pc \in {"wval", "unlock"}
      <4>1. /\ [proc[p] EXCEPT !.n = @ + 1].pc = proc[p].pc
            /\ [proc[p] EXCEPT !.pc = "unlock"].pc = "unlock"
        BY <3>1 DEF ProcState
      <4>2. CASE proc[p].n < ValLen
        BY <3>4, <4>1, <4>2 DEF WriteVal, At
      <4>3. CASE ~(proc[p].n < ValLen)
        BY <3>4, <4>1, <4>3 DEF WriteVal
      <4>4. QED
        BY <4>2, <4>3
    <3>5. ASSUME ReadLen(p)
          PROVE  \E s : Goto(p, s) /\ s.pc = "rval"
      <4>1. [proc[p] EXCEPT !.pc = "rval", !.got.len = memory[Idx(p)].len].pc = "rval"
        BY <3>1 DEF ProcState
      <4>2. QED
        BY <3>5, <4>1 DEF ReadLen
    <3>6. ASSUME ReadVal(p)
          PROVE  \E s : Goto(p, s) /\ s.pc \in {"rval", "unlock"}
      <4> DEFINE t == [proc[p] EXCEPT !.got.val[proc[p].n] = memory[Idx(p)].val[proc[p].n]]
      <4>1. /\ t.pc = proc[p].pc
            /\ [t EXCEPT !.n = @ + 1].pc = t.pc
            /\ [t EXCEPT !.pc = "unlock"].pc = "unlock"
        BY <3>1 DEF ProcState
      <4>2. Goto(p, [t EXCEPT !.n = @ + 1]) \/ Goto(p, [t EXCEPT !.pc = "unlock"])
        BY <3>6 DEF ReadVal
      <4>3. QED
        BY <3>6, <4>1, <4>2 DEF ReadVal, At
    <3>7. QED
      BY <1>9, <3>2, <3>3, <3>4, <3>5, <3>6 DEF Copy
  <2>3. QED
    BY <2>1, <2>2, StayLock DEF In, At, Inside
<1>10. QED
  BY <1>1, <1>2, <1>3, <1>4, <1>5, <1>6, <1>7, <1>8, <1>9 DEF Next

LEMMA LockInit == Init => LockInv
BY DEF Init, LockInv, MutualExclusion, In, At, Inside, Idle, Call, Undisturbed

\* As long as one process at a time is about to force the lock open, one at a
\* time is inside: with any number of processes, whoever is killed and wherever,
\* if none is held up inside until another one has spun to the limit.
THEOREM LockIsExclusive ==
    ASSUME Prompt PROVE Spec => ForcedAlone
<1>1. TypeInv /\ LockInv /\ OneForces /\ [Next]_vars => LockInv'
  BY LockStep
<1>2. LockInv => MutualExclusion
  BY DEF LockInv
<1>3. QED
  BY TypeInit, TypeStep, LockInit, <1>1, <1>2, PTL DEF Spec, ForcedAlone

\* Where nobody is held up or killed, nobody ever forces the lock open, and one
\* process at a time is inside, without a condition on the waiting ones.
LEMMA NeverForced ==
    ASSUME Undisturbed, TypeInv, LockInv, [Next]_vars
    PROVE  LockInv'
<1>1. OneForces
  BY DEF LockInv, OneForces
<1>2. Prompt
  BY DEF Undisturbed, Prompt
<1>3. QED
  BY <1>1, <1>2, LockStep

THEOREM UndisturbedLock ==
    ASSUME Undisturbed PROVE Spec => []MutualExclusion
<1>1. TypeInv /\ LockInv /\ [Next]_vars => LockInv'
  BY NeverForced
<1>2. LockInv => MutualExclusion
  BY DEF LockInv
<1>3. QED
  BY TypeInit, TypeStep, LockInit, <1>1, <1>2, PTL DEF Spec

-----------------------------------------------------------------------------
(* The table                                                               *)

\* the entry that a lookup of k looks at when it has passed i others
Slot(k, i) == (Hash[k] + i) % MaxEntries

\* p is filling an entry that was empty
Filling(p, e) == Writing(p) /\ proc[p].new /\ Idx(p) = e

\* e is the entry of some key, and of which one
Taken(e) == memory[e].status = 1 /\ \A p \in Procs : ~Filling(p, e)
Bears(e, k) == Taken(e) /\ memory[e].key = k

\* A key has one entry, which a lookup reaches, and the entry holds a value,
\* all of it unless an update is under way.
Fit(e) ==
    Taken(e) =>
        /\ memory[e].key \in Keys /\ memory[e].len \in Values
        /\ \A d \in Before(memory[e].key, e) : Taken(d)
        /\ \A d \in Entries \ {e} : ~Bears(d, memory[e].key)
        /\ \/ \A n \in 1 .. ValLen : memory[e].val[n] = memory[e].len
           \/ \E p \in Procs : Writing(p) /\ Idx(p) = e

Table == \A e \in Entries : Fit(e)

\* What a call is like that has not got in, or is still probing.
Young(s) ==
    /\ s.pc \in {"lock", "force"} => s.i = 0
    /\ s.pc \in {"lock", "force", "probe"} => s.ret = "ok" /\ ~s.new
    /\ s.pc \in {"lock", "force", "probe"} /\ s.op = "set" => s.val \in Values

\* The entries that p has passed belong to other keys.
Passed(p) ==
    In(p) /\ ~At(p, "unlock") =>
        \A j \in 0 .. proc[p].i - 1 :
            /\ Taken(Slot(proc[p].key, j))
            /\ memory[Slot(proc[p].key, j)].key # proc[p].key

\* A writer has an entry for itself, and has copied the words before n.
Copies(p) ==
    LET s == proc[p]
        m == memory[Idx(p)]
    IN  Writing(p) =>
          /\ s.ret = "ok" /\ s.val \in Values /\ s.i < MaxEntries /\ m.status = 1
          /\ s.new => \A e \in Entries : ~Bears(e, s.key)
          /\ ~s.new => s.pc # "wkey" /\ m.key = s.key
          /\ s.pc # "wlen" => m.len = s.val
          /\ s.pc = "wkey" => \A j \in 1 .. s.n - 1 : m.key[j] = s.key[j]
          /\ s.pc = "wval" => m.key = s.key /\ \A j \in 1 .. s.n - 1 : m.val[j] = s.val

\* A reader is at the entry of its key, and has copied the words before n.
Reads(p) ==
    LET s == proc[p]
        m == memory[Idx(p)]
    IN  s.pc \in {"rlen", "rval"} =>
          /\ s.ret = "hit" /\ Bears(Idx(p), s.key)
          /\ s.pc = "rval" => /\ s.got.len = m.len
                              /\ \A j \in 1 .. s.n - 1 : s.got.val[j] = m.val[j]

TableInv ==
    /\ Table
    /\ \A p \in Procs : Young(proc[p]) /\ Passed(p) /\ Copies(p) /\ Reads(p)

\* p goes on, nobody else does.
LEMMA OnlyMover ==
    ASSUME TypeInv, NEW p \in Procs, NEW s, Goto(p, s)
    PROVE  proc'[p] = s /\ \A q \in Procs \ {p} : proc'[q] = proc[q]
BY DEF TypeInv, Goto

\* Who is inside is alone there.
LEMMA Alone ==
    ASSUME LockInv, NEW p \in Procs, NEW q \in Procs, In(p), In(q)
    PROVE  p = q
BY DEF LockInv, MutualExclusion, In

LEMMA SlotInTable == \A k \in Keys, i \in Nat : Slot(k, i) \in Entries
<1> SUFFICES ASSUME NEW k \in Keys, NEW i \in Nat PROVE Slot(k, i) \in Entries
  OBVIOUS
<1>1. Hash[k] \in Nat /\ MaxEntries \in Nat \ {0}
  BY MapAssumption
<1>2. QED
  BY <1>1 DEF Slot, Entries

LEMMA BeforeInTable == \A k \in Keys : \A e, d : d \in Before(k, e) => d \in Entries
<1> SUFFICES ASSUME NEW k \in Keys, NEW e, NEW d \in Before(k, e) PROVE d \in Entries
  OBVIOUS
<1>1. PICK i \in Entries : d = Slot(k, i)
  BY DEF Before, Slot
<1>2. i \in Nat
  BY MapAssumption DEF Entries
<1>3. QED
  BY <1>1, <1>2, SlotInTable

\* Every entry is on the way of every lookup.
LEMMA SlotReaches ==
    ASSUME NEW k \in Keys, NEW e \in Entries
    PROVE  \E j \in Entries : Slot(k, j) = e
<1>1. /\ Hash[k] \in 0 .. MaxEntries - 1 /\ MaxEntries \in Nat \ {0}
      /\ e \in 0 .. MaxEntries - 1
  BY MapAssumption DEF Entries
<1>2. CASE Hash[k] <= e
  <2>1. e - Hash[k] \in Entries /\ Hash[k] + (e - Hash[k]) = e /\ e % MaxEntries = e
    BY <1>1, <1>2 DEF Entries
  <2>2. QED
    BY <2>1 DEF Slot
<1>3. CASE ~(Hash[k] <= e)
  <2>1. /\ e - Hash[k] + MaxEntries \in Entries
        /\ Hash[k] + (e - Hash[k] + MaxEntries) = e + MaxEntries
    BY <1>1, <1>3 DEF Entries
  <2>2. (e + MaxEntries) % MaxEntries = e
    BY <1>1
  <2>3. QED
    BY <2>1, <2>2 DEF Slot
<1>4. QED
  BY <1>2, <1>3

\* A lookup that stops before it has seen the table, at an entry that is empty
\* or free of other keys, has passed every entry that is before this one.
LEMMA BeforeIsPassed ==
    ASSUME TypeInv, NEW p \in Procs, In(p), NEW d \in Before(proc[p].key, Idx(p))
    PROVE  \E j \in 0 .. proc[p].i - 1 : d = Slot(proc[p].key, j)
<1>1. PICK j \in Entries : /\ d = (Hash[proc[p].key] + j) % MaxEntries
                           /\ \A h \in 0 .. j : (Hash[proc[p].key] + h) % MaxEntries # Idx(p)
  BY DEF Before
<1>2. j \in Nat /\ proc[p].i \in Nat
  BY SoundFields, MapAssumption DEF Entries
<1>3. ~(proc[p].i <= j)
  BY <1>1, <1>2 DEF Idx
<1>4. j \in 0 .. proc[p].i - 1
  BY <1>2, <1>3
<1>5. QED
  BY <1>1, <1>4 DEF Slot

\* A key of which a lookup has found no entry up to an empty one has none.
LEMMA NotFound ==
    ASSUME TypeInv, TableInv, NEW p \in Procs, At(p, "probe"), proc[p].i < MaxEntries,
           memory[Idx(p)].status = 0, NEW e \in Entries
    PROVE  ~Bears(e, proc[p].key)
<1> DEFINE k == proc[p].key
           i == proc[p].i
<1>1. /\ k \in Keys /\ i \in Entries /\ MaxEntries \in Nat
      /\ \A j \in 0 .. i - 1 : memory[Slot(k, j)].key # k
      /\ Idx(p) = Slot(k, i)
  <2>1. k \in Keys /\ i \in Entries /\ MaxEntries \in Nat
    BY SoundFields, MapAssumption DEF TypeInv, Sound, At, Entries
  <2>2. \A j \in 0 .. i - 1 : memory[Slot(k, j)].key # k
    BY DEF TableInv, Passed, In, At, Inside
  <2>3. QED
    BY <2>1, <2>2 DEF Slot, Idx
<1>2. SUFFICES ASSUME Bears(e, k) PROVE FALSE
  OBVIOUS
<1>3. CASE \E h \in 0 .. i : Slot(k, h) = e
  <2>1. PICK h \in 0 .. i : Slot(k, h) = e
    BY <1>3
  <2>2. h = i \/ h \in 0 .. i - 1
    BY <1>1 DEF Entries
  <2>3. QED
    BY <1>1, <1>2, <2>1, <2>2 DEF Bears, Taken
<1>4. CASE \A h \in 0 .. i : Slot(k, h) # e
  <2>1. Idx(p) \in Before(k, e)
    BY <1>1, <1>4 DEF Before, Slot
  <2>2. Taken(Idx(p))
    BY <1>2, <2>1 DEF TableInv, Table, Fit, Bears
  <2>3. QED
    BY <2>2 DEF Taken
<1>5. QED
  BY <1>3, <1>4

\* Nor has one that has seen the whole table, and the table is full.
LEMMA NotFoundAnywhere ==
    ASSUME TypeInv, TableInv, NEW p \in Procs, At(p, "probe"), proc[p].i = MaxEntries,
           NEW e \in Entries
    PROVE  Taken(e) /\ ~Bears(e, proc[p].key)
<1>1. proc[p].key \in Keys /\ MaxEntries \in Nat
  BY MapAssumption DEF TypeInv, Sound, At
<1>2. PICK j \in Entries : Slot(proc[p].key, j) = e
  BY <1>1, SlotReaches
<1>3. j \in 0 .. proc[p].i - 1
  BY DEF Entries
<1>4. Taken(Slot(proc[p].key, j)) /\ memory[Slot(proc[p].key, j)].key # proc[p].key
  BY <1>3 DEF TableInv, Passed, In, At, Inside
<1>5. QED
  BY <1>2, <1>4 DEF Bears

\* A step that writes nothing and makes nobody fill an entry leaves the table
\* as it was, and everybody else where they were.
LEMMA Quiet ==
    ASSUME TypeInv, LockInv, TableInv, NEW p \in Procs, NEW s, Goto(p, s), memory' = memory,
           ~Writing(p), s.pc \in {"wlen", "wkey", "wval"} => ~s.new
    PROVE  /\ \A e \in Entries : Taken(e)' <=> Taken(e)
           /\ \A e \in Entries, k \in Keys : Bears(e, k)' <=> Bears(e, k)
           /\ Table'
           /\ \A q \in Procs \ {p} :
                 Young(proc[q])' /\ Passed(q)' /\ Copies(q)' /\ Reads(q)'
<1>1. proc'[p] = s /\ \A q \in Procs \ {p} : proc'[q] = proc[q]
  BY OnlyMover
<1>2. \A q \in Procs, e \in Entries : Filling(q, e)' <=> Filling(q, e)
  BY <1>1 DEF Filling, Writing, Idx
<1>3. \A e \in Entries : Taken(e)' <=> Taken(e)
  BY <1>2 DEF Taken
<1>4. \A e \in Entries, k \in Keys : Bears(e, k)' <=> Bears(e, k)
  BY <1>3 DEF Bears
<1>5. ASSUME NEW e \in Entries, Taken(e)' PROVE Fit(e)'
  <2>1. Taken(e) /\ memory[e].key \in Keys /\ memory[e].len \in Values
    BY <1>3, <1>5 DEF TableInv, Table, Fit
  <2>2. \A d \in Before(memory[e].key, e) : d \in Entries /\ Taken(d)
    BY <2>1, BeforeInTable DEF TableInv, Table, Fit
  <2>3. \A d \in Entries \ {e} : ~Bears(d, memory[e].key)
    BY <2>1 DEF TableInv, Table, Fit
  <2>4. \/ \A n \in 1 .. ValLen : memory[e].val[n] = memory[e].len
        \/ \E q \in Procs : Writing(q)' /\ Idx(q)' = e
    <3>1. CASE \E q \in Procs : Writing(q) /\ Idx(q) = e
      BY <1>1, <3>1 DEF Writing, Idx
    <3>2. QED
      BY <2>1, <3>1 DEF TableInv, Table, Fit
  <2>5. QED
    BY <1>3, <1>4, <2>1, <2>2, <2>3, <2>4 DEF Fit, Before
<1>6. ASSUME NEW q \in Procs \ {p}
      PROVE  Young(proc[q])' /\ Passed(q)' /\ Copies(q)' /\ Reads(q)'
  <2>1. proc'[q] = proc[q] /\ Idx(q)' = Idx(q)
    BY <1>1 DEF Idx
  <2>2. In(q) => proc[q].key \in Keys /\ Idx(q) \in Entries /\ proc[q].i \in Nat
    BY IdxInTable, SoundFields, MapAssumption DEF In, Inside, TypeInv, Sound
  <2>3. Passed(q)'
    <3>1. In(q) => \A j \in 0 .. proc[q].i - 1 : Slot(proc[q].key, j) \in Entries
      BY <2>2, SlotInTable
    <3>2. QED
      BY <1>3, <2>1, <3>1 DEF TableInv, Passed, In, At
  <2>4. Copies(q)'
    BY <1>4, <2>1, <2>2 DEF TableInv, Copies, Writing, In, Inside
  <2>5. Reads(q)'
    BY <1>4, <2>1, <2>2 DEF TableInv, Reads, In, Inside
  <2>6. QED
    BY <2>1, <2>3, <2>4, <2>5 DEF TableInv
<1>7. QED
  BY <1>3, <1>4, <1>5, <1>6 DEF Table, Fit

\* A step of a writer changes its own entry only.
LEMMA Fill ==
    ASSUME TypeInv, LockInv, TableInv, NEW p \in Procs, NEW s, Goto(p, s), Writing(p),
           s.pc \in {"wkey", "wval"}, s.key = proc[p].key, s.i = proc[p].i,
           s.new = proc[p].new, NEW m, memory'[Idx(p)] = m,
           \A e \in Entries \ {Idx(p)} : memory'[e] = memory[e],
           m.status = 1, m.len \in Values, ~s.new => m.key = s.key
    PROVE  /\ Idx(p)' = Idx(p)
           /\ \A e \in Entries, k \in Keys : Bears(e, k)' <=> Bears(e, k)
           /\ Table'
           /\ Passed(p)'
           /\ \A q \in Procs \ {p} :
                 Young(proc[q])' /\ Passed(q)' /\ Copies(q)' /\ Reads(q)'
<1>1. proc'[p] = s /\ \A q \in Procs \ {p} : proc'[q] = proc[q]
  BY OnlyMover
<1>2. In(p) /\ Idx(p) \in Entries /\ Idx(p)' = Idx(p) /\ proc[p].key \in Keys
  BY <1>1, IdxInTable DEF Writing, In, Inside, Idx, TypeInv, Sound
<1>3. /\ memory'[Idx(p)] = m
      /\ \A e \in Entries \ {Idx(p)} : memory'[e] = memory[e]
  OBVIOUS
<1>4. \A q \in Procs, e \in Entries : Filling(q, e)' <=> Filling(q, e)
  BY <1>1, <1>2 DEF Filling, Writing, Idx
<1>5. memory[Idx(p)].status = 1 /\ (~proc[p].new => memory[Idx(p)].key = proc[p].key)
  BY DEF TableInv, Copies
<1>6. \A e \in Entries : Taken(e)' <=> Taken(e)
  BY <1>3, <1>4, <1>5 DEF Taken
<1>7. \A e \in Entries : Taken(e) => memory'[e].key = memory[e].key
  <2>1. Taken(Idx(p)) => ~proc[p].new
    BY DEF Taken, Filling
  <2>2. QED
    BY <1>3, <1>5, <2>1
<1>8. \A e \in Entries, k \in Keys : Bears(e, k)' <=> Bears(e, k)
  BY <1>6, <1>7 DEF Bears
<1>9. ASSUME NEW e \in Entries, Taken(e)' PROVE Fit(e)'
  <2>1. Taken(e) /\ memory[e].key \in Keys /\ memory[e].len \in Values
    BY <1>6, <1>9 DEF TableInv, Table, Fit
  <2>2. memory'[e].key = memory[e].key /\ memory'[e].len \in Values
    BY <1>3, <1>7, <2>1
  <2>3. \A d \in Before(memory[e].key, e) : d \in Entries /\ Taken(d)
    BY <2>1, BeforeInTable DEF TableInv, Table, Fit
  <2>4. \A d \in Entries \ {e} : ~Bears(d, memory[e].key)
    BY <2>1 DEF TableInv, Table, Fit
  <2>5. \/ \A n \in 1 .. ValLen : memory'[e].val[n] = memory'[e].len
        \/ \E q \in Procs : Writing(q)' /\ Idx(q)' = e
    <3>1. CASE e = Idx(p)
      BY <1>1, <1>2, <3>1 DEF Writing
    <3>2. CASE e # Idx(p)
      <4>1. ASSUME NEW q \in Procs, Writing(q), Idx(q) = e PROVE FALSE
        BY <1>2, <3>2, <4>1, Alone DEF Writing, In, Inside
      <4>2. QED
        BY <1>3, <2>1, <3>2, <4>1 DEF TableInv, Table, Fit
    <3>3. QED
      BY <3>1, <3>2
  <2>6. QED
    BY <1>6, <1>8, <2>1, <2>2, <2>3, <2>4, <2>5 DEF Fit, Before
<1>10. Passed(p)'
  <2>1. \A j \in 0 .. proc[p].i - 1 :
            /\ Slot(proc[p].key, j) \in Entries
            /\ Taken(Slot(proc[p].key, j))
            /\ memory[Slot(proc[p].key, j)].key # proc[p].key
    BY <1>2, SlotInTable, SoundFields DEF TableInv, Passed, Writing, At
  <2>2. QED
    BY <1>1, <1>6, <1>7, <2>1 DEF Passed
<1>11. ASSUME NEW q \in Procs \ {p}
       PROVE  Young(proc[q])' /\ Passed(q)' /\ Copies(q)' /\ Reads(q)'
  <2>1. proc'[q] = proc[q] /\ ~In(q)
    BY <1>1, <1>2, Alone
  <2>2. QED
    BY <2>1 DEF TableInv, Young, Passed, Copies, Reads, Writing, In, Inside
<1>12. QED
  BY <1>2, <1>3, <1>8, <1>9, <1>10, <1>11 DEF Table, Fit

\* The fields of a process that goes on to another place of its call.
LEMMA Moved ==
    ASSUME NEW s \in ProcState, NEW place, NEW b, NEW ret, NEW n
    PROVE  /\ LET t == [s EXCEPT !.pc = place]
              IN  t.pc = place /\ t.i = s.i /\ t.n = s.n /\ t.key = s.key /\ t.new = s.new
                  /\ t.ret = s.ret /\ t.op = s.op /\ t.val = s.val /\ t.got = s.got
           /\ LET t == [s EXCEPT !.pc = place, !.n = n]
              IN  t.pc = place /\ t.i = s.i /\ t.n = n /\ t.key = s.key /\ t.new = s.new
                  /\ t.ret = s.ret /\ t.op = s.op /\ t.val = s.val /\ t.got = s.got
           /\ LET t == [s EXCEPT !.pc = place, !.ret = ret]
              IN  t.pc = place /\ t.i = s.i /\ t.n = s.n /\ t.key = s.key /\ t.new = s.new
                  /\ t.ret = ret /\ t.op = s.op /\ t.val = s.val /\ t.got = s.got
           /\ LET t == [s EXCEPT !.pc = place, !.new = b]
              IN  t.pc = place /\ t.i = s.i /\ t.n = s.n /\ t.key = s.key /\ t.new = b
                  /\ t.ret = s.ret /\ t.op = s.op /\ t.val = s.val /\ t.got = s.got
BY DEF ProcState

LEMMA OutsideKeepsTable ==
    ASSUME Undisturbed, TypeInv, LockInv, TableInv, NEW p \in Procs,
           \/ Begin(p) \/ Acquire(p) \/ GiveUp(p) \/ ForceUnlock(p) \/ Unlock(p) \/ Crash(p)
    PROVE  TableInv'
<1>1. ~Crash(p)
  BY DEF Crash, Undisturbed
<1>2. memory' = memory /\ ~Writing(p)
  BY <1>1 DEF Begin, Acquire, GiveUp, ForceUnlock, Unlock, At, Writing
<1>3. PICK s : /\ Goto(p, s) /\ s.pc \in {"idle", "lock", "force", "probe", "unlock"}
               /\ Young(s) /\ (s.pc = "probe" => s.i = 0)
  <2>1. ASSUME Begin(p)
        PROVE  \E s : Goto(p, s) /\ s.pc = "lock" /\ Young(s)
    <3>1. PICK k \in Keys, op \in {"set", "get"}, v \in Words :
              Goto(p, Call("lock", op, k, v)) /\ (op = "set" => v \in Values)
      BY <2>1 DEF Begin, Words
    <3>2. QED
      BY <3>1 DEF Call, Young
  <2>2. ASSUME Unlock(p) PROVE Goto(p, Idle) /\ Idle.pc = "idle" /\ Young(Idle)
    BY <2>2 DEF Unlock, Idle, Call, Young
  <2>3. ASSUME Acquire(p) \/ GiveUp(p) \/ ForceUnlock(p)
        PROVE  \E s : /\ Goto(p, s) /\ s.pc \in {"lock", "force", "probe"}
                      /\ Young(s) /\ s.i = 0
    <3>1. PICK place \in {"lock", "force", "probe"} : Goto(p, [proc[p] EXCEPT !.pc = place])
      BY <2>3 DEF Acquire, GiveUp, ForceUnlock
    <3>2. proc[p].pc \in {"lock", "force"} /\ Young(proc[p]) /\ proc[p] \in ProcState
      BY <2>3, SoundFields DEF Acquire, GiveUp, ForceUnlock, At, TableInv
    <3> DEFINE s == [proc[p] EXCEPT !.pc = place]
    <3>3. /\ s.pc = place /\ s.i = proc[p].i /\ s.ret = proc[p].ret /\ s.new = proc[p].new
          /\ s.op = proc[p].op /\ s.val = proc[p].val
      BY <3>2, Moved
    <3> HIDE DEF s
    <3>4. Young(s) /\ s.i = 0
      BY <3>2, <3>3 DEF Young
    <3>5. QED
      BY <3>1, <3>3, <3>4 DEF s
  <2>4. QED
    BY <1>1, <2>1, <2>2, <2>3
<1>4. proc'[p] = s
  BY <1>3, OnlyMover
<1>5. Young(proc[p])' /\ Passed(p)' /\ Copies(p)' /\ Reads(p)'
  <2>1. Young(proc[p])' /\ Copies(p)' /\ Reads(p)'
    BY <1>3, <1>4 DEF Copies, Reads, Writing, Young
  <2>2. Passed(p)'
    BY <1>3, <1>4 DEF Passed, In, At, Inside
  <2>3. QED
    BY <2>1, <2>2
<1>6. s.pc \notin {"wlen", "wkey", "wval"}
  BY <1>3
<1>7. QED
  BY <1>2, <1>3, <1>5, <1>6, Quiet DEF TableInv

LEMMA ProbeKeepsTable ==
    ASSUME Undisturbed, TypeInv, LockInv, TableInv, NEW p \in Procs, Probe(p)
    PROVE  TableInv'
<1>1. At(p, "probe") /\ ~Writing(p) /\ In(p) /\ Idx(p) \in Entries
  BY IdxInTable
     DEF Probe, ProbeEmpty, ProbeMatch, ProbeOther, ProbeFull, Probing, At, Writing, In, Inside
<1>2. /\ proc[p] \in ProcState /\ proc[p].i \in 0 .. MaxEntries /\ MaxEntries \in Nat
      /\ proc[p].key \in Keys
      /\ proc[p].ret = "ok" /\ ~proc[p].new /\ (proc[p].op = "set" => proc[p].val \in Values)
  BY <1>1, SoundFields, MapAssumption DEF TableInv, Young, At, TypeInv, Sound
<1>3. \A j \in 0 .. proc[p].i - 1 :
          /\ Slot(proc[p].key, j) \in Entries
          /\ Taken(Slot(proc[p].key, j))
          /\ memory[Slot(proc[p].key, j)].key # proc[p].key
  BY <1>1, <1>2, SlotInTable DEF TableInv, Passed, At
<1>4. \A q \in Procs, e \in Entries : ~Filling(q, e)
  BY <1>1, Alone DEF Filling, Writing, In, Inside
\* the get that has found nothing, and the throw of a set: nothing is left to be said of p
<1>5. ASSUME NEW ret, Goto(p, [proc[p] EXCEPT !.pc = "unlock", !.ret = ret]), memory' = memory
      PROVE  TableInv'
  <2> DEFINE s == [proc[p] EXCEPT !.pc = "unlock", !.ret = ret]
  <2>1. s.pc = "unlock"
    BY <1>2
  <2> HIDE DEF s
  <2>2. proc'[p] = s
    BY <1>5, OnlyMover DEF s
  <2>3. Young(proc[p])' /\ Passed(p)' /\ Copies(p)' /\ Reads(p)'
    BY <2>1, <2>2 DEF Young, Passed, Copies, Reads, Writing, At
  <2>4. QED
    BY <1>1, <1>5, <2>1, <2>3, Quiet DEF TableInv, s
<1>6. ASSUME ProbeEmpty(p), proc[p].op = "set" PROVE TableInv'
  <2> DEFINE s == [proc[p] EXCEPT !.pc = "wlen", !.new = TRUE]
  <2>1. /\ Goto(p, s) /\ proc[p].i < MaxEntries /\ memory[Idx(p)].status = 0
        /\ memory' = [memory EXCEPT ![Idx(p)].status = 1]
    BY <1>6 DEF ProbeEmpty, Probing
  <2>2. /\ s.pc = "wlen" /\ s.new /\ s.i = proc[p].i /\ s.key = proc[p].key
        /\ s.ret = "ok" /\ s.val \in Values
    BY <1>2, <1>6, Moved
  <2> HIDE DEF s
  <2>3. proc'[p] = s /\ \A q \in Procs \ {p} : proc'[q] = proc[q]
    BY <2>1, OnlyMover
  <2>4. Idx(p)' = Idx(p) /\ Writing(p)'
    BY <2>2, <2>3 DEF Idx, Writing
  <2>5. /\ \A e \in Entries \ {Idx(p)} : memory'[e] = memory[e]
        /\ memory'[Idx(p)].status = 1
    BY <1>1, <2>1 DEF TypeInv, Entry
  <2>6. \A q \in Procs, e \in Entries : Filling(q, e)' <=> q = p /\ e = Idx(p)
    BY <1>4, <2>2, <2>3, <2>4 DEF Filling, Writing, Idx
  <2>7. \A e \in Entries : /\ Taken(e)' <=> Taken(e)
                           /\ Taken(e) => memory'[e] = memory[e]
    BY <1>4, <2>1, <2>5, <2>6 DEF Taken
  <2>8. \A e \in Entries, k \in Keys : Bears(e, k)' <=> Bears(e, k)
    BY <2>7 DEF Bears
  <2>9. ASSUME NEW e \in Entries, Taken(e)' PROVE Fit(e)'
    <3>1. Taken(e) /\ memory'[e] = memory[e] /\ memory[e].key \in Keys
      BY <2>7, <2>9 DEF TableInv, Table, Fit
    <3>2. \A d \in Before(memory[e].key, e) : d \in Entries /\ Taken(d)
      BY <3>1, BeforeInTable DEF TableInv, Table, Fit
    <3>3. \A d \in Entries \ {e} : ~Bears(d, memory[e].key)
      BY <3>1 DEF TableInv, Table, Fit
    <3>4. \A n \in 1 .. ValLen : memory[e].val[n] = memory[e].len
      BY <1>1, <3>1, Alone DEF TableInv, Table, Fit, Writing, In, Inside
    <3>5. memory[e].len \in Values
      BY <3>1 DEF TableInv, Table, Fit
    <3>6. QED
      BY <2>7, <2>8, <3>1, <3>2, <3>3, <3>4, <3>5 DEF Fit, Before
  <2>10. Young(proc[p])' /\ Passed(p)' /\ Copies(p)' /\ Reads(p)'
    <3>1. Passed(p)'
      BY <1>3, <2>2, <2>3, <2>7 DEF Passed
    <3>2. PICK k \in Keys : k = proc[p].key
      BY <1>2
    <3>3. \A e \in Entries : ~Bears(e, k)'
      BY <1>1, <2>1, <2>8, <3>2, NotFound
    <3>4. Copies(p)'
      BY <1>2, <2>1, <2>2, <2>3, <2>4, <2>5, <3>2, <3>3 DEF Copies
    <3>5. QED
      BY <2>2, <2>3, <3>1, <3>4 DEF Young, Reads
  <2>11. ASSUME NEW q \in Procs \ {p}
         PROVE  Young(proc[q])' /\ Passed(q)' /\ Copies(q)' /\ Reads(q)'
    <3>1. proc'[q] = proc[q] /\ ~In(q)
      BY <1>1, <2>3, Alone
    <3>2. QED
      BY <3>1 DEF TableInv, Young, Passed, Copies, Reads, Writing, In, Inside
  <2>12. QED
    BY <2>9, <2>10, <2>11 DEF TableInv, Table, Fit
<1>7. ASSUME ProbeMatch(p) PROVE TableInv'
  <2>1. /\ proc[p].i < MaxEntries /\ Bears(Idx(p), proc[p].key) /\ memory' = memory
        /\ memory[Idx(p)].status = 1 /\ memory[Idx(p)].key = proc[p].key
    BY <1>1, <1>4, <1>7 DEF ProbeMatch, Probing, Matches, Bears, Taken
  <2>2. PICK s : /\ Goto(p, s) /\ s.i = proc[p].i /\ s.key = proc[p].key /\ ~s.new
                 /\ s.pc \in {"wlen", "rlen"}
                 /\ s.pc = "rlen" => s.ret = "hit"
                 /\ s.pc = "wlen" => s.ret = "ok" /\ s.val \in Values
    <3>1. CASE proc[p].op = "get"
      <4>1. Goto(p, [proc[p] EXCEPT !.pc = "rlen", !.ret = "hit"])
        BY <1>7, <3>1 DEF ProbeMatch
      <4> DEFINE s == [proc[p] EXCEPT !.pc = "rlen", !.ret = "hit"]
      <4>2. /\ s.i = proc[p].i /\ s.key = proc[p].key /\ ~s.new
            /\ s.pc = "rlen" /\ s.ret = "hit"
        BY <1>2, Moved
      <4> HIDE DEF s
      <4>3. QED
        BY <4>1, <4>2 DEF s
    <3>2. CASE proc[p].op = "set"
      <4>1. Goto(p, [proc[p] EXCEPT !.pc = "wlen"])
        BY <1>7, <3>2 DEF ProbeMatch
      <4> DEFINE s == [proc[p] EXCEPT !.pc = "wlen"]
      <4>2. /\ s.i = proc[p].i /\ s.key = proc[p].key /\ ~s.new
            /\ s.pc = "wlen" /\ s.ret = "ok" /\ s.val \in Values
        BY <1>2, <3>2, Moved
      <4> HIDE DEF s
      <4>3. QED
        BY <4>1, <4>2 DEF s
    <3>3. QED
      BY <1>2, <3>1, <3>2 DEF ProcState
  <2>3. proc'[p] = s /\ Idx(p)' = Idx(p)
    BY <2>2, OnlyMover DEF Idx
  <2>4. \A e \in Entries, k \in Keys : Bears(e, k)' <=> Bears(e, k)
    BY <1>1, <2>1, <2>2, Quiet
  <2>5. \A e \in Entries : Taken(e)' <=> Taken(e)
    BY <1>1, <2>1, <2>2, Quiet
  <2>6. Young(proc[p])' /\ Passed(p)' /\ Copies(p)' /\ Reads(p)'
    <3>1. Passed(p)'
      BY <1>3, <2>1, <2>2, <2>3, <2>5 DEF Passed
    <3>2. Copies(p)' /\ Young(proc[p])'
      BY <2>1, <2>2, <2>3 DEF Copies, Young, Writing
    <3>3. Reads(p)'
      BY <1>1, <1>2, <2>1, <2>2, <2>3, <2>4 DEF Reads
    <3>4. QED
      BY <3>1, <3>2, <3>3
  <2>7. QED
    BY <1>1, <2>1, <2>2, <2>6, Quiet DEF TableInv
<1>8. ASSUME ProbeOther(p) PROVE TableInv'
  <2> DEFINE s == [proc[p] EXCEPT !.i = @ + 1]
  <2>1. /\ Goto(p, s) /\ memory' = memory /\ Taken(Idx(p))
        /\ memory[Idx(p)].key # proc[p].key
    BY <1>1, <1>4, <1>8 DEF ProbeOther, Matches, Taken
  <2>2. /\ s.pc = "probe" /\ s.i = proc[p].i + 1 /\ s.key = proc[p].key /\ s.op = proc[p].op
        /\ s.ret = proc[p].ret /\ s.new = proc[p].new /\ s.val = proc[p].val
    BY <1>1, <1>2 DEF ProcState, At
  <2> HIDE DEF s
  <2>3. proc'[p] = s
    BY <2>1, OnlyMover
  <2>4. \A e \in Entries : Taken(e)' <=> Taken(e)
    BY <1>1, <2>1, <2>2, Quiet
  <2>5. Young(proc[p])' /\ Copies(p)' /\ Reads(p)'
    BY <1>2, <2>2, <2>3 DEF Young, Copies, Reads, Writing
  <2>6. Passed(p)'
    <3>1. ASSUME NEW j \in 0 .. s.i - 1
          PROVE  /\ Slot(s.key, j) \in Entries /\ Taken(Slot(s.key, j))
                 /\ memory[Slot(s.key, j)].key # s.key
      <4>1. j = proc[p].i \/ j \in 0 .. proc[p].i - 1
        BY <1>2, <2>2
      <4>2. CASE j = proc[p].i
        BY <1>1, <2>1, <2>2, <4>2 DEF Slot, Idx
      <4>3. QED
        BY <1>3, <2>2, <4>1, <4>2
    <3>2. QED
      BY <2>1, <2>3, <2>4, <3>1 DEF Passed
  <2>7. QED
    BY <1>1, <2>1, <2>2, <2>5, <2>6, Quiet DEF TableInv
<1>9. QED
  BY <1>2, <1>5, <1>6, <1>7, <1>8 DEF Probe, ProbeEmpty, ProbeFull

LEMMA CopyKeepsTable ==
    ASSUME Undisturbed, TypeInv, LockInv, TableInv, NEW p \in Procs, Copy(p)
    PROVE  TableInv'
<1>1. In(p) /\ Idx(p) \in Entries
  BY IdxInTable DEF Copy, WriteLen, WriteKey, WriteVal, ReadLen, ReadVal, At, In, Inside
<1>2. /\ proc[p] \in ProcState /\ proc[p].key \in Keys /\ proc[p].val \in Words
      /\ proc[p].key \in [1 .. KeyLen -> Nat]
      /\ proc[p].n \in Nat /\ proc[p].i \in Nat
      /\ KeyLen \in Nat \ {0} /\ ValLen \in Nat \ {0}
      /\ memory \in [Entries -> Entry] /\ memory[Idx(p)] \in Entry
  <2>1. memory \in [Entries -> Entry] /\ memory[Idx(p)] \in Entry
    BY <1>1 DEF TypeInv
  <2>2. proc[p].key \in Keys
    BY <1>1 DEF TypeInv, Sound, In, Inside
  <2>3. KeyLen \in Nat \ {0} /\ ValLen \in Nat \ {0} /\ MaxEntries \in Nat
    BY MapAssumption
  <2>4. proc[p].key \in [1 .. KeyLen -> Nat]
    BY <2>2, MapAssumption
  <2>5. /\ proc[p] \in ProcState /\ proc[p].val \in Words
        /\ proc[p].i \in 0 .. MaxEntries /\ proc[p].n \in 1 .. KeyLen + ValLen
    BY SoundFields
  <2>6. proc[p].n \in Nat /\ proc[p].i \in Nat
    BY <2>3, <2>5
  <2>7. QED
    BY <2>1, <2>2, <2>3, <2>4, <2>5, <2>6
<1>3. \A q \in Procs \ {p} : ~In(q)
  BY <1>1, Alone
<1>4. ASSUME WriteLen(p) PROVE TableInv'
  <2> DEFINE m == [memory[Idx(p)] EXCEPT !.len = proc[p].val]
             s == [proc[p] EXCEPT !.pc = IF proc[p].new THEN "wkey" ELSE "wval"]
  <2>1. /\ Goto(p, s) /\ Writing(p) /\ proc[p].pc = "wlen" /\ proc[p].n = 1
        /\ memory'[Idx(p)] = m /\ \A e \in Entries \ {Idx(p)} : memory'[e] = memory[e]
    BY <1>1, <1>2, <1>4 DEF WriteLen, At, Writing, TypeInv, Sound
  <2>2. /\ s.pc = (IF proc[p].new THEN "wkey" ELSE "wval")
        /\ s.key = proc[p].key /\ s.i = proc[p].i /\ s.new = proc[p].new /\ s.n = 1
        /\ s.ret = proc[p].ret /\ s.val = proc[p].val
    BY <1>2, <2>1, Moved
  <2>3. /\ m.status = memory[Idx(p)].status /\ m.key = memory[Idx(p)].key
        /\ m.len = proc[p].val
    BY <1>2 DEF Entry
  <2> HIDE DEF m, s
  <2>4. /\ proc[p].ret = "ok" /\ proc[p].val \in Values /\ proc[p].i < MaxEntries
        /\ m.status = 1 /\ (~s.new => m.key = s.key)
        /\ proc[p].new => \A e \in Entries : ~Bears(e, proc[p].key)
    BY <2>1, <2>2, <2>3 DEF TableInv, Copies
  <2>5. s.pc \in {"wkey", "wval"}
    BY <2>2
  <2>6. /\ Idx(p)' = Idx(p)
        /\ \A e \in Entries, k \in Keys : Bears(e, k)' <=> Bears(e, k)
        /\ Table' /\ Passed(p)'
        /\ \A q \in Procs \ {p} :
              Young(proc[q])' /\ Passed(q)' /\ Copies(q)' /\ Reads(q)'
    BY <2>1, <2>2, <2>3, <2>4, <2>5, Fill
  <2>7. proc'[p] = s
    BY <2>1, OnlyMover
  <2>8. Young(proc[p])' /\ Reads(p)'
    BY <2>5, <2>7 DEF Young, Reads
  <2>9. PICK k \in Keys : k = proc[p].key
    BY <1>2
  <2>10. Copies(p)'
    <3>1. proc[p].new => \A e \in Entries : ~Bears(e, k)'
      BY <2>4, <2>6, <2>9
    <3>2. \A j \in 1 .. s.n - 1 : FALSE
      BY <2>2
    <3>3. QED
      BY <2>1, <2>2, <2>3, <2>4, <2>6, <2>7, <2>9, <3>1, <3>2 DEF Copies
  <2>11. QED
    BY <2>6, <2>8, <2>10 DEF TableInv
<1>5. ASSUME WriteKey(p) PROVE TableInv'
  <2> DEFINE f == [memory[Idx(p)].key EXCEPT ![proc[p].n] = proc[p].key[proc[p].n]]
             m == [memory[Idx(p)] EXCEPT !.key = f]
  <2>1. /\ memory'[Idx(p)] = m /\ \A e \in Entries \ {Idx(p)} : memory'[e] = memory[e]
        /\ Writing(p) /\ proc[p].pc = "wkey" /\ proc[p].n \in 1 .. KeyLen
    <3>1. memory' = [memory EXCEPT ![Idx(p)] = m]
      BY <1>5 DEF WriteKey
    <3> HIDE DEF m
    <3>2. QED
      BY <1>1, <1>2, <1>5, <3>1 DEF WriteKey, At, Writing, TypeInv, Sound, ProcState
  <2>2. PICK place \in {"wkey", "wval"}, n \in 1 .. KeyLen :
            /\ Goto(p, [proc[p] EXCEPT !.pc = place, !.n = n])
            /\ \/ place = "wkey" /\ n = proc[p].n + 1
               \/ place = "wval" /\ n = 1 /\ proc[p].n = KeyLen
    <3>1. CASE proc[p].n < KeyLen
      <4>1. proc[p].n + 1 \in 1 .. KeyLen
        BY <1>2, <2>1, <3>1
      <4>2. Goto(p, [proc[p] EXCEPT !.pc = "wkey", !.n = proc[p].n + 1])
        BY <1>2, <1>5, <3>1 DEF WriteKey, At, ProcState
      <4>3. QED
        BY <4>1, <4>2
    <3>2. CASE ~(proc[p].n < KeyLen)
      <4>1. Goto(p, [proc[p] EXCEPT !.pc = "wval", !.n = 1])
        BY <1>5, <3>2 DEF WriteKey
      <4>2. proc[p].n = KeyLen /\ 1 \in 1 .. KeyLen
        BY <1>2, <2>1, <3>2
      <4>3. QED
        BY <4>1, <4>2
    <3>3. QED
      BY <3>1, <3>2
  <2> DEFINE s == [proc[p] EXCEPT !.pc = place, !.n = n]
  <2>3. /\ s.pc = place /\ s.n = n
        /\ s.key = proc[p].key /\ s.i = proc[p].i /\ s.new = proc[p].new
        /\ s.ret = proc[p].ret /\ s.val = proc[p].val
    BY <1>2, Moved
  <2>4. /\ m.status = memory[Idx(p)].status /\ m.key = f /\ m.len = memory[Idx(p)].len
        /\ m.val = memory[Idx(p)].val
    BY <1>2 DEF Entry
  <2>5. /\ memory[Idx(p)].status = 1 /\ memory[Idx(p)].len = proc[p].val
        /\ proc[p].ret = "ok" /\ proc[p].val \in Values /\ proc[p].i < MaxEntries
        /\ proc[p].new
        /\ \A e \in Entries : ~Bears(e, proc[p].key)
        /\ \A j \in 1 .. proc[p].n - 1 : memory[Idx(p)].key[j] = proc[p].key[j]
    BY <2>1 DEF TableInv, Copies
  <2>6. \A j \in 1 .. proc[p].n : f[j] = proc[p].key[j]
    <3>1. memory[Idx(p)].key \in [1 .. KeyLen -> Nat]
      BY <1>2 DEF Entry
    <3>2. ASSUME NEW j \in 1 .. proc[p].n PROVE f[j] = proc[p].key[j]
      <4>1. j \in 1 .. KeyLen /\ (j = proc[p].n \/ j \in 1 .. proc[p].n - 1)
        BY <1>2, <2>1
      <4>2. QED
        BY <2>5, <3>1, <4>1
    <3>3. QED
      BY <3>2
  <2>7. place = "wval" => f = proc[p].key
    <3>1. f \in [1 .. KeyLen -> Nat]
      BY <1>2, <2>1 DEF Entry
    <3>2. place = "wval" => \A j \in 1 .. KeyLen : f[j] = proc[p].key[j]
      BY <2>2, <2>6
    <3> HIDE DEF f
    <3>3. QED
      BY <1>2, <3>1, <3>2
  <2>8. Goto(p, s)
    BY <2>2
  <2> HIDE DEF f, m, s
  <2>9. /\ s.pc \in {"wkey", "wval"} /\ s.new /\ s.ret = "ok" /\ s.val \in Values
        /\ s.i < MaxEntries /\ m.status = 1 /\ m.len = s.val
    BY <2>3, <2>4, <2>5
  <2>10. /\ Idx(p)' = Idx(p)
         /\ \A e \in Entries, k \in Keys : Bears(e, k)' <=> Bears(e, k)
         /\ Table' /\ Passed(p)'
         /\ \A q \in Procs \ {p} :
               Young(proc[q])' /\ Passed(q)' /\ Copies(q)' /\ Reads(q)'
    BY <2>1, <2>3, <2>9, <2>8, Fill
  <2>11. proc'[p] = s
    BY <2>8, OnlyMover
  <2>12. Young(proc[p])' /\ Reads(p)'
    BY <2>2, <2>3, <2>11 DEF Young, Reads
  <2>13. PICK k \in Keys : k = proc[p].key
    BY <1>2
  <2>14. Copies(p)'
    <3>1. \A e \in Entries : ~Bears(e, k)'
      BY <2>5, <2>10, <2>13
    <3>2. s.pc = "wkey" => \A j \in 1 .. s.n - 1 : f[j] = s.key[j]
      BY <1>2, <2>2, <2>3, <2>6
    <3>3. s.pc = "wval" => f = s.key /\ \A j \in 1 .. s.n - 1 : FALSE
      BY <2>2, <2>3, <2>7
    <3>4. QED
      BY <2>1, <2>3, <2>4, <2>9, <2>10, <2>11, <2>13, <3>1, <3>2, <3>3 DEF Copies
  <2>15. QED
    BY <2>10, <2>12, <2>14 DEF TableInv
<1>6. ASSUME ReadLen(p) PROVE TableInv'
  <2> DEFINE g == [proc[p].got EXCEPT !.len = memory[Idx(p)].len]
             s == [proc[p] EXCEPT !.pc = "rval", !.got = g]
  <2>1. Goto(p, s) /\ memory' = memory /\ proc[p].pc = "rlen" /\ proc[p].n = 1
    BY <1>2, <1>6 DEF ReadLen, ProcState, At, TypeInv, Sound
  <2>2. g.len = memory[Idx(p)].len
    BY <1>2 DEF ProcState
  <2> HIDE DEF g
  <2>3. /\ s.pc = "rval" /\ s.got = g /\ s.key = proc[p].key /\ s.i = proc[p].i
        /\ s.n = 1 /\ s.ret = proc[p].ret
    BY <1>2, <2>1 DEF ProcState
  <2> HIDE DEF s
  <2>4. proc'[p] = s /\ Idx(p)' = Idx(p) /\ ~Writing(p)
    BY <2>1, <2>3, OnlyMover DEF Idx, Writing
  <2>5. /\ \A e \in Entries, k \in Keys : Bears(e, k)' <=> Bears(e, k)
        /\ \A e \in Entries : Taken(e)' <=> Taken(e)
    BY <2>1, <2>3, <2>4, Quiet
  <2>6. Reads(p)' /\ Young(proc[p])' /\ Copies(p)'
    <3>1. proc[p].ret = "hit" /\ Bears(Idx(p), proc[p].key)
      BY <2>1 DEF TableInv, Reads
    <3>2. \A j \in 1 .. s.n - 1 : FALSE
      BY <2>3
    <3>3. Reads(p)'
      BY <1>1, <1>2, <2>1, <2>2, <2>3, <2>4, <2>5, <3>1, <3>2 DEF Reads
    <3>4. QED
      BY <2>3, <2>4, <3>3 DEF Young, Copies, Writing
  <2>7. Passed(p)'
    <3>1. \A j \in 0 .. proc[p].i - 1 :
              /\ Slot(proc[p].key, j) \in Entries
              /\ Taken(Slot(proc[p].key, j))
              /\ memory[Slot(proc[p].key, j)].key # proc[p].key
      BY <1>1, <1>2, <2>1, SlotInTable DEF TableInv, Passed, At
    <3>2. QED
      BY <2>1, <2>3, <2>4, <2>5, <3>1 DEF Passed
  <2>8. QED
    BY <2>1, <2>3, <2>4, <2>6, <2>7, Quiet DEF TableInv
<1>7. ASSUME ReadVal(p) PROVE TableInv'
  <2> DEFINE f == [proc[p].got.val EXCEPT ![proc[p].n] = memory[Idx(p)].val[proc[p].n]]
             g == [proc[p].got EXCEPT !.val = f]
             r == [proc[p] EXCEPT !.got = g]
  <2>1. memory' = memory /\ proc[p].pc = "rval" /\ proc[p].n \in 1 .. ValLen
    BY <1>2, <1>7 DEF ReadVal, At, TypeInv, Sound, ProcState
  <2>2. \A j \in 1 .. proc[p].n : f[j] = memory[Idx(p)].val[j]
    <3>1. proc[p].got.val \in [1 .. ValLen -> Words]
      BY SoundFields
    <3>2. ASSUME NEW j \in 1 .. proc[p].n PROVE f[j] = memory[Idx(p)].val[j]
      <4>1. j \in 1 .. ValLen /\ (j = proc[p].n \/ j \in 1 .. proc[p].n - 1)
        BY <1>2, <2>1
      <4>2. j # proc[p].n => proc[p].got.val[j] = memory[Idx(p)].val[j]
        BY <2>1, <4>1 DEF TableInv, Reads
      <4>3. QED
        BY <3>1, <4>1, <4>2
    <3>3. QED
      BY <3>2
  <2> HIDE DEF f
  <2>3. g.len = proc[p].got.len /\ g.val = f
    BY <1>2 DEF ProcState
  <2>4. [proc[p] EXCEPT !.got.val[proc[p].n] = memory[Idx(p)].val[proc[p].n]] = r
    BY DEF f
  <2> HIDE DEF g
  <2>5. PICK s : /\ Goto(p, s) /\ s.got = g /\ s.key = proc[p].key /\ s.i = proc[p].i
                 /\ s.ret = proc[p].ret
                 /\ \/ s.pc = "rval" /\ s.n = proc[p].n + 1
                    \/ s.pc = "unlock"
    <3>1. /\ r.got = g /\ r.key = proc[p].key /\ r.i = proc[p].i /\ r.n = proc[p].n
          /\ r.ret = proc[p].ret /\ r.pc = "rval"
          /\ r = [r EXCEPT !.pc = "rval"]
      BY <1>2, <2>1 DEF ProcState
    <3>2. \/ Goto(p, [r EXCEPT !.n = @ + 1]) \/ Goto(p, [r EXCEPT !.pc = "unlock"])
      BY <1>7, <2>4 DEF ReadVal
    <3>3. LET t == [r EXCEPT !.n = @ + 1]
          IN  /\ t.got = r.got /\ t.key = r.key /\ t.i = r.i /\ t.ret = r.ret
              /\ t.pc = r.pc /\ t.n = r.n + 1
      BY <1>2 DEF ProcState
    <3>4. LET t == [r EXCEPT !.pc = "unlock"]
          IN  /\ t.got = r.got /\ t.key = r.key /\ t.i = r.i /\ t.ret = r.ret
              /\ t.pc = "unlock"
      BY <1>2 DEF ProcState
    <3> HIDE DEF r
    <3>5. QED
      BY <3>1, <3>2, <3>3, <3>4
  <2>6. proc'[p] = s /\ Idx(p)' = Idx(p) /\ ~Writing(p)
    BY <2>1, <2>5, OnlyMover DEF Idx, Writing
  <2>7. /\ \A e \in Entries, k \in Keys : Bears(e, k)' <=> Bears(e, k)
        /\ \A e \in Entries : Taken(e)' <=> Taken(e)
    BY <2>1, <2>5, <2>6, Quiet
  <2>8. Reads(p)' /\ Young(proc[p])' /\ Copies(p)'
    <3>1. /\ proc[p].ret = "hit" /\ Bears(Idx(p), proc[p].key)
          /\ proc[p].got.len = memory[Idx(p)].len
      BY <2>1 DEF TableInv, Reads
    <3>2. s.pc = "rval" => \A j \in 1 .. s.n - 1 : s.got.val[j] = memory[Idx(p)].val[j]
      BY <1>2, <2>2, <2>3, <2>5
    <3>3. Reads(p)'
      BY <1>1, <1>2, <2>1, <2>3, <2>5, <2>6, <2>7, <3>1, <3>2 DEF Reads
    <3>4. QED
      BY <2>5, <2>6, <3>3 DEF Young, Copies, Writing
  <2>9. Passed(p)'
    <3>1. \A j \in 0 .. proc[p].i - 1 :
              /\ Slot(proc[p].key, j) \in Entries
              /\ Taken(Slot(proc[p].key, j))
              /\ memory[Slot(proc[p].key, j)].key # proc[p].key
      BY <1>1, <1>2, <2>1, SlotInTable DEF TableInv, Passed, At
    <3>2. QED
      BY <2>1, <2>5, <2>6, <2>7, <3>1 DEF Passed
  <2>10. QED
    BY <2>1, <2>5, <2>6, <2>8, <2>9, Quiet DEF TableInv
<1>8. ASSUME WriteVal(p) PROVE TableInv'
  <2> DEFINE f == [memory[Idx(p)].val EXCEPT ![proc[p].n] = proc[p].val]
             m == [memory[Idx(p)] EXCEPT !.val = f]
  <2>1. /\ memory'[Idx(p)] = m /\ \A e \in Entries \ {Idx(p)} : memory'[e] = memory[e]
        /\ Writing(p) /\ proc[p].pc = "wval" /\ proc[p].n \in 1 .. ValLen
    <3>1. memory' = [memory EXCEPT ![Idx(p)] = m]
      BY <1>8 DEF WriteVal
    <3> HIDE DEF m
    <3>2. QED
      BY <1>1, <1>2, <1>8, <3>1 DEF WriteVal, At, Writing, TypeInv, Sound, ProcState
  <2>2. /\ m.status = memory[Idx(p)].status /\ m.key = memory[Idx(p)].key
        /\ m.len = memory[Idx(p)].len /\ m.val = f
    BY <1>2 DEF Entry
  <2>3. /\ memory[Idx(p)].status = 1 /\ memory[Idx(p)].len = proc[p].val
        /\ memory[Idx(p)].key = proc[p].key
        /\ proc[p].ret = "ok" /\ proc[p].val \in Values /\ proc[p].i < MaxEntries
        /\ proc[p].new => \A e \in Entries : ~Bears(e, proc[p].key)
        /\ \A j \in 1 .. proc[p].n - 1 : memory[Idx(p)].val[j] = proc[p].val
    BY <2>1 DEF TableInv, Copies
  <2>4. \A j \in 1 .. proc[p].n : f[j] = proc[p].val
    <3>1. memory[Idx(p)].val \in [1 .. ValLen -> Words]
      BY <1>2 DEF Entry
    <3>2. ASSUME NEW j \in 1 .. proc[p].n PROVE f[j] = proc[p].val
      <4>1. j \in 1 .. ValLen /\ (j = proc[p].n \/ j \in 1 .. proc[p].n - 1)
        BY <1>2, <2>1
      <4>2. QED
        BY <2>3, <3>1, <4>1
    <3>3. QED
      BY <3>2
  <2> HIDE DEF f, m
  <2>5. PICK k \in Keys : k = proc[p].key
    BY <1>2
  \* a word in the middle
  <2>6. CASE proc[p].n < ValLen
    <3> DEFINE s == [proc[p] EXCEPT !.n = @ + 1]
    <3>1. Goto(p, s)
      BY <1>8, <2>6 DEF WriteVal
    <3>2. /\ s.pc = "wval" /\ s.n = proc[p].n + 1
          /\ s.key = proc[p].key /\ s.i = proc[p].i /\ s.new = proc[p].new
          /\ s.ret = proc[p].ret /\ s.val = proc[p].val
      BY <1>2, <2>1 DEF ProcState
    <3> HIDE DEF s
    <3>3. /\ Idx(p)' = Idx(p)
          /\ \A e \in Entries, j \in Keys : Bears(e, j)' <=> Bears(e, j)
          /\ Table' /\ Passed(p)'
          /\ \A q \in Procs \ {p} :
                Young(proc[q])' /\ Passed(q)' /\ Copies(q)' /\ Reads(q)'
      BY <2>1, <2>2, <2>3, <3>1, <3>2, Fill
    <3>4. proc'[p] = s
      BY <3>1, OnlyMover
    <3>5. Copies(p)'
      <4>1. proc[p].new => \A e \in Entries : ~Bears(e, k)'
        BY <2>3, <2>5, <3>3
      <4>2. \A j \in 1 .. s.n - 1 : f[j] = s.val
        BY <1>2, <2>4, <3>2
      <4>3. QED
        BY <2>1, <2>2, <2>3, <2>5, <3>2, <3>3, <3>4, <4>1, <4>2 DEF Copies
    <3>6. QED
      BY <3>2, <3>3, <3>4, <3>5 DEF TableInv, Young, Reads
  \* the last one: the entry is one that lookups may rely on
  <2>7. CASE ~(proc[p].n < ValLen)
    <3> DEFINE s == [proc[p] EXCEPT !.pc = "unlock"]
    <3>1. Goto(p, s) /\ proc[p].n = ValLen
      BY <1>2, <1>8, <2>1, <2>7 DEF WriteVal
    <3>2. s.pc = "unlock" /\ s.key = proc[p].key /\ s.i = proc[p].i
      BY <1>2, Moved
    <3> HIDE DEF s
    <3>3. proc'[p] = s /\ \A q \in Procs \ {p} : proc'[q] = proc[q]
      BY <3>1, OnlyMover
    <3>4. /\ \A q \in Procs : ~Writing(q)'
          /\ \A q \in Procs : Writing(q) => q = p
      BY <1>3, <3>2, <3>3 DEF Writing, In, Inside
    <3>5. \A e \in Entries : /\ Taken(e)' <=> Taken(e) \/ e = Idx(p)
                             /\ e # Idx(p) => memory'[e] = memory[e]
      BY <2>1, <2>2, <2>3, <3>4 DEF Taken, Filling
    <3>6. /\ memory'[Idx(p)].key = k /\ memory'[Idx(p)].len = proc[p].val
          /\ \A n \in 1 .. ValLen : memory'[Idx(p)].val[n] = proc[p].val
      BY <2>1, <2>2, <2>3, <2>4, <2>5, <3>1
    <3>7. \A e \in Entries \ {Idx(p)} : ~Bears(e, k)
      <4>1. ASSUME ~proc[p].new, NEW e \in Entries \ {Idx(p)} PROVE ~Bears(e, k)
        <5>1. Taken(Idx(p))
          BY <2>3, <3>4, <4>1 DEF Taken, Filling
        <5>2. QED
          BY <1>1, <2>3, <2>5, <5>1 DEF TableInv, Table, Fit
      <4>2. QED
        BY <2>3, <2>5, <4>1
    <3>8. \A e \in Entries, j \in Keys :
              Bears(e, j)' <=> Bears(e, j) \/ (e = Idx(p) /\ j = k)
      <4>1. Taken(Idx(p)) => memory[Idx(p)].key = k
        BY <2>3, <2>5
      <4>2. QED
        BY <3>5, <3>6, <4>1 DEF Bears
    <3>9. ASSUME NEW e \in Entries, Taken(e)' PROVE Fit(e)'
      <4>1. CASE e = Idx(p)
        <5>1. \A d \in Before(k, e) : Taken(d)'
          <6>1. ASSUME NEW d \in Before(k, e) PROVE Taken(d)
            BY <1>1, <2>1, <2>5, <4>1, <6>1, BeforeIsPassed DEF TableInv, Passed, At
          <6>2. QED
            BY <2>5, <3>5, <6>1, BeforeInTable
        <5>2. \A d \in Entries \ {e} : ~Bears(d, k)'
          BY <2>5, <3>7, <3>8, <4>1
        <5>3. QED
          BY <2>3, <3>6, <4>1, <5>1, <5>2 DEF Fit, Before
      <4>2. CASE e # Idx(p)
        <5>1. Taken(e) /\ memory'[e] = memory[e] /\ memory[e].key \in Keys
          BY <3>5, <3>9, <4>2 DEF TableInv, Table, Fit
        <5>2. \A d \in Before(memory[e].key, e) : Taken(d)'
          BY <3>5, <5>1, BeforeInTable DEF TableInv, Table, Fit
        <5>3. \A d \in Entries \ {e} : ~Bears(d, memory[e].key)'
          <6>1. memory[e].key # k
            BY <3>7, <4>2, <5>1 DEF Bears
          <6>2. \A d \in Entries \ {e} : ~Bears(d, memory[e].key)
            BY <5>1 DEF TableInv, Table, Fit
          <6>3. QED
            BY <3>5, <5>1, <6>1, <6>2, <3>6 DEF Bears
        <5>4. memory[e].len \in Values /\ \A n \in 1 .. ValLen : memory[e].val[n] = memory[e].len
          BY <3>4, <4>2, <5>1 DEF TableInv, Table, Fit
        <5>5. QED
          BY <5>1, <5>2, <5>3, <5>4 DEF Fit, Before
      <4>3. QED
        BY <4>1, <4>2
    <3>10. \A q \in Procs \ {p} :
              Young(proc[q])' /\ Passed(q)' /\ Copies(q)' /\ Reads(q)'
      BY <1>3, <3>3 DEF TableInv, Young, Passed, Copies, Reads, Writing, In, Inside
    <3>11. Young(proc[p])' /\ Passed(p)' /\ Copies(p)' /\ Reads(p)'
      BY <3>2, <3>3, <3>4 DEF Young, Passed, Copies, Reads, At
    <3>12. QED
      BY <3>9, <3>10, <3>11 DEF TableInv, Table, Fit
  <2>8. QED
    BY <2>6, <2>7
<1>9. QED
  BY <1>4, <1>5, <1>6, <1>7, <1>8 DEF Copy

LEMMA TableStep ==
    ASSUME Undisturbed, TypeInv, LockInv, TableInv, [Next]_vars
    PROVE  TableInv'
<1>1. CASE UNCHANGED vars
  <2>1. memory' = memory /\ proc' = proc
    BY <1>1 DEF vars
  <2>2. \A p \in Procs : Idx(p)' = Idx(p) /\ Young(proc[p])' = Young(proc[p])
    BY <2>1 DEF Idx, Young
  <2>3. \A e : Taken(e)' = Taken(e)
    BY <2>1 DEF Taken, Filling, Writing, Idx
  <2>4. \A e, k : Bears(e, k)' = Bears(e, k)
    BY <2>1, <2>3 DEF Bears
  <2>5. Table' = Table
    BY <2>1, <2>2, <2>3, <2>4 DEF Table, Fit, Writing, Before
  <2>6. \A p \in Procs : Passed(p)' = Passed(p)
    BY <2>1, <2>3 DEF Passed, In, At
  <2>7. \A p \in Procs : Copies(p)' = Copies(p) /\ Reads(p)' = Reads(p)
    BY <2>1, <2>2, <2>4 DEF Copies, Reads, Writing
  <2>8. QED
    BY <2>2, <2>5, <2>6, <2>7 DEF TableInv
<1>2. ASSUME NEW p \in Procs,
             \/ Begin(p) \/ Acquire(p) \/ GiveUp(p) \/ ForceUnlock(p) \/ Unlock(p) \/ Crash(p)
      PROVE  TableInv'
  BY <1>2, OutsideKeepsTable
<1>3. ASSUME NEW p \in Procs, Probe(p) PROVE TableInv'
  BY <1>3, ProbeKeepsTable
<1>4. ASSUME NEW p \in Procs, Copy(p) PROVE TableInv'
  BY <1>4, CopyKeepsTable
<1>5. QED
  BY <1>1, <1>2, <1>3, <1>4 DEF Next

LEMMA TableInit == Init => TableInv
<1> SUFFICES ASSUME Init PROVE TableInv
  OBVIOUS
<1>1. \A e \in Entries : ~Taken(e)
  BY DEF Init, Taken, EmptyEntry
<1>2. \A p \in Procs : proc[p].pc = "idle"
  BY DEF Init, Idle, Call
<1>3. QED
  BY <1>1, <1>2
     DEF TableInv, Table, Fit, Young, Passed, Copies, Reads, Writing, In, Inside

\* Unless an entry is being written, no key has two entries and every lookup
\* reaches the one there is: with any number of processes, keys and entries, as
\* long as no process is held up or killed inside the lock.
THEOREM TableStaysSound ==
    ASSUME Undisturbed PROVE Spec => []TableSound
<1>1. TableInv => TableSound
  <2> SUFFICES ASSUME TableInv, \A p \in Procs : ~Writing(p),
                      NEW e \in Entries, memory[e].status = 1
               PROVE  /\ memory[e].key \in Keys
                      /\ \A d \in Before(memory[e].key, e) :
                            memory[d].status = 1 /\ memory[d].key # memory[e].key
                      /\ \A d \in Entries \ {e} :
                            memory[d].status = 1 => memory[d].key # memory[e].key
    BY DEF TableSound
  <2>1. \A d \in Entries : Taken(d) <=> memory[d].status = 1
    BY DEF Taken, Filling
  <2>2. /\ memory[e].key \in Keys
        /\ \A d \in Before(memory[e].key, e) : Taken(d)
        /\ \A d \in Entries \ {e} : ~Bears(d, memory[e].key)
    BY <2>1 DEF TableInv, Table, Fit
  <2>3. \A d \in Entries \ {e} : memory[d].status = 1 => memory[d].key # memory[e].key
    BY <2>1, <2>2 DEF Bears
  <2>4. \A d \in Before(memory[e].key, e) : d \in Entries \ {e}
    <3>1. ASSUME NEW d \in Before(memory[e].key, e) PROVE d # e
      <4>1. PICK i \in Entries : /\ d = (Hash[memory[e].key] + i) % MaxEntries
                                 /\ \A h \in 0 .. i : (Hash[memory[e].key] + h) % MaxEntries # e
        BY DEF Before
      <4>2. i \in 0 .. i
        BY MapAssumption DEF Entries
      <4>3. QED
        BY <4>1, <4>2
    <3>2. QED
      BY <2>2, <3>1, BeforeInTable
  <2>5. QED
    BY <2>1, <2>2, <2>3, <2>4
<1>2. TypeInv /\ LockInv /\ [Next]_vars => LockInv'
  BY NeverForced
<1>3. TypeInv /\ LockInv /\ TableInv /\ [Next]_vars => TableInv'
  BY TableStep
<1>4. QED
  BY TypeInit, TypeStep, LockInit, TableInit, <1>1, <1>2, <1>3, PTL DEF Spec

-----------------------------------------------------------------------------
(* The map that callers see                                                *)

Writes(q, k) == Writing(q) /\ proc[q].key = k

\* What KV says of a key: the value of the set that is filling its entry, else
\* the length word of its entry, else nothing.
Viewed ==
    \A k \in Keys :
        /\ \A p \in Procs : Writes(p, k) => KV[k] = proc[p].val
        /\ (\A p \in Procs : ~Writes(p, k)) =>
              /\ \A e \in Entries : Bears(e, k) => KV[k] = memory[e].len
              /\ (\A e \in Entries : ~Bears(e, k)) => KV[k] = Absent

LEMMA Lookup == TypeInv /\ LockInv /\ TableInv => Viewed
<1> SUFFICES ASSUME TypeInv, LockInv, TableInv, NEW k \in Keys
             PROVE  /\ \A p \in Procs : Writes(p, k) => KV[k] = proc[p].val
                    /\ (\A p \in Procs : ~Writes(p, k)) =>
                          /\ \A e \in Entries : Bears(e, k) => KV[k] = memory[e].len
                          /\ (\A e \in Entries : ~Bears(e, k)) => KV[k] = Absent
  BY DEF Viewed
<1> DEFINE w == CHOOSE p \in Writers(k) : TRUE
           c == CHOOSE e \in Stored(k) : TRUE
<1>1. KV[k] = IF Writers(k) # {} THEN proc[w].val
              ELSE IF Stored(k) # {} THEN memory[c].len ELSE Absent
  BY DEF KV
<1>2. Writers(k) # {} => w \in Writers(k)
  OBVIOUS
<1>3. Stored(k) # {} => c \in Stored(k)
  OBVIOUS
<1> HIDE DEF w, c
<1>4. ASSUME NEW p \in Procs, Writes(p, k) PROVE KV[k] = proc[p].val
  <2>1. p \in Writers(k)
    BY <1>4 DEF Writers, Writes
  <2>2. \A q \in Writers(k) : q = p
    BY <1>4, Alone DEF Writers, Writes, Writing, In, Inside
  <2>3. QED
    BY <1>1, <1>2, <2>1, <2>2
<1>5. ASSUME \A p \in Procs : ~Writes(p, k)
      PROVE  /\ \A e \in Entries : Bears(e, k) => KV[k] = memory[e].len
             /\ (\A e \in Entries : ~Bears(e, k)) => KV[k] = Absent
  <2>1. Writers(k) = {}
    BY <1>5 DEF Writers, Writes
  <2>2. \A e \in Stored(k) : e \in Entries /\ Bears(e, k)
    BY DEF Stored, Bears, Taken, Filling
  <2>3. ASSUME NEW e \in Entries, Bears(e, k) PROVE KV[k] = memory[e].len
    <3>1. ASSUME NEW p \in Procs, Writing(p) PROVE Idx(p) # e
      <4>1. Idx(p) = e => ~proc[p].new
        BY <2>3, <3>1 DEF Bears, Taken, Filling
      <4>2. Idx(p) = e => memory[e].key = proc[p].key
        BY <3>1, <4>1 DEF TableInv, Copies
      <4>3. QED
        BY <1>5, <2>3, <3>1, <4>2 DEF Writes, Bears
    <3>2. e \in Stored(k)
      BY <2>3, <3>1 DEF Stored, Bears, Taken
    <3>3. \A d \in Stored(k) : d = e
      BY <2>2, <2>3 DEF TableInv, Table, Fit, Bears
    <3>4. QED
      BY <1>1, <1>3, <2>1, <3>2, <3>3
  <2>4. QED
    BY <1>1, <2>1, <2>2, <2>3
<1>6. QED
  BY <1>4, <1>5

\* A step that touches neither the entry of k nor a set of k keeps its value.
LEMMA SameAt ==
    ASSUME Viewed, Viewed', NEW k \in Keys,
           \A q \in Procs : Writes(q, k)' <=> Writes(q, k),
           \A q \in Procs : Writes(q, k) => proc'[q].val = proc[q].val,
           \A e \in Entries : Bears(e, k)' <=> Bears(e, k),
           \A e \in Entries : Bears(e, k) /\ (\A q \in Procs : ~Writes(q, k))
                                => memory'[e].len = memory[e].len
    PROVE  KV'[k] = KV[k]
<1>1. CASE \E q \in Procs : Writes(q, k)
  BY <1>1 DEF Viewed
<1>2. CASE /\ \A q \in Procs : ~Writes(q, k)
           /\ \E e \in Entries : Bears(e, k)
  BY <1>2 DEF Viewed
<1>3. CASE /\ \A q \in Procs : ~Writes(q, k)
           /\ \A e \in Entries : ~Bears(e, k)
  BY <1>3 DEF Viewed, Absent
<1>4. QED
  BY <1>1, <1>2, <1>3

LEMMA SameMap ==
    ASSUME \A k \in Keys : KV'[k] = KV[k]
    PROVE  KV' = KV
<1>1. KV = [k \in Keys |-> KV[k]]
  BY DEF KV
<1>2. KV' = [k \in Keys |-> KV'[k]]
  BY DEF KV
<1>3. QED
  BY <1>1, <1>2

\* A step that writes nothing, of a process that does not begin to.
LEMMA QuietMap ==
    ASSUME TypeInv, LockInv, TableInv, Viewed, Viewed', NEW p \in Procs, NEW s,
           Goto(p, s), memory' = memory, ~Writing(p), s.pc \notin {"wlen", "wkey", "wval"}
    PROVE  KV' = KV
<1>1. proc'[p] = s /\ \A q \in Procs \ {p} : proc'[q] = proc[q]
  BY OnlyMover
<1>2. \A e \in Entries, k \in Keys : Bears(e, k)' <=> Bears(e, k)
  BY Quiet
<1>3. ASSUME NEW k \in Keys PROVE KV'[k] = KV[k]
  <2>1. \A q \in Procs : Writes(q, k)' <=> Writes(q, k)
    BY <1>1 DEF Writes, Writing
  <2>2. \A q \in Procs : Writes(q, k) => proc'[q].val = proc[q].val
    BY <1>1 DEF Writes
  <2>3. QED
    BY <1>2, <2>1, <2>2, SameAt
<1>4. QED
  BY <1>3, SameMap

-----------------------------------------------------------------------------
(* The calls                                                               *)

Called ==
    \A p \in Procs :
        /\ proc[p].pc \in {"idle", "dead"} => CallOf(p) = [st |-> "idle"]
        /\ proc[p].pc \in {"lock", "force", "probe"} =>
              CallOf(p) = [st |-> "invoked", op |-> proc[p].op, key |-> proc[p].key,
                           val |-> proc[p].val]
        /\ Writing(p) => CallOf(p) = [st |-> "done", res |-> "ok"]
        /\ proc[p].pc \in {"rlen", "rval"} =>
              CallOf(p) = [st |-> "done", res |-> KV[proc[p].key]]
        /\ proc[p].pc = "unlock" =>
              CallOf(p) = [st |-> "done",
                           res |-> IF proc[p].ret = "hit" THEN Got(p)
                                   ELSE IF proc[p].ret = "miss" THEN Absent
                                   ELSE proc[p].ret]

LEMMA Calling == Called
<1> SUFFICES ASSUME NEW p \in Procs
             PROVE  /\ proc[p].pc \in {"idle", "dead"} => CallOf(p) = [st |-> "idle"]
                    /\ proc[p].pc \in {"lock", "force", "probe"} =>
                          CallOf(p) = [st |-> "invoked", op |-> proc[p].op,
                                       key |-> proc[p].key, val |-> proc[p].val]
                    /\ Writing(p) => CallOf(p) = [st |-> "done", res |-> "ok"]
                    /\ proc[p].pc \in {"rlen", "rval"} =>
                          CallOf(p) = [st |-> "done", res |-> KV[proc[p].key]]
                    /\ proc[p].pc = "unlock" =>
                          CallOf(p) = [st |-> "done",
                                       res |-> IF proc[p].ret = "hit" THEN Got(p)
                                               ELSE IF proc[p].ret = "miss" THEN Absent
                                               ELSE proc[p].ret]
  BY DEF Called
<1> USE DEF Writing
<1>1. ASSUME proc[p].pc \in {"idle", "dead"} PROVE CallOf(p) = [st |-> "idle"]
  BY <1>1 DEF CallOf
<1>2. ASSUME proc[p].pc \in {"lock", "force", "probe"}
      PROVE  CallOf(p) = [st |-> "invoked", op |-> proc[p].op, key |-> proc[p].key,
                          val |-> proc[p].val]
  BY <1>2 DEF CallOf
<1>3. ASSUME Writing(p) PROVE CallOf(p) = [st |-> "done", res |-> "ok"]
  BY <1>3 DEF CallOf
<1>4. ASSUME proc[p].pc \in {"rlen", "rval"}
      PROVE  CallOf(p) = [st |-> "done", res |-> KV[proc[p].key]]
  BY <1>4 DEF CallOf
<1>5. ASSUME proc[p].pc = "unlock"
      PROVE  CallOf(p) = [st |-> "done", res |-> IF proc[p].ret = "hit" THEN Got(p)
                                                 ELSE IF proc[p].ret = "miss" THEN Absent
                                                 ELSE proc[p].ret]
  BY <1>5 DEF CallOf
<1>6. QED
  BY <1>1, <1>2, <1>3, <1>4, <1>5

\* Nobody's call but the mover's changes: a reader would be alone inside.
LEMMA OthersCalls ==
    ASSUME TypeInv, LockInv, NEW p \in Procs, NEW s, Goto(p, s), KV' = KV \/ In(p)
    PROVE  \A q \in Procs \ {p} : CallOf(q)' = CallOf(q)
<1>1. \A q \in Procs \ {p} : proc'[q] = proc[q]
  BY OnlyMover
<1>2. ASSUME NEW q \in Procs \ {p} PROVE CallOf(q)' = CallOf(q)
  <2>1. CASE proc[q].pc \in {"rlen", "rval"}
    <3>1. KV' = KV
      BY <2>1, Alone DEF In, Inside
    <3>2. QED
      BY <1>1, <3>1 DEF CallOf, Writing, Got
  <2>2. CASE proc[q].pc \notin {"rlen", "rval"}
    <3>1. Called /\ Called'
      BY Calling, PTL
    <3>2. /\ proc'[q] = proc[q] /\ Got(q)' = Got(q) /\ (Writing(q)' <=> Writing(q))
          /\ proc[q].pc \in Places
      BY <1>1, SoundFields DEF Got, Writing, ProcState
    <3>3. QED
      BY <2>2, <3>1, <3>2 DEF Called, Places, Inside, Writing, Absent
  <2>3. QED
    BY <2>1, <2>2
<1>3. QED
  BY <1>2

\* The map from one state to the next, in the variables of AtomicMap.
LEMMA OneCall ==
    ASSUME NEW p \in Procs, \A q \in Procs \ {p} : CallOf(q)' = CallOf(q), NEW x,
           CallOf(p)' = x
    PROVE  [q \in Procs |-> CallOf(q)]' = [[q \in Procs |-> CallOf(q)] EXCEPT ![p] = x]
OBVIOUS

LEMMA Stutter ==
    ASSUME NEW p \in Procs, \A q \in Procs \ {p} : CallOf(q)' = CallOf(q),
           CallOf(p)' = CallOf(p), KV' = KV
    PROVE  UNCHANGED Atomic!vars
<1>1. [q \in Procs |-> CallOf(q)]' = [q \in Procs |-> CallOf(q)]
  OBVIOUS
<1>2. QED
  BY <1>1 DEF Atomic!vars

\* The entries that bear a key are as many as the keys that are present.
LEMMA PresentBears ==
    ASSUME Viewed, TableInv, \A q \in Procs : ~Writing(q)
    PROVE  \A k \in Keys : k \in Atomic!Present <=> \E e \in Entries : Bears(e, k)
<1>1. ASSUME NEW k \in Keys, NEW e \in Entries, Bears(e, k) PROVE KV[k] # Absent
  <2>1. KV[k] = memory[e].len
    BY <1>1 DEF Viewed, Writes
  <2>2. memory[e].len \in Values
    BY <1>1 DEF TableInv, Table, Fit, Bears
  <2>3. QED
    BY <2>1, <2>2, MapAssumption DEF Absent
<1>2. ASSUME NEW k \in Keys, \A e \in Entries : ~Bears(e, k) PROVE KV[k] = Absent
  BY <1>2 DEF Viewed, Writes
<1>3. QED
  BY <1>1, <1>2 DEF Atomic!Present

LEMMA TableSize == IsFiniteSet(Entries) /\ Cardinality(Entries) = MaxEntries
<1>1. MaxEntries \in Nat \ {0}
  BY MapAssumption
<1>2. QED
  BY <1>1, FS_Interval DEF Entries

\* AtomicMap counts by its own instance of FiniteSets.
LEMMA SameCount == \A S : Atomic!Cardinality(S) = Cardinality(S)
BY DEF Cardinality, Atomic!Cardinality

\* While an entry is free there is room, and a table all taken is full.
LEMMA Room ==
    ASSUME Viewed, TableInv, \A q \in Procs : ~Writing(q)
    PROVE  /\ IsFiniteSet(Atomic!Present)
           /\ (\E e \in Entries : ~Taken(e)) => Cardinality(Atomic!Present) < MaxEntries
           /\ (\A e \in Entries : Taken(e)) => Cardinality(Atomic!Present) = MaxEntries
<1> DEFINE P == Atomic!Present
           f == [k \in P |-> CHOOSE e \in Entries : Bears(e, k)]
           T == {e \in Entries : Taken(e)}
           g == [e \in T |-> memory[e].key]
<1>1. \A k \in P : k \in Keys /\ \E e \in Entries : Bears(e, k)
  BY PresentBears DEF Atomic!Present
<1>2. \A k \in P : f[k] \in T /\ Bears(f[k], k)
  BY <1>1 DEF Bears
<1>3. f \in Injection(P, T)
  <2>1. f \in [P -> T]
    BY <1>2
  <2>2. \A a, b \in P : f[a] = f[b] => a = b
    BY <1>2 DEF Bears
  <2>3. QED
    BY <2>1, <2>2 DEF Injection, IsInjective
<1>4. g \in Injection(T, P)
  <2>1. \A e \in T : /\ memory[e].key \in Keys /\ Bears(e, memory[e].key)
                     /\ \A d \in Entries \ {e} : ~Bears(d, memory[e].key)
    BY DEF TableInv, Table, Fit, Bears
  <2>2. g \in [T -> P]
    BY <2>1, PresentBears
  <2>3. \A a, b \in T : g[a] = g[b] => a = b
    BY <2>1
  <2>4. QED
    BY <2>2, <2>3 DEF Injection, IsInjective
<1>5. IsFiniteSet(T) /\ T \subseteq Entries
  BY TableSize, FS_Subset
<1> HIDE DEF f, g, P
<1>6. IsFiniteSet(P) /\ Cardinality(P) <= Cardinality(T)
  BY <1>3, <1>5, FS_Injection
<1>7. Cardinality(T) <= Cardinality(P)
  BY <1>4, <1>6, FS_Injection
<1>8. Cardinality(P) = Cardinality(T)
  BY <1>5, <1>6, <1>7, FS_CardinalityType
<1>9. ASSUME NEW e \in Entries, ~Taken(e) PROVE Cardinality(T) < MaxEntries
  <2>1. T # Entries
    BY <1>9
  <2>2. Cardinality(T) <= Cardinality(Entries) /\ Cardinality(T) # Cardinality(Entries)
    BY <1>5, <2>1, TableSize, FS_Subset
  <2>3. QED
    BY <1>5, <2>2, TableSize, FS_CardinalityType
<1>10. (\A e \in Entries : Taken(e)) => T = Entries
  OBVIOUS
<1>11. QED
  BY <1>6, <1>8, <1>9, <1>10, TableSize DEF P

-----------------------------------------------------------------------------
(* Every step is a step of AtomicMap, or none                              *)

\* What the steps below start from, and what they have reached.
Ready == TypeInv /\ LockInv /\ TableInv /\ Viewed /\ Called

CallOrLock(p) ==
    \/ Begin(p) \/ Acquire(p) \/ GiveUp(p) \/ ForceUnlock(p) \/ Unlock(p) \/ Crash(p)

LEMMA CallsAndLock ==
    ASSUME Undisturbed, Ready, Ready', NEW p \in Procs, CallOrLock(p)
    PROVE  [Atomic!Next]_(Atomic!vars)
<1> DEFINE M == [q \in Procs |-> CallOf(q)]
<1>1. ~Crash(p) /\ proc[p] \in ProcState
  BY SoundFields DEF Crash, Undisturbed, Ready
<1>2. memory' = memory /\ ~Writing(p)
  BY <1>1 DEF CallOrLock, Begin, Acquire, GiveUp, ForceUnlock, Unlock, At, Writing
<1>3. ASSUME Begin(p) PROVE Atomic!Next
  <2>1. PICK k \in Keys, op \in {"set", "get"}, v \in Words :
            /\ Goto(p, Call("lock", op, k, v)) /\ proc[p].pc = "idle"
            /\ (op = "set" /\ v \in Values) \/ (op = "get" /\ v = 0)
    BY <1>3 DEF Begin, Words, At
  <2> DEFINE s == Call("lock", op, k, v)
  <2>2. s.pc = "lock" /\ s.op = op /\ s.key = k /\ s.val = v
    BY DEF Call
  <2> HIDE DEF s
  <2>3. proc'[p] = s
    BY <2>1, OnlyMover DEF Ready, s
  <2>4. KV' = KV
    BY <1>2, <2>1, <2>2, QuietMap DEF Ready, s
  <2>5. CallOf(p) = [st |-> "idle"]
    BY <2>1 DEF Ready, Called
  <2>6. CallOf(p)' = [st |-> "invoked", op |-> op, key |-> k, val |-> v]
    BY <2>2, <2>3 DEF Ready, Called
  <2>7. \A q \in Procs \ {p} : CallOf(q)' = CallOf(q)
    BY <2>1, <2>4, OthersCalls DEF Ready, s
  <2>8. M' = [M EXCEPT ![p] = Atomic!Invoked(op, k, v)]
    BY <2>6, <2>7, OneCall DEF Atomic!Invoked
  <2>9. M[p] = Atomic!Idle
    BY <2>5 DEF Atomic!Idle
  <2> HIDE DEF M
  <2>10. Atomic!Invoke(p)
    BY <2>1, <2>4, <2>8, <2>9 DEF Atomic!Invoke, M, Absent
  <2>11. QED
    BY <2>10 DEF Atomic!Next
<1>4. ASSUME Acquire(p) \/ GiveUp(p) \/ ForceUnlock(p) PROVE UNCHANGED Atomic!vars
  <2>1. PICK place \in {"lock", "force", "probe"} :
            Goto(p, [proc[p] EXCEPT !.pc = place]) /\ proc[p].pc \in {"lock", "force"}
    BY <1>4 DEF Acquire, GiveUp, ForceUnlock, At
  <2> DEFINE s == [proc[p] EXCEPT !.pc = place]
  <2>2. s.pc = place /\ s.op = proc[p].op /\ s.key = proc[p].key /\ s.val = proc[p].val
    BY <1>1, Moved
  <2> HIDE DEF s
  <2>3. proc'[p] = s
    BY <2>1, OnlyMover DEF Ready, s
  <2>4. KV' = KV
    BY <1>2, <2>1, <2>2, QuietMap DEF Ready, s
  <2>5. CallOf(p)' = CallOf(p)
    BY <2>1, <2>2, <2>3 DEF Ready, Called
  <2>6. \A q \in Procs \ {p} : CallOf(q)' = CallOf(q)
    BY <2>1, <2>4, OthersCalls DEF Ready, s
  <2>7. QED
    BY <2>4, <2>5, <2>6, Stutter
<1>5. ASSUME Unlock(p) PROVE Atomic!Next
  <2>1. Goto(p, Idle) /\ proc[p].pc = "unlock" /\ Idle.pc = "idle"
    BY <1>5 DEF Unlock, At, Idle, Call
  <2>2. KV' = KV
    BY <1>2, <2>1, QuietMap DEF Ready
  <2>3. proc'[p].pc = "idle"
    BY <2>1, OnlyMover DEF Ready
  <2>4. CallOf(p)' = [st |-> "idle"]
    BY <2>3 DEF Ready, Called
  <2>5. CallOf(p).st = "done"
    BY <2>1 DEF Ready, Called
  <2>6. \A q \in Procs \ {p} : CallOf(q)' = CallOf(q)
    BY <2>1, <2>2, OthersCalls DEF Ready
  <2>7. M' = [M EXCEPT ![p] = Atomic!Idle] /\ M[p].st = "done"
    BY <2>4, <2>5, <2>6, OneCall DEF Atomic!Idle
  <2> HIDE DEF M
  <2>8. Atomic!Return(p)
    BY <2>2, <2>7 DEF Atomic!Return, M
  <2>9. QED
    BY <2>8 DEF Atomic!Next
<1>6. QED
  BY <1>1, <1>3, <1>4, <1>5 DEF CallOrLock

LEMMA ProbeRefines ==
    ASSUME Ready, Ready', NEW p \in Procs, Probe(p)
    PROVE  [Atomic!Next]_(Atomic!vars)
<1> DEFINE M == [q \in Procs |-> CallOf(q)]
<1>1. /\ At(p, "probe") /\ In(p) /\ Idx(p) \in Entries /\ proc[p] \in ProcState
      /\ \A q \in Procs : ~Writing(q)
  <2>1. At(p, "probe") /\ In(p)
    BY DEF Probe, ProbeEmpty, ProbeMatch, ProbeOther, ProbeFull, Probing, At, In, Inside
  <2>2. QED
    BY <2>1, IdxInTable, SoundFields, Alone DEF Ready, At, Writing, In, Inside
<1>2. PICK k \in Keys : k = proc[p].key
  BY <1>1 DEF Ready, TypeInv, Sound, At
<1>3. /\ M[p] = [st |-> "invoked", op |-> proc[p].op, key |-> k, val |-> proc[p].val]
      /\ proc[p].op \in {"get", "set"} /\ proc[p].ret = "ok"
      /\ proc[p].op = "set" => proc[p].val \in Values
  BY <1>1, <1>2 DEF Ready, Called, At, ProcState, TableInv, Young
<1>4. ASSUME NEW s, Goto(p, s)
      PROVE  \A q \in Procs \ {p} : CallOf(q)' = CallOf(q)
  BY <1>1, <1>4, OthersCalls DEF Ready
\* a get that has ended its probe
<1>5. ASSUME proc[p].op = "get", NEW s, Goto(p, s), memory' = memory,
             s.pc \notin {"wlen", "wkey", "wval"},
             CallOf(p)' = [st |-> "done", res |-> KV[k]]
      PROVE  Atomic!Next
  <2>1. KV' = KV
    BY <1>1, <1>5, QuietMap DEF Ready
  <2>2. \A q \in Procs \ {p} : CallOf(q)' = CallOf(q)
    BY <1>4, <1>5
  <2>3. M' = [M EXCEPT ![p] = Atomic!Done(KV[k])]
    BY <1>5, <2>2, OneCall DEF Atomic!Done
  <2>4. M[p].st = "invoked" /\ M[p].op = "get" /\ M[p].key = k
    BY <1>3, <1>5
  <2> HIDE DEF M
  <2>5. Atomic!Get(p)
    BY <2>1, <2>3, <2>4 DEF Atomic!Get, M
  <2>6. QED
    BY <2>5 DEF Atomic!Next
\* a set that has found its entry
<1>6. ASSUME proc[p].op = "set", NEW s, Goto(p, s), s.pc = "wlen", s.key = k,
             s.val = proc[p].val,
             \A e \in Entries, j \in Keys : Bears(e, j)' <=> Bears(e, j),
             \A e \in Entries, j \in Keys : Bears(e, j) => memory'[e].len = memory[e].len,
             (\E e \in Entries : Bears(e, k)) \/ (\E e \in Entries : ~Taken(e))
      PROVE  Atomic!Next
  <2>1. proc'[p] = s /\ \A q \in Procs \ {p} : proc'[q] = proc[q]
    BY <1>6, OnlyMover DEF Ready
  <2>2. Writes(p, k)' /\ \A q \in Procs, j \in Keys : Writes(q, j)' => j = k
    BY <1>1, <1>6, <2>1 DEF Writes, Writing
  <2>3. KV'[k] = proc[p].val
    BY <1>6, <2>1, <2>2 DEF Ready, Viewed
  <2>4. ASSUME NEW j \in Keys, j # k PROVE KV'[j] = KV[j]
    <3>1. \A q \in Procs : ~Writes(q, j) /\ ~Writes(q, j)'
      BY <1>1, <2>2, <2>4 DEF Writes
    <3>2. QED
      BY <1>6, <3>1, SameAt DEF Ready
  <2>5. KV' = [KV EXCEPT ![k] = proc[p].val]
    <3>1. KV = [j \in Keys |-> KV[j]] /\ KV' = [j \in Keys |-> KV'[j]]
      BY DEF KV
    <3>2. QED
      BY <2>3, <2>4, <3>1
  <2>6. CallOf(p)' = [st |-> "done", res |-> "ok"]
    BY <1>6, <2>1 DEF Ready, Called, Writing
  <2>7. \A q \in Procs \ {p} : CallOf(q)' = CallOf(q)
    BY <1>4, <1>6
  <2>8. M' = [M EXCEPT ![p] = Atomic!Done("ok")]
    BY <2>6, <2>7, OneCall DEF Atomic!Done
  <2>9. /\ M[p].st = "invoked" /\ M[p].op = "set" /\ M[p].key = k
        /\ M[p].val = proc[p].val
    BY <1>3, <1>6
  <2>10. k \in Atomic!Present \/ Cardinality(Atomic!Present) < MaxEntries
    BY <1>1, <1>6, PresentBears, Room DEF Ready
  <2> HIDE DEF M
  <2>11. Atomic!Set(p)
    BY <2>5, <2>8, <2>9, <2>10, SameCount DEF Atomic!Set, M
  <2>12. QED
    BY <2>11 DEF Atomic!Next
<1>7. ASSUME ProbeEmpty(p) PROVE Atomic!Next
  <2>1. /\ proc[p].i < MaxEntries /\ memory[Idx(p)].status = 0 /\ ~Taken(Idx(p))
        /\ \A e \in Entries : ~Bears(e, k)
    BY <1>1, <1>2, <1>7, NotFound DEF ProbeEmpty, Probing, Taken, Ready
  <2>2. CASE proc[p].op = "get"
    <3> DEFINE s == [proc[p] EXCEPT !.pc = "unlock", !.ret = "miss"]
    <3>1. Goto(p, s) /\ memory' = memory
      BY <1>7, <2>2 DEF ProbeEmpty
    <3>2. s.pc = "unlock" /\ s.ret = "miss"
      BY <1>1, Moved
    <3> HIDE DEF s
    <3>3. proc'[p] = s
      BY <3>1, OnlyMover DEF Ready
    <3>4. KV[k] = Absent
      BY <1>1, <2>1 DEF Ready, Viewed, Writes
    <3>5. CallOf(p)' = [st |-> "done", res |-> KV[k]]
      BY <3>2, <3>3, <3>4 DEF Ready, Called, Absent
    <3>6. QED
      BY <1>5, <2>2, <3>1, <3>2, <3>5
  <2>3. CASE proc[p].op = "set"
    <3> DEFINE s == [proc[p] EXCEPT !.pc = "wlen", !.new = TRUE]
    <3>1. Goto(p, s) /\ memory' = [memory EXCEPT ![Idx(p)].status = 1]
      BY <1>7, <2>3 DEF ProbeEmpty
    <3>2. s.pc = "wlen" /\ s.key = k /\ s.val = proc[p].val /\ s.new /\ s.i = proc[p].i
      BY <1>1, <1>2, Moved
    <3> HIDE DEF s
    <3>3. proc'[p] = s /\ \A q \in Procs \ {p} : proc'[q] = proc[q]
      BY <3>1, OnlyMover DEF Ready
    <3>4. Idx(p)' = Idx(p) /\ Writing(p)'
      BY <1>2, <3>2, <3>3 DEF Idx, Writing
    <3>5. \A e \in Entries \ {Idx(p)} : memory'[e] = memory[e]
      BY <1>1, <3>1 DEF Ready, TypeInv
    <3>6. \A e \in Entries : Taken(e)' <=> Taken(e)
      <4>1. ASSUME NEW e \in Entries, e = Idx(p) PROVE ~Taken(e)'
        BY <3>2, <3>3, <3>4, <4>1 DEF Taken, Filling
      <4>2. ASSUME NEW e \in Entries \ {Idx(p)}, NEW q \in Procs
            PROVE  ~Filling(q, e) /\ ~Filling(q, e)'
        BY <1>1, <3>3, <3>4 DEF Filling, Writing
      <4>3. ASSUME NEW e \in Entries \ {Idx(p)} PROVE Taken(e)' <=> Taken(e)
        BY <3>5, <4>2 DEF Taken
      <4>4. QED
        BY <2>1, <4>1, <4>3
    <3>7. \A e \in Entries, j \in Keys : Bears(e, j)' <=> Bears(e, j)
      BY <2>1, <3>5, <3>6 DEF Bears
    <3>8. \A e \in Entries, j \in Keys : Bears(e, j) => memory'[e].len = memory[e].len
      BY <2>1, <3>5 DEF Bears
    <3>9. QED
      BY <1>1, <1>6, <2>1, <2>3, <3>1, <3>2, <3>7, <3>8
  <2>4. QED
    BY <1>3, <2>2, <2>3
<1>8. ASSUME ProbeMatch(p) PROVE Atomic!Next
  <2>1. Bears(Idx(p), k) /\ memory' = memory
    BY <1>1, <1>2, <1>8 DEF ProbeMatch, Matches, Bears, Taken, Filling
  <2>2. CASE proc[p].op = "get"
    <3> DEFINE s == [proc[p] EXCEPT !.pc = "rlen", !.ret = "hit"]
    <3>1. Goto(p, s)
      BY <1>8, <2>2 DEF ProbeMatch
    <3>2. s.pc = "rlen" /\ s.key = k
      BY <1>1, <1>2, Moved
    <3> HIDE DEF s
    <3>3. proc'[p] = s
      BY <3>1, OnlyMover DEF Ready
    <3>4. KV' = KV
      BY <1>1, <2>1, <3>1, <3>2, QuietMap DEF Ready
    <3>5. CallOf(p)' = [st |-> "done", res |-> KV[k]]
      BY <3>2, <3>3, <3>4 DEF Ready, Called
    <3>6. QED
      BY <1>5, <2>1, <2>2, <3>1, <3>2, <3>5
  <2>3. CASE proc[p].op = "set"
    <3> DEFINE s == [proc[p] EXCEPT !.pc = "wlen"]
    <3>1. Goto(p, s)
      BY <1>8, <2>3 DEF ProbeMatch
    <3>2. s.pc = "wlen" /\ s.key = k /\ s.val = proc[p].val /\ ~s.new
      BY <1>1, <1>2, Moved DEF Ready, TableInv, Young, At
    <3> HIDE DEF s
    <3>3. \A e \in Entries, j \in Keys : Bears(e, j)' <=> Bears(e, j)
      BY <1>1, <2>1, <3>1, <3>2, Quiet DEF Ready
    <3>4. QED
      BY <1>1, <1>6, <2>1, <2>3, <3>1, <3>2, <3>3
  <2>4. QED
    BY <1>3, <2>2, <2>3
<1>9. ASSUME ProbeOther(p) PROVE UNCHANGED Atomic!vars
  <2> DEFINE s == [proc[p] EXCEPT !.i = @ + 1]
  <2>1. Goto(p, s) /\ memory' = memory
    BY <1>9 DEF ProbeOther
  <2>2. s.pc = "probe" /\ s.op = proc[p].op /\ s.key = proc[p].key /\ s.val = proc[p].val
    BY <1>1 DEF ProcState, At
  <2> HIDE DEF s
  <2>3. proc'[p] = s
    BY <2>1, OnlyMover DEF Ready
  <2>4. KV' = KV
    BY <1>1, <2>1, <2>2, QuietMap DEF Ready
  <2>5. CallOf(p)' = CallOf(p)
    BY <1>1, <2>2, <2>3 DEF Ready, Called, At
  <2>6. QED
    BY <1>4, <2>1, <2>4, <2>5, Stutter
<1>10. ASSUME ProbeFull(p) PROVE Atomic!Next
  <2> DEFINE ret == IF proc[p].op = "get" THEN "miss" ELSE "full"
             s == [proc[p] EXCEPT !.pc = "unlock", !.ret = ret]
  <2>1. Goto(p, s) /\ memory' = memory /\ proc[p].i = MaxEntries
    BY <1>10 DEF ProbeFull
  <2>2. s.pc = "unlock" /\ s.ret = ret
    BY <1>1, Moved
  <2> HIDE DEF s
  <2>3. proc'[p] = s
    BY <2>1, OnlyMover DEF Ready
  <2>4. \A e \in Entries : Taken(e) /\ ~Bears(e, k)
    BY <1>1, <1>2, <2>1, NotFoundAnywhere DEF Ready
  <2>5. CASE proc[p].op = "get"
    <3>1. KV[k] = Absent
      BY <1>1, <2>4 DEF Ready, Viewed, Writes
    <3>2. CallOf(p)' = [st |-> "done", res |-> KV[k]]
      BY <2>2, <2>3, <2>5, <3>1 DEF Ready, Called, Absent
    <3>3. QED
      BY <1>5, <2>1, <2>2, <2>5, <3>2
  <2>6. CASE proc[p].op = "set"
    <3>1. KV' = KV
      BY <1>1, <2>1, <2>2, QuietMap DEF Ready
    <3>2. CallOf(p)' = [st |-> "done", res |-> "full"]
      BY <2>2, <2>3, <2>6 DEF Ready, Called
    <3>3. \A q \in Procs \ {p} : CallOf(q)' = CallOf(q)
      BY <1>4, <2>1
    <3>4. M' = [M EXCEPT ![p] = Atomic!Done("full")]
      BY <3>2, <3>3, OneCall DEF Atomic!Done
    <3>5. M[p].st = "invoked" /\ M[p].op = "set" /\ M[p].key = k
      BY <1>3, <2>6
    <3>6. k \notin Atomic!Present /\ Cardinality(Atomic!Present) = MaxEntries
      BY <1>1, <2>4, PresentBears, Room DEF Ready
    <3> HIDE DEF M
    <3>7. Atomic!SetFull(p)
      BY <3>1, <3>4, <3>5, <3>6, SameCount DEF Atomic!SetFull, M
    <3>8. QED
      BY <3>7 DEF Atomic!Next
  <2>7. QED
    BY <1>3, <2>5, <2>6
<1>11. QED
  BY <1>7, <1>8, <1>9, <1>10 DEF Probe

LEMMA CopyRefines ==
    ASSUME Ready, Ready', NEW p \in Procs, Copy(p)
    PROVE  [Atomic!Next]_(Atomic!vars)
<1>1. In(p) /\ Idx(p) \in Entries /\ \A q \in Procs : In(q) => q = p
  <2>1. In(p)
    BY DEF Copy, WriteLen, WriteKey, WriteVal, ReadLen, ReadVal, At, In, Inside
  <2>2. QED
    BY <2>1, IdxInTable, Alone DEF Ready, In, Inside
<1>2. PICK k \in Keys : k = proc[p].key
  BY <1>1 DEF Ready, TypeInv, Sound, In, Inside
<1>3. /\ proc[p] \in ProcState /\ memory \in [Entries -> Entry] /\ memory[Idx(p)] \in Entry
      /\ ValLen \in Nat \ {0}
  BY <1>1, SoundFields, MapAssumption DEF Ready, TypeInv
<1>4. ASSUME NEW s, Goto(p, s)
      PROVE  /\ proc'[p] = s /\ \A q \in Procs \ {p} : proc'[q] = proc[q]
             /\ \A q \in Procs \ {p} : CallOf(q)' = CallOf(q)
  BY <1>1, <1>4, OnlyMover, OthersCalls DEF Ready
\* a word of the entry that p is filling: the value of its key is p's own
<1>5. ASSUME Writing(p), NEW s, Goto(p, s), s.pc \in {"wlen", "wkey", "wval"},
             s.key = proc[p].key, s.val = proc[p].val, s.i = proc[p].i, s.new = proc[p].new,
             \A e \in Entries \ {Idx(p)} : memory'[e] = memory[e],
             memory'[Idx(p)].status = memory[Idx(p)].status,
             ~s.new => memory'[Idx(p)].key = memory[Idx(p)].key
      PROVE  UNCHANGED Atomic!vars
  <2>1. /\ proc'[p] = s /\ \A q \in Procs \ {p} : proc'[q] = proc[q]
        /\ \A q \in Procs \ {p} : CallOf(q)' = CallOf(q)
    BY <1>4, <1>5
  <2>2. Writing(p)' /\ Idx(p)' = Idx(p)
    BY <1>5, <2>1 DEF Writing, Idx
  <2>3. \A q \in Procs, e \in Entries : Filling(q, e)' <=> Filling(q, e)
    BY <1>5, <2>1, <2>2 DEF Filling, Writing, Idx
  <2>4. \A e \in Entries : Taken(e)' <=> Taken(e)
    BY <1>5, <2>3 DEF Taken
  <2>5. Taken(Idx(p)) => ~s.new
    BY <1>5 DEF Taken, Filling
  <2>6. \A e \in Entries, j \in Keys : Bears(e, j)' <=> Bears(e, j)
    BY <1>5, <2>4, <2>5 DEF Bears
  <2>7. Bears(Idx(p), k) \/ \A j \in Keys : ~Bears(Idx(p), j)
    <3>1. ~proc[p].new => memory[Idx(p)].key = k
      BY <1>2, <1>5 DEF Ready, TableInv, Copies
    <3>2. QED
      BY <1>5, <2>5, <3>1 DEF Bears
  <2>8. ASSUME NEW j \in Keys PROVE KV'[j] = KV[j]
    <3>1. \A q \in Procs : /\ Writes(q, j)' <=> Writes(q, j)
                           /\ Writes(q, j) => proc'[q].val = proc[q].val
      BY <1>5, <2>1, <2>2 DEF Writes, Writing
    <3>2. ASSUME NEW e \in Entries, Bears(e, j), \A q \in Procs : ~Writes(q, j)
          PROVE  memory'[e].len = memory[e].len
      <4>1. e # Idx(p)
        BY <1>2, <1>5, <2>7, <3>2 DEF Writes, Bears
      <4>2. QED
        BY <1>5, <4>1
    <3>3. QED
      BY <2>6, <3>1, <3>2, SameAt DEF Ready
  <2>9. KV' = KV
    BY <2>8, SameMap
  <2>10. CallOf(p)' = CallOf(p)
    BY <1>5, <2>2 DEF Ready, Called
  <2>11. QED
    BY <2>1, <2>9, <2>10, Stutter
<1>6. ASSUME WriteLen(p) PROVE UNCHANGED Atomic!vars
  <2> DEFINE m == [memory[Idx(p)] EXCEPT !.len = proc[p].val]
             s == [proc[p] EXCEPT !.pc = IF proc[p].new THEN "wkey" ELSE "wval"]
  <2>1. Goto(p, s) /\ Writing(p) /\ memory' = [memory EXCEPT ![Idx(p)] = m]
    BY <1>6 DEF WriteLen, At, Writing
  <2>2. m.status = memory[Idx(p)].status /\ m.key = memory[Idx(p)].key
    BY <1>3 DEF Entry
  <2>3. /\ s.pc = (IF proc[p].new THEN "wkey" ELSE "wval")
        /\ s.key = proc[p].key /\ s.val = proc[p].val /\ s.i = proc[p].i
        /\ s.new = proc[p].new
    BY <1>3, Moved
  <2> HIDE DEF m, s
  <2>4. memory'[Idx(p)] = m /\ \A e \in Entries \ {Idx(p)} : memory'[e] = memory[e]
    BY <1>1, <1>3, <2>1
  <2>5. s.pc \in {"wlen", "wkey", "wval"}
    BY <2>3
  <2>6. QED
    BY <1>5, <2>1, <2>2, <2>3, <2>4, <2>5
<1>7. ASSUME WriteKey(p) PROVE UNCHANGED Atomic!vars
  <2> DEFINE m == [memory[Idx(p)] EXCEPT !.key =
                      [memory[Idx(p)].key EXCEPT ![proc[p].n] = proc[p].key[proc[p].n]]]
  <2>1. Writing(p) /\ proc[p].pc = "wkey" /\ memory' = [memory EXCEPT ![Idx(p)] = m]
    BY <1>7 DEF WriteKey, At, Writing
  <2>2. m.status = memory[Idx(p)].status
    BY <1>3 DEF Entry
  <2>3. PICK s : /\ Goto(p, s) /\ s.pc \in {"wkey", "wval"}
                 /\ s.key = proc[p].key /\ s.val = proc[p].val /\ s.i = proc[p].i
                 /\ s.new = proc[p].new
    <3>1. CASE proc[p].n < KeyLen
      <4> DEFINE s == [proc[p] EXCEPT !.n = @ + 1]
      <4>1. Goto(p, s)
        BY <1>7, <3>1 DEF WriteKey
      <4>2. /\ s.pc = proc[p].pc /\ s.key = proc[p].key /\ s.val = proc[p].val
            /\ s.i = proc[p].i /\ s.new = proc[p].new
        BY <1>3 DEF ProcState
      <4> HIDE DEF s
      <4>3. QED
        BY <2>1, <4>1, <4>2 DEF s
    <3>2. CASE ~(proc[p].n < KeyLen)
      <4> DEFINE s == [proc[p] EXCEPT !.pc = "wval", !.n = 1]
      <4>1. Goto(p, s)
        BY <1>7, <3>2 DEF WriteKey
      <4>2. /\ s.pc = "wval" /\ s.key = proc[p].key /\ s.val = proc[p].val
            /\ s.i = proc[p].i /\ s.new = proc[p].new
        BY <1>3, Moved
      <4> HIDE DEF s
      <4>3. QED
        BY <4>1, <4>2 DEF s
    <3>3. QED
      BY <3>1, <3>2
  <2> HIDE DEF m
  <2>4. memory'[Idx(p)] = m /\ \A e \in Entries \ {Idx(p)} : memory'[e] = memory[e]
    BY <1>1, <1>3, <2>1
  <2>5. proc[p].new
    BY <2>1 DEF Ready, TableInv, Copies, Writing
  <2>6. QED
    BY <1>5, <2>1, <2>2, <2>3, <2>4, <2>5
<1>8. ASSUME WriteVal(p) PROVE UNCHANGED Atomic!vars
  <2> DEFINE m == [memory[Idx(p)] EXCEPT !.val =
                      [memory[Idx(p)].val EXCEPT ![proc[p].n] = proc[p].val]]
  <2>1. Writing(p) /\ proc[p].pc = "wval" /\ memory' = [memory EXCEPT ![Idx(p)] = m]
    BY <1>8 DEF WriteVal, At, Writing
  <2>2. /\ m.status = memory[Idx(p)].status /\ m.key = memory[Idx(p)].key
        /\ m.len = memory[Idx(p)].len
    BY <1>3 DEF Entry
  <2> HIDE DEF m
  <2>3. memory'[Idx(p)] = m /\ \A e \in Entries \ {Idx(p)} : memory'[e] = memory[e]
    BY <1>1, <1>3, <2>1
  <2>4. CASE proc[p].n < ValLen
    <3> DEFINE s == [proc[p] EXCEPT !.n = @ + 1]
    <3>1. Goto(p, s)
      BY <1>8, <2>4 DEF WriteVal
    <3>2. /\ s.pc = "wval" /\ s.key = proc[p].key /\ s.val = proc[p].val
          /\ s.i = proc[p].i /\ s.new = proc[p].new
      BY <1>3, <2>1 DEF ProcState
    <3> HIDE DEF s
    <3>3. QED
      BY <1>5, <2>1, <2>2, <2>3, <3>1, <3>2
  \* the last word: the entry speaks for itself
  <2>5. CASE ~(proc[p].n < ValLen)
    <3> DEFINE s == [proc[p] EXCEPT !.pc = "unlock"]
    <3>1. Goto(p, s)
      BY <1>8, <2>5 DEF WriteVal
    <3>2. s.pc = "unlock" /\ s.ret = proc[p].ret
      BY <1>3, Moved
    <3> HIDE DEF s
    <3>3. /\ proc'[p] = s /\ \A q \in Procs \ {p} : proc'[q] = proc[q]
          /\ \A q \in Procs \ {p} : CallOf(q)' = CallOf(q)
      BY <1>4, <3>1
    <3>4. /\ \A q \in Procs : ~Writing(q)'
          /\ \A q \in Procs : Writing(q) => q = p
      BY <1>1, <3>2, <3>3 DEF Writing, In, Inside
    <3>5. /\ memory[Idx(p)].status = 1 /\ memory[Idx(p)].key = k
          /\ memory[Idx(p)].len = proc[p].val /\ proc[p].ret = "ok"
      BY <1>2, <2>1 DEF Ready, TableInv, Copies
    <3>6. \A e \in Entries : Taken(e)' <=> Taken(e) \/ e = Idx(p)
      BY <2>2, <2>3, <3>4, <3>5 DEF Taken, Filling
    <3>7. KV'[k] = KV[k]
      <4>1. KV[k] = proc[p].val
        BY <1>2, <2>1 DEF Ready, Viewed, Writes
      <4>2. PICK e \in Entries : e = Idx(p)
        BY <1>1
      <4>3. Bears(e, k)' /\ \A q \in Procs : ~Writes(q, k)'
        BY <2>2, <2>3, <3>4, <3>5, <3>6, <4>2 DEF Bears, Writes
      <4>4. KV'[k] = memory'[e].len
        BY <4>3 DEF Ready, Viewed
      <4>5. QED
        BY <2>2, <2>3, <3>5, <4>1, <4>2, <4>4
    <3>8. ASSUME NEW j \in Keys, j # k PROVE KV'[j] = KV[j]
      <4>1. \A q \in Procs : ~Writes(q, j) /\ ~Writes(q, j)'
        BY <1>2, <3>4, <3>8 DEF Writes
      <4>2. \A e \in Entries : Bears(e, j)' <=> Bears(e, j)
        BY <2>2, <2>3, <3>5, <3>6, <3>8 DEF Bears
      <4>3. \A e \in Entries : memory'[e].len = memory[e].len
        BY <2>2, <2>3
      <4>4. QED
        BY <4>1, <4>2, <4>3, SameAt DEF Ready
    <3>9. KV' = KV
      BY <3>7, <3>8, SameMap
    <3>10. CallOf(p)' = CallOf(p)
      BY <2>1, <3>2, <3>3, <3>5 DEF Ready, Called
    <3>11. QED
      BY <3>3, <3>9, <3>10, Stutter
  <2>6. QED
    BY <2>4, <2>5
<1>9. ASSUME ReadLen(p) PROVE UNCHANGED Atomic!vars
  <2> DEFINE s == [proc[p] EXCEPT !.pc = "rval", !.got.len = memory[Idx(p)].len]
  <2>1. Goto(p, s) /\ memory' = memory /\ proc[p].pc = "rlen"
    BY <1>9 DEF ReadLen, At
  <2>2. s.pc = "rval" /\ s.key = proc[p].key
    BY <1>3 DEF ProcState
  <2> HIDE DEF s
  <2>3. KV' = KV
    BY <2>1, <2>2, QuietMap DEF Ready, Writing
  <2>4. proc'[p] = s /\ \A q \in Procs \ {p} : CallOf(q)' = CallOf(q)
    BY <1>4, <2>1
  <2>5. CallOf(p)' = CallOf(p)
    BY <2>1, <2>2, <2>3, <2>4 DEF Ready, Called
  <2>6. QED
    BY <2>3, <2>4, <2>5, Stutter
<1>10. ASSUME ReadVal(p) PROVE UNCHANGED Atomic!vars
  <2> DEFINE f == [proc[p].got.val EXCEPT ![proc[p].n] = memory[Idx(p)].val[proc[p].n]]
             g == [proc[p].got EXCEPT !.val = f]
             r == [proc[p] EXCEPT !.got = g]
  <2>1. memory' = memory /\ proc[p].pc = "rval" /\ proc[p].n \in 1 .. ValLen
    <3>1. memory' = memory /\ proc[p].pc = "rval"
      BY <1>10 DEF ReadVal, At
    <3>2. proc[p].n \in 1 .. KeyLen + ValLen /\ proc[p].n <= ValLen
      BY <3>1, SoundFields DEF Ready, TypeInv, Sound
    <3>3. QED
      BY <1>3, <3>1, <3>2, MapAssumption
  <2>2. /\ proc[p].ret = "hit" /\ Bears(Idx(p), k) /\ proc[p].got.len = memory[Idx(p)].len
        /\ \A j \in 1 .. proc[p].n - 1 : proc[p].got.val[j] = memory[Idx(p)].val[j]
    BY <1>2, <2>1 DEF Ready, TableInv, Reads
  <2>3. /\ \A j \in 1 .. ValLen : memory[Idx(p)].val[j] = memory[Idx(p)].len
        /\ KV[k] = memory[Idx(p)].len
    <3>1. \A q \in Procs : ~Writing(q)
      BY <1>1, <2>1 DEF Writing, In, Inside
    <3>2. QED
      BY <1>1, <2>2, <3>1 DEF Ready, TableInv, Table, Fit, Bears, Viewed, Writes
  <2>4. proc[p].n = ValLen => \A j \in 1 .. ValLen : f[j] = memory[Idx(p)].len
    <3>1. proc[p].got.val \in [1 .. ValLen -> Words]
      BY SoundFields DEF Ready
    <3>2. ASSUME proc[p].n = ValLen, NEW j \in 1 .. ValLen PROVE f[j] = memory[Idx(p)].len
      <4>1. j = proc[p].n \/ j \in 1 .. proc[p].n - 1
        BY <1>3, <3>2
      <4>2. QED
        BY <2>2, <2>3, <3>1, <4>1
    <3>3. QED
      BY <3>2
  <2>5. [proc[p] EXCEPT !.got.val[proc[p].n] = memory[Idx(p)].val[proc[p].n]] = r
    OBVIOUS
  <2> HIDE DEF f
  <2>6. g.len = proc[p].got.len /\ g.val = f
    BY <1>3 DEF ProcState
  <2> HIDE DEF g
  <2>7. PICK s : /\ Goto(p, s) /\ s.got = g /\ s.key = proc[p].key /\ s.ret = proc[p].ret
                 /\ s.pc = "rval" \/ (s.pc = "unlock" /\ proc[p].n = ValLen)
    <3>1. /\ r.got = g /\ r.key = proc[p].key /\ r.n = proc[p].n
          /\ r.ret = proc[p].ret /\ r.pc = "rval"
      BY <1>3, <2>1 DEF ProcState
    <3>2. LET t == [r EXCEPT !.n = @ + 1]
          IN  t.got = r.got /\ t.key = r.key /\ t.ret = r.ret /\ t.pc = r.pc
      BY <1>3 DEF ProcState
    <3>3. LET t == [r EXCEPT !.pc = "unlock"]
          IN  t.got = r.got /\ t.key = r.key /\ t.ret = r.ret /\ t.pc = "unlock"
      BY <1>3 DEF ProcState
    <3>4. Goto(p, IF r.n < ValLen THEN [r EXCEPT !.n = @ + 1] ELSE [r EXCEPT !.pc = "unlock"])
      BY <1>10, <2>5 DEF ReadVal
    <3> HIDE DEF r
    <3>5. CASE proc[p].n < ValLen
      BY <3>1, <3>2, <3>4, <3>5
    <3>6. CASE ~(proc[p].n < ValLen)
      <4>1. proc[p].n = ValLen
        BY <1>3, <2>1, <3>6
      <4>2. QED
        BY <3>1, <3>3, <3>4, <3>6, <4>1
    <3>7. QED
      BY <3>5, <3>6
  <2>8. KV' = KV
    BY <2>1, <2>7, QuietMap DEF Ready, Writing
  <2>9. proc'[p] = s /\ \A q \in Procs \ {p} : CallOf(q)' = CallOf(q)
    BY <1>4, <2>7
  <2>10. CallOf(p)' = CallOf(p)
    <3>1. CallOf(p) = [st |-> "done", res |-> KV[k]]
      BY <1>2, <2>1 DEF Ready, Called
    <3>2. CASE s.pc = "rval"
      BY <1>2, <2>7, <2>8, <2>9, <3>1, <3>2 DEF Ready, Called
    <3>3. CASE s.pc = "unlock" /\ proc[p].n = ValLen
      <4>1. Got(p)' = KV[k]
        BY <2>2, <2>3, <2>4, <2>6, <2>7, <2>9, <3>3 DEF Got
      <4>2. CallOf(p)' = [st |-> "done", res |-> Got(p)']
        BY <2>2, <2>7, <2>9, <3>3 DEF Ready, Called
      <4>3. QED
        BY <3>1, <4>1, <4>2
    <3>4. QED
      BY <2>7, <3>2, <3>3
  <2>11. QED
    BY <2>8, <2>9, <2>10, Stutter
<1>11. QED
  BY <1>6, <1>7, <1>8, <1>9, <1>10 DEF Copy

\* Every set and get takes effect at one instant between its call and its
\* return, and "Out of memory" is thrown only when the table is full and the key
\* new: for any number of processes, keys, words and entries and any hash, as
\* long as no process is held up or killed inside the lock.
THEOREM CallsAreAtomic ==
    ASSUME Undisturbed PROVE Spec => Linearizable
<1>1. Init => Atomic!Init
  <2> SUFFICES ASSUME Init PROVE Atomic!Init
    OBVIOUS
  <2>1. \A p \in Procs : proc[p].pc = "idle"
    BY DEF Init, Idle, Call
  <2>2. \A p \in Procs : CallOf(p) = [st |-> "idle"]
    BY <2>1, Calling DEF Called
  <2>3. \A k \in Keys : Writers(k) = {} /\ Stored(k) = {}
    BY <2>1 DEF Writers, Stored, Writing, Init, EmptyEntry
  <2>4. KV = [k \in Keys |-> Absent]
    BY <2>3 DEF KV
  <2>5. QED
    BY <2>2, <2>4 DEF Atomic!Init, Atomic!Idle, Absent
<1>2. Ready /\ Ready' /\ [Next]_vars => [Atomic!Next]_(Atomic!vars)
  <2> SUFFICES ASSUME Ready, Ready', [Next]_vars PROVE [Atomic!Next]_(Atomic!vars)
    OBVIOUS
  <2>1. CASE UNCHANGED vars
    <3>1. KV' = KV /\ \A q \in Procs : CallOf(q)' = CallOf(q)
      BY <2>1 DEF vars, KV, Writers, Stored, Writing, Idx, CallOf, Got
    <3>2. QED
      BY <3>1 DEF Atomic!vars
  <2>2. ASSUME NEW p \in Procs, CallOrLock(p) PROVE [Atomic!Next]_(Atomic!vars)
    BY <2>2, CallsAndLock
  <2>3. ASSUME NEW p \in Procs, Probe(p) PROVE [Atomic!Next]_(Atomic!vars)
    BY <2>3, ProbeRefines
  <2>4. ASSUME NEW p \in Procs, Copy(p) PROVE [Atomic!Next]_(Atomic!vars)
    BY <2>4, CopyRefines
  <2>5. QED
    BY <2>1, <2>2, <2>3, <2>4 DEF Next, CallOrLock
<1>3. TypeInv /\ LockInv /\ [Next]_vars => LockInv'
  BY NeverForced
<1>4. TypeInv /\ LockInv /\ TableInv /\ [Next]_vars => TableInv'
  BY TableStep
<1>5. TypeInv /\ LockInv /\ TableInv => Ready
  BY Lookup, Calling DEF Ready
<1>6. QED
  BY TypeInit, TypeStep, LockInit, TableInit, <1>1, <1>2, <1>3, <1>4, <1>5, PTL
     DEF Spec, Linearizable, Atomic!Spec

=============================================================================
