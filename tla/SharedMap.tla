----------------------------- MODULE SharedMap -----------------------------
(***************************************************************************)
(* The hash map in POSIX shared memory (server/addons/shm_map/map.ts):     *)
(* processes that share one segment, a spinlock in its first word and a    *)
(* table of entries that a set fills word by word.                         *)
(*                                                                         *)
(* A step is one access to the shared segment, except that a comparison of *)
(* the words of a key is one step.  Keys are functions from 1 .. KeyLen to *)
(* words (KEY_I32_LEN in the code), padded with 0 as the scratch buffer    *)
(* pads them; a value is an element of Values that fills ValLen words      *)
(* (VAL_I32_LEN at most), so that a mixture of two values can be told.     *)
(***************************************************************************)
EXTENDS Integers, FiniteSets

CONSTANTS
    Procs,       \* the processes that have connected to the segment
    Keys,        \* the keys in use
    Values,      \* the values in use
    KeyLen,      \* words of a key
    ValLen,      \* words of a value
    MaxEntries,  \* SharedMap.maxEntries, the same in every process
    Hash,        \* _hash32, already reduced modulo MaxEntries
    Behaviours   \* what may happen beyond the ordinary

(***************************************************************************)
(* slow    a process may be held up inside the lock for so long that       *)
(*         another one spins DEADLOCK_SPIN_LIMIT times                     *)
(* crash   a process may be killed                                         *)
(***************************************************************************)
BehaviourKinds == {"slow", "crash"}

ASSUME MapAssumption ==
    /\ IsFiniteSet(Procs)
    /\ KeyLen \in Nat \ {0}
    /\ ValLen \in Nat \ {0}
    /\ Keys \subseteq [1 .. KeyLen -> Nat]
    /\ 0 \notin Values
    /\ MaxEntries \in Nat \ {0}
    /\ Hash \in [Keys -> 0 .. MaxEntries - 1]
    /\ Behaviours \subseteq BehaviourKinds

VARIABLES
    lock,      \* lockArray[0]: 0 unlocked, 1 locked
    memory,    \* the entries of the table
    proc       \* every process: where it is in which call

vars == <<lock, memory, proc>>

-----------------------------------------------------------------------------
Words == Values \cup {0}
Entries == 0 .. MaxEntries - 1

Entry == [status : {0, 1}, len : Words,
          key : [1 .. KeyLen -> Nat], val : [1 .. ValLen -> Words]]

\* what the kernel gives: zeros
EmptyEntry == [status |-> 0, len |-> 0, key |-> [n \in 1 .. KeyLen |-> 0],
               val |-> [n \in 1 .. ValLen |-> 0]]

(***************************************************************************)
(* pc    where the process is: in no call, spinning, about to force the    *)
(*       lock open, probing entry i, writing the length, key or value of   *)
(*       an entry, reading its length or value, about to unlock, killed    *)
(* call  set or get, its key and its value                                 *)
(* i     entries probed; n: next word to copy; new: the entry was empty    *)
(* got   the length and the words a get has copied out                     *)
(* ret   what the call will return                                         *)
(***************************************************************************)
NoKey  == << >>
Inside == {"probe", "wlen", "wkey", "wval", "rlen", "rval", "unlock"}
Places == {"idle", "lock", "force", "dead"} \cup Inside

ProcState ==
    [pc : Places, op : {"set", "get"}, key : Keys \cup {NoKey}, val : Words,
     i : 0 .. MaxEntries, n : 1 .. KeyLen + ValLen, new : BOOLEAN,
     got : [len : Words, val : [1 .. ValLen -> Words]],
     ret : {"ok", "full", "hit", "miss"}]

Nothing == [len |-> 0, val |-> [n \in 1 .. ValLen |-> 0]]

Call(place, op, k, v) ==
    [pc |-> place, op |-> op, key |-> k, val |-> v, i |-> 0, n |-> 1,
     new |-> FALSE, got |-> Nothing, ret |-> "ok"]

Idle == Call("idle", "get", NoKey, 0)
Dead == Call("dead", "get", NoKey, 0)

Init ==
    /\ lock = 0
    /\ memory = [e \in Entries |-> EmptyEntry]
    /\ proc = [p \in Procs |-> Idle]

At(p, place) == proc[p].pc = place
Goto(p, s) == proc' = [proc EXCEPT ![p] = s]

\* the entry the process looks at: (startIdx + i) % maxEntries
Idx(p) == (Hash[proc[p].key] + proc[p].i) % MaxEntries

-----------------------------------------------------------------------------
(* Calls and the lock                                                      *)

\* set, setRaw, get, getRaw: the key and the value go to private buffers
Begin(p) ==
    /\ At(p, "idle")
    /\ \E k \in Keys :
          \/ \E v \in Values : Goto(p, Call("lock", "set", k, v))
          \/ Goto(p, Call("lock", "get", k, 0))
    /\ UNCHANGED <<lock, memory>>

\* an exchange that adds to the lock, whatever it holds
AcquireAdding(p) ==
    /\ At(p, "lock")
    /\ lock' = lock + 1
    /\ Goto(p, [proc[p] EXCEPT !.pc = "probe"])
    /\ UNCHANGED memory

\* a test of the lock and a store, not one exchange
AcquireUnchecked(p) ==
    /\ At(p, "lock")
    /\ lock' = 1
    /\ Goto(p, [proc[p] EXCEPT !.pc = "probe"])
    /\ UNCHANGED memory

\* the compareExchange that finds 0
Acquire(p) ==
    /\ At(p, "lock")
    /\ lock = 0
    /\ lock' = 1
    /\ Goto(p, [proc[p] EXCEPT !.pc = "probe"])
    /\ UNCHANGED memory

\* The lock has been held for longer than it takes to spin to the limit: its
\* holder is dead, or it may be slow.
Overdue == "slow" \in Behaviours \/ \A q \in Procs : proc[q].pc \notin Inside

\* a limit so low that a holder at work reaches it
GiveUpEarly(p) ==
    /\ At(p, "lock")
    /\ lock = 1
    /\ Goto(p, [proc[p] EXCEPT !.pc = "force"])
    /\ UNCHANGED <<lock, memory>>

\* the failing compareExchange that takes spins above DEADLOCK_SPIN_LIMIT
GiveUp(p) ==
    /\ At(p, "lock")
    /\ lock = 1
    /\ Overdue
    /\ Goto(p, [proc[p] EXCEPT !.pc = "force"])
    /\ UNCHANGED <<lock, memory>>

\* the reset of the spin counter without the store
ForceUnlockNoStore(p) ==
    /\ At(p, "force")
    /\ Goto(p, [proc[p] EXCEPT !.pc = "lock"])
    /\ UNCHANGED <<lock, memory>>

\* the store that follows it
ForceUnlock(p) ==
    /\ At(p, "force")
    /\ lock' = 0
    /\ Goto(p, [proc[p] EXCEPT !.pc = "lock"])
    /\ UNCHANGED memory

\* the finally block: a plain store, whoever holds the lock
Unlock(p) ==
    /\ At(p, "unlock")
    /\ lock' = 0
    /\ Goto(p, Idle)
    /\ UNCHANGED memory

\* the process is killed, inside the lock or outside
Crash(p) ==
    /\ "crash" \in Behaviours
    /\ proc[p].pc # "dead"
    /\ Goto(p, Dead)
    /\ UNCHANGED <<lock, memory>>

-----------------------------------------------------------------------------
(* The linear probe of _setInternal and _getInternal                       *)

Matches(p) == memory[Idx(p)].status = 1 /\ memory[Idx(p)].key = proc[p].key

Probing(p) == At(p, "probe") /\ proc[p].i < MaxEntries

\* an empty slot: get has missed, set takes it
ProbeEmpty(p) ==
    /\ Probing(p)
    /\ memory[Idx(p)].status = 0
    /\ \/ /\ proc[p].op = "get"
          /\ Goto(p, [proc[p] EXCEPT !.pc = "unlock", !.ret = "miss"])
          /\ UNCHANGED memory
       \/ /\ proc[p].op = "set"
          /\ Goto(p, [proc[p] EXCEPT !.pc = "wlen", !.new = TRUE])
          /\ memory' = [memory EXCEPT ![Idx(p)].status = 1]
    /\ UNCHANGED lock

\* a set that only stops at an empty slot
ProbeMatchGetOnly(p) ==
    /\ Probing(p)
    /\ Matches(p)
    /\ Goto(p, IF proc[p].op = "get" THEN [proc[p] EXCEPT !.pc = "rlen", !.ret = "hit"]
                                     ELSE [proc[p] EXCEPT !.i = @ + 1])
    /\ UNCHANGED <<lock, memory>>

\* the key of the entry is the key of the call
ProbeMatch(p) ==
    /\ Probing(p)
    /\ Matches(p)
    /\ Goto(p, IF proc[p].op = "get" THEN [proc[p] EXCEPT !.pc = "rlen", !.ret = "hit"]
                                     ELSE [proc[p] EXCEPT !.pc = "wlen"])
    /\ UNCHANGED <<lock, memory>>

\* an entry of another key
ProbeOther(p) ==
    /\ Probing(p)
    /\ memory[Idx(p)].status = 1
    /\ ~Matches(p)
    /\ Goto(p, [proc[p] EXCEPT !.i = @ + 1])
    /\ UNCHANGED <<lock, memory>>

\* the throw of set without the finally block
ProbeFullLocked(p) ==
    /\ At(p, "probe")
    /\ proc[p].i = MaxEntries
    /\ Goto(p, Idle)
    /\ UNCHANGED <<lock, memory>>

\* the whole table: set throws "Out of memory", get has missed
ProbeFull(p) ==
    /\ At(p, "probe")
    /\ proc[p].i = MaxEntries
    /\ Goto(p, [proc[p] EXCEPT !.pc = "unlock",
                               !.ret = IF proc[p].op = "get" THEN "miss" ELSE "full"])
    /\ UNCHANGED <<lock, memory>>

-----------------------------------------------------------------------------
(* Writing and reading an entry                                            *)

\* an update that leaves the length of the old value
WriteLenNewOnly(p) ==
    /\ At(p, "wlen")
    /\ memory' = IF proc[p].new THEN [memory EXCEPT ![Idx(p)].len = proc[p].val]
                                ELSE memory
    /\ Goto(p, [proc[p] EXCEPT !.pc = IF proc[p].new THEN "wkey" ELSE "wval"])
    /\ UNCHANGED lock

WriteLen(p) ==
    /\ At(p, "wlen")
    /\ memory' = [memory EXCEPT ![Idx(p)].len = proc[p].val]
    /\ Goto(p, [proc[p] EXCEPT !.pc = IF proc[p].new THEN "wkey" ELSE "wval"])
    /\ UNCHANGED lock

\* one word of the key of a new entry
WriteKey(p) ==
    /\ At(p, "wkey")
    /\ memory' = [memory EXCEPT ![Idx(p)].key[proc[p].n] = proc[p].key[proc[p].n]]
    /\ Goto(p, IF proc[p].n < KeyLen THEN [proc[p] EXCEPT !.n = @ + 1]
                                     ELSE [proc[p] EXCEPT !.pc = "wval", !.n = 1])
    /\ UNCHANGED lock

\* one word of the value
WriteVal(p) ==
    /\ At(p, "wval")
    /\ memory' = [memory EXCEPT ![Idx(p)].val[proc[p].n] = proc[p].val]
    /\ Goto(p, IF proc[p].n < ValLen THEN [proc[p] EXCEPT !.n = @ + 1]
                                     ELSE [proc[p] EXCEPT !.pc = "unlock"])
    /\ UNCHANGED lock

ReadLen(p) ==
    /\ At(p, "rlen")
    /\ Goto(p, [proc[p] EXCEPT !.pc = "rval", !.got.len = memory[Idx(p)].len])
    /\ UNCHANGED <<lock, memory>>

\* one word of the value, copied to the caller's buffer
ReadVal(p) ==
    /\ At(p, "rval")
    /\ LET s == [proc[p] EXCEPT !.got.val[proc[p].n] = memory[Idx(p)].val[proc[p].n]]
       IN  Goto(p, IF s.n < ValLen THEN [s EXCEPT !.n = @ + 1]
                                   ELSE [s EXCEPT !.pc = "unlock"])
    /\ UNCHANGED <<lock, memory>>

-----------------------------------------------------------------------------
Probe(p) == ProbeEmpty(p) \/ ProbeMatch(p) \/ ProbeOther(p) \/ ProbeFull(p)
Copy(p)  == WriteLen(p) \/ WriteKey(p) \/ WriteVal(p) \/ ReadLen(p) \/ ReadVal(p)

Next ==
    \E p \in Procs :
        \/ Begin(p) \/ Acquire(p) \/ GiveUp(p) \/ ForceUnlock(p)
        \/ Probe(p) \/ Copy(p) \/ Unlock(p)
        \/ Crash(p)

Spec == Init /\ [][Next]_vars

\* A process in a call is scheduled until it has returned.  Nothing says that a
\* spinning process ever wins the exchange when others keep taking the lock.
Fairness ==
    \A p \in Procs : /\ WF_vars(Probe(p) \/ Copy(p) \/ Unlock(p))
                     /\ WF_vars(Acquire(p) \/ GiveUp(p) \/ ForceUnlock(p))

FairSpec == Spec /\ Fairness

-----------------------------------------------------------------------------
(* Properties                                                              *)

\* The lock, the table and the state of every call have their types.
TypeOK ==
    /\ lock \in {0, 1}
    /\ memory \in [Entries -> Entry]
    /\ proc \in [Procs -> ProcState]

\* "only let one through": one process at a time is inside the lock.
MutualExclusion ==
    \A p, q \in Procs : proc[p].pc \in Inside /\ proc[q].pc \in Inside => p = q

(***************************************************************************)
(* Two processes that have both given up on a dead holder break the lock:  *)
(* one resets it and takes it, and the other resets it again.  The code    *)
(* says of them that "the next compareExchange will still only let one     *)
(* through", which is not so.  What is left is that a forced unlock lets   *)
(* nobody in beside another if only one process at a time is about to do   *)
(* it: whoever is killed, wherever, and however many wait.                 *)
(***************************************************************************)
OneForces == \A p, q \in Procs : At(p, "force") /\ At(q, "force") => p = q

ForcedAlone == []OneForces => []MutualExclusion

\* the process that is filling an entry
Writing(p) == proc[p].pc \in {"wlen", "wkey", "wval"}

\* entries that a lookup from the hash of k passes before it reaches e
Before(k, e) == {(Hash[k] + i) % MaxEntries :
                    i \in {j \in Entries : \A h \in 0 .. j : (Hash[k] + h) % MaxEntries # e}}

\* Unless an entry is being written, a lookup finds what was stored: no key has
\* two entries, and there is no hole between the hash of a key and its entry.
TableSound ==
    (\A p \in Procs : ~Writing(p)) =>
        \A e \in Entries :
            memory[e].status = 1 =>
                /\ memory[e].key \in Keys
                /\ \A d \in Before(memory[e].key, e) :
                      memory[d].status = 1 /\ memory[d].key # memory[e].key
                /\ \A d \in Entries \ {e} :
                      memory[d].status = 1 => memory[d].key # memory[e].key

(***************************************************************************)
(* The map a caller sees: a set takes effect when the probe has found its  *)
(* entry, a get when the probe has ended.                                  *)
(***************************************************************************)
Absent == 0

Writers(k) == {p \in Procs : Writing(p) /\ proc[p].key = k}

Stored(k) == {e \in Entries : /\ memory[e].status = 1 /\ memory[e].key = k
                              /\ \A p \in Procs : Writing(p) => Idx(p) # e}

KV ==
    [k \in Keys |->
        IF Writers(k) # {} THEN proc[CHOOSE p \in Writers(k) : TRUE].val
        ELSE IF Stored(k) # {} THEN memory[CHOOSE e \in Stored(k) : TRUE].len
        ELSE Absent]

\* What a get returns: one value, or the mixture of several.
Got(p) ==
    LET g == proc[p].got
    IN  IF \A n \in 1 .. ValLen : g.val[n] = g.len THEN g.len ELSE <<"mixed", g>>

CallOf(p) ==
    CASE proc[p].pc \in {"idle", "dead"} -> [st |-> "idle"]
      [] proc[p].pc \in {"lock", "force", "probe"} ->
            [st |-> "invoked", op |-> proc[p].op, key |-> proc[p].key, val |-> proc[p].val]
      [] Writing(p) -> [st |-> "done", res |-> "ok"]
      [] proc[p].pc \in {"rlen", "rval"} -> [st |-> "done", res |-> KV[proc[p].key]]
      [] proc[p].pc = "unlock" ->
            [st |-> "done", res |-> CASE proc[p].ret = "hit"  -> Got(p)
                                      [] proc[p].ret = "miss" -> Absent
                                      [] OTHER                -> proc[p].ret]

Atomic ==
    INSTANCE AtomicMap WITH Capacity <- MaxEntries, kv <- KV,
                            call <- [p \in Procs |-> CallOf(p)]

\* Every set and get takes effect at once: no reader sees half an entry or the
\* words of two values, no update is lost, and "Out of memory" is thrown only
\* when the table is full and the key is new.
Linearizable == Atomic!Spec

\* The lock is given back whatever way a call ends, the throw included.
HeldIsReleased == lock = 1 ~> lock = 0

\* "best-effort recovery for when a process crashes while holding the lock": a
\* process that is left alone gets in, wherever the others were killed.
SurvivorGetsIn ==
    \A p \in Procs :
        At(p, "lock") /\ (\A q \in Procs \ {p} : At(q, "dead"))
            ~> proc[p].pc \in Inside \cup {"dead"}

=============================================================================
