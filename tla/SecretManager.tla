---------------------------- MODULE SecretManager ----------------------------
(***************************************************************************)
(* The secrets a Gitai agent keeps in memory (internal/gitai/secrets): the *)
(* Store with the values, and the Manager that adds an expiry to each.     *)
(* Each of the two has a lock of its own, so Apply (one goroutine per ACP  *)
(* request) and the eviction loop interleave between the two; GetSecret    *)
(* reads first the entry, then the value.                                  *)
(***************************************************************************)
EXTENDS Naturals

CONSTANTS AgentRefs,  \* names of secrets
          Appliers,   \* goroutines that may be inside Manager.Apply
          NoEntry,    \* no entry
          TTL,        \* the Manager's ttl
          MaxTime     \* bound: clock ticks explored

ASSUME ManagerAssumption ==
    /\ TTL \in Nat /\ MaxTime \in Nat
    /\ NoEntry \notin AgentRefs \cup Nat

VARIABLES store,    \* Store.secrets: the refs that have a value
          entries,  \* Manager.entries: expiresAt of each ref, or None
          apply,    \* apply[a]: progress of a goroutine inside Apply
          evict,    \* progress of the eviction loop inside Evict
          clock     \* wall clock

managerVars == <<store, entries, apply, evict, clock>>

ApplyState == [pc : {"idle", "stamp", "record"}, refs : SUBSET AgentRefs, expiresAt : Nat]
EvictState == [pc : {"idle", "collected", "clear"}, refs : SUBSET AgentRefs]

ManagerTypeOK ==
    /\ store \in SUBSET AgentRefs
    /\ entries \in [AgentRefs -> Nat \cup {NoEntry}]
    /\ apply \in [Appliers -> ApplyState]
    /\ evict \in EvictState
    /\ clock \in Nat

ManagerInit ==
    /\ store = {}
    /\ entries = [r \in AgentRefs |-> NoEntry]
    /\ apply = [a \in Appliers |-> [pc |-> "idle", refs |-> {}, expiresAt |-> 0]]
    /\ evict = [pc |-> "idle", refs |-> {}]
    /\ clock = 0

\* now.After(e.expiresAt)
Elapsed(r) == entries[r] # NoEntry /\ clock > entries[r]

\* An entry GetSecretBytes accepts before it asks the store.
Fresh(r) == entries[r] # NoEntry /\ ~Elapsed(r)

-----------------------------------------------------------------------------
(* Manager.Apply.                                                          *)

\* store.Apply replaces the whole set of values; the ACP handler applies at least one.
ApplyStore(a, refs) ==
    /\ apply[a].pc = "idle"
    /\ store' = refs
    /\ apply' = [apply EXCEPT ![a] = [pc |-> "stamp", refs |-> refs, expiresAt |-> 0]]
    /\ UNCHANGED <<entries, evict, clock>>

\* expiresAt := time.Now().Add(ttl), before the lock is taken.
ApplyStamp(a) ==
    /\ apply[a].pc = "stamp"
    /\ apply' = [apply EXCEPT ![a].pc = "record", ![a].expiresAt = clock + TTL]
    /\ UNCHANGED <<store, entries, evict, clock>>

\* Mutant: only entries that are already there are refreshed.
ApplyRefreshOnly(a) ==
    /\ apply[a].pc = "record"
    /\ entries' = [r \in AgentRefs |-> IF r \in apply[a].refs /\ entries[r] # NoEntry
                                  THEN apply[a].expiresAt ELSE entries[r]]
    /\ apply' = [apply EXCEPT ![a].pc = "idle"]
    /\ UNCHANGED <<store, evict, clock>>

\* The entries of the applied refs are set; the other entries stay.
ApplyRecord(a) ==
    /\ apply[a].pc = "record"
    /\ entries' = [r \in AgentRefs |-> IF r \in apply[a].refs THEN apply[a].expiresAt ELSE entries[r]]
    /\ apply' = [apply EXCEPT ![a] = [pc |-> "idle", refs |-> {}, expiresAt |-> 0]]
    /\ UNCHANGED <<store, evict, clock>>

-----------------------------------------------------------------------------
(* Manager.Evict, called by one ticker loop.                               *)

\* First pass, under the read lock: Expired lists the candidates.
EvictCollect ==
    LET candidates == {r \in AgentRefs : Elapsed(r)}
    IN  /\ evict.pc = "idle"
        /\ candidates # {}
        /\ evict' = [pc |-> "collected", refs |-> candidates]
        /\ UNCHANGED <<store, entries, apply, clock>>

\* Mutant: the candidates are not checked again.
EvictEntriesUnchecked ==
    /\ evict.pc = "collected"
    /\ entries' = [r \in AgentRefs |-> IF r \in evict.refs THEN NoEntry ELSE entries[r]]
    /\ evict' = [pc |-> "clear", refs |-> evict.refs]
    /\ UNCHANGED <<store, apply, clock>>

\* Second pass, under the write lock: what is still expired loses its entry.
EvictEntries ==
    LET toEvict == {r \in evict.refs : Elapsed(r)}
    IN  /\ evict.pc = "collected"
        /\ entries' = [r \in AgentRefs |-> IF r \in toEvict THEN NoEntry ELSE entries[r]]
        /\ evict' = IF toEvict = {} THEN [pc |-> "idle", refs |-> {}]
                    ELSE [pc |-> "clear", refs |-> toEvict]
        /\ UNCHANGED <<store, apply, clock>>

\* store.Clear, after the Manager's lock has been released.
EvictClear ==
    /\ evict.pc = "clear"
    /\ store' = store \ evict.refs
    /\ evict' = [pc |-> "idle", refs |-> {}]
    /\ UNCHANGED <<entries, apply, clock>>

-----------------------------------------------------------------------------
ClockTick ==
    /\ clock < MaxTime
    /\ clock' = clock + 1
    /\ UNCHANGED <<store, entries, apply, evict>>

ApplyFinishes(a) == ApplyStamp(a) \/ ApplyRecord(a)

Evict == EvictCollect \/ EvictEntries \/ EvictClear

ManagerNext ==
    \/ \E a \in Appliers, refs \in SUBSET AgentRefs \ {{}} : ApplyStore(a, refs)
    \/ \E a \in Appliers : ApplyFinishes(a)
    \/ Evict
    \/ ClockTick

ManagerSpec == ManagerInit /\ [][ManagerNext]_managerVars

\* A goroutine inside Apply finishes, and the eviction ticker keeps firing.
ManagerFairSpec ==
    ManagerSpec /\ WF_managerVars(Evict) /\ \A a \in Appliers : WF_managerVars(ApplyFinishes(a))

-----------------------------------------------------------------------------
(* Properties.                                                             *)

\* A value without an entry, which would never be evicted, exists only in the middle of an
\* Apply that is about to record it or of an Evict that is about to clear it.
NoOrphanValue ==
    \A r \in store :
        \/ entries[r] # NoEntry
        \/ \E a \in Appliers : apply[a].pc # "idle" /\ r \in apply[a].refs
        \/ evict.pc = "clear" /\ r \in evict.refs

\* Evict works from a list of candidates that may be out of date; still it never drops an
\* entry that a concurrent Apply has refreshed.
EvictSparesFresh == [][\A r \in AgentRefs : Fresh(r) => entries'[r] # NoEntry]_managerVars

\* A value whose time has run out.
Overdue(r) == r \in store /\ Elapsed(r)

\* A value whose time has run out is cleared or renewed (the eviction loop of App.Run).
ExpiredValuesCleared == \A r \in AgentRefs : Overdue(r) ~> (r \notin store \/ Fresh(r))

\* The state is well typed, and a value that no entry would ever expire exists only in the
\* middle of an Apply or an Evict.
ManagerInv == ManagerTypeOK /\ NoOrphanValue

\* Evict, which lists, removes and clears under separate locks, drops no entry that was
\* refreshed meanwhile, and gets every expired value in the end.
EvictionIsExact == EvictSparesFresh /\ ExpiredValuesCleared
=============================================================================
