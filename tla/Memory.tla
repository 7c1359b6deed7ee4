------------------------------- MODULE Memory -------------------------------
(***************************************************************************)
(* The shared memory on the three lanes: one append-only log per scope.    *)
(* put() stamps its record before it takes the lock or reaches the server, *)
(* so two overlapping puts may be logged in the other order than stamped.  *)
(* gc() keeps the newest maxItems of each scope: by stamp in the file      *)
(* store, by place in the log elsewhere.  `karo memory clear' unlinks a    *)
(* log without the lock.                                                   *)
(*                                                                         *)
(* A record is its stamp; what was put with it is KeyOf and ScopeOf of it.  *)
(***************************************************************************)
EXTENDS Integers, Sequences, FiniteSets, FiniteSetsExt

CONSTANTS
  Client,     \* the processes that use the memory
  NoClient,
  Scope,      \* "team" and the agents' own
  Key,
  MaxPuts,    \* bound on the number of puts
  KeyOf,      \* [Stamp -> Key]: what is put, one after the other
  ScopeOf,    \* [Stamp -> Scope]: and where
  MaxItems,   \* the policy's maxItems
  MaxClears,  \* bound on the number of gcs and clears
  MaxDeaths   \* bound on the number of deaths

Stamp == 1..MaxPuts

ASSUME MemoryAssumption ==
  /\ NoClient \notin Client
  /\ KeyOf \in [Stamp -> Key] /\ ScopeOf \in [Stamp -> Scope]
  /\ MaxItems \in Nat \ {0}
  /\ MaxPuts \in Nat /\ MaxClears \in Nat /\ MaxDeaths \in Nat

VARIABLES
  lane,      \* "file", "redis" or "postgres"
  log,       \* [Scope -> the stored records, oldest first]
  flock,     \* the client that holds the file store's lock
  pc,        \* [Client -> Point]
  new,       \* [Client -> the record being put, or 0]
  todo,      \* [Client -> the scopes a gc has still to look at]
  seen,      \* [Client -> the log that a gc has read]
  puts,      \* the number of puts so far: the clock that stamps them
  clears,    \* history: how many gcs and clears have begun
  returned,  \* history: the puts that have returned
  before,    \* history: [stamp -> the puts that had returned when it began]
  lost,      \* history: the records that a clear took
  deaths     \* history: how many clients have died

vars == <<lane, log, flock, pc, new, todo, seen, puts, clears, returned, before, lost, deaths>>

\* Idle; about to put; the log open, or open and unlinked since; about to
\* collect; at a scope; about to rewrite it.
Point == {"idle", "put", "append", "orphan", "gc", "collect", "rewrite"}

StampsOf(records) == {records[i] : i \in DOMAIN records}

MemoryTypeOK ==
  /\ lane \in {"file", "redis", "postgres"}
  /\ log \in [Scope -> Seq(Stamp)]
  /\ flock \in Client \cup {NoClient}
  /\ pc \in [Client -> Point]
  /\ flock # NoClient => pc[flock] \in {"append", "orphan", "collect", "rewrite"}
  /\ new \in [Client -> 0..MaxPuts]
  /\ todo \in [Client -> SUBSET Scope]
  /\ seen \in [Client -> Seq(Stamp)]
  /\ puts \in 0..MaxPuts /\ clears \in 0..MaxClears /\ deaths \in 0..MaxDeaths
  /\ returned \subseteq Stamp /\ lost \subseteq Stamp
  /\ before \in [Stamp -> SUBSET Stamp]

Init ==
  /\ lane \in {"file", "redis", "postgres"}
  /\ log = [s \in Scope |-> <<>>]
  /\ flock = NoClient
  /\ pc = [c \in Client |-> "idle"]
  /\ new = [c \in Client |-> 0]
  /\ todo = [c \in Client |-> {}]
  /\ seen = [c \in Client |-> <<>>]
  /\ puts = 0 /\ clears = 0 /\ deaths = 0
  /\ returned = {} /\ lost = {}
  /\ before = [t \in Stamp |-> {}]

-----------------------------------------------------------------------------
Put(c) ==
  /\ pc[c] = "idle"
  /\ puts < MaxPuts
  /\ puts' = puts + 1
  /\ new' = [new EXCEPT ![c] = puts + 1]
  /\ before' = [before EXCEPT ![puts + 1] = returned]
  /\ pc' = [pc EXCEPT ![c] = "put"]
  /\ UNCHANGED <<lane, log, flock, todo, seen, clears, returned, lost, deaths>>

Appended(c) == log' = [log EXCEPT ![ScopeOf[new[c]]] = Append(@, new[c])]

\* put() is over.
Returns(c) ==
  /\ returned' = returned \cup {new[c]}
  /\ new' = [new EXCEPT ![c] = 0]
  /\ pc' = [pc EXCEPT ![c] = "idle"]

Unlocked(c) == IF flock = c THEN NoClient ELSE flock

LockIgnored(c) == TRUE

LockFree(c) == flock = NoClient

OpenLog(c) ==
  /\ lane = "file" /\ pc[c] = "put"
  /\ LockFree(c)
  /\ flock' = c
  /\ pc' = [pc EXCEPT ![c] = "append"]
  /\ UNCHANGED <<lane, log, new, todo, seen, puts, clears, returned, before, lost, deaths>>

\* A line appended to a file that has been unlinked since goes nowhere.
WriteLine(c) ==
  /\ pc[c] \in {"append", "orphan"}
  /\ IF pc[c] = "append"
     THEN Appended(c) /\ UNCHANGED lost
     ELSE lost' = lost \cup {new[c]} /\ UNCHANGED log
  /\ Returns(c)
  /\ flock' = Unlocked(c)
  /\ UNCHANGED <<lane, todo, seen, puts, clears, before, deaths>>

\* RPUSH; INSERT.
Push(c) ==
  /\ lane # "file" /\ pc[c] = "put"
  /\ Appended(c)
  /\ Returns(c)
  /\ UNCHANGED <<lane, flock, todo, seen, puts, clears, before, lost, deaths>>

-----------------------------------------------------------------------------
Suffix(records, n) ==
  IF Len(records) > n THEN SubSeq(records, Len(records) - n + 1, Len(records)) ELSE records

\* The n newest of a set of records, by their stamps.
NewestOf(records, n) == {t \in records : Cardinality({u \in records : u > t}) < n}

ByStamp(records) ==
  CHOOSE q \in [1..Cardinality(records) -> records] :
    StampsOf(q) = records /\ \A i, j \in DOMAIN q : i < j => q[i] < q[j]

NewestFirst(records) ==
  LET q == ByStamp(NewestOf(StampsOf(records), MaxItems))
  IN  [i \in DOMAIN q |-> q[Len(q) + 1 - i]]

\* The file store's choice: the newest by stamp, in the order of their stamps.
Newest(records) == ByStamp(NewestOf(StampsOf(records), MaxItems))

Gc(c) ==
  /\ pc[c] = "idle"
  /\ clears < MaxClears
  /\ clears' = clears + 1
  /\ pc' = [pc EXCEPT ![c] = "gc"]
  /\ UNCHANGED <<lane, log, flock, new, todo, seen, puts, returned, before, lost, deaths>>

\* Lock and glob; SCAN.
Enter(c) ==
  /\ lane \in {"file", "redis"} /\ pc[c] = "gc"
  /\ IF lane = "file" THEN LockFree(c) /\ flock' = c ELSE UNCHANGED flock
  /\ todo' = [todo EXCEPT ![c] = {s \in Scope : log[s] # <<>>}]
  /\ pc' = [pc EXCEPT ![c] = "collect"]
  /\ UNCHANGED <<lane, log, new, seen, puts, clears, returned, before, lost, deaths>>

\* Read the next log.  A log that is gone since the glob raises.
ReadLog(c) ==
  /\ lane = "file" /\ pc[c] = "collect"
  /\ \E s \in todo[c] :
       /\ log[s] # <<>>
       /\ todo' = [todo EXCEPT ![c] = @ \ {s}]
       /\ IF Len(log[s]) > MaxItems
          THEN /\ seen' = [seen EXCEPT ![c] = log[s]]
               /\ pc' = [pc EXCEPT ![c] = "rewrite"]
          ELSE UNCHANGED <<seen, pc>>
  /\ UNCHANGED <<lane, log, flock, new, puts, clears, returned, before, lost, deaths>>

\* A log that was cleared meanwhile is there again, with what gc kept of it.
Rewrite(c) ==
  /\ pc[c] = "rewrite"
  /\ log' = [log EXCEPT ![ScopeOf[seen[c][1]]] = Newest(seen[c])]
  /\ lost' = lost \ StampsOf(Newest(seen[c]))
  /\ seen' = [seen EXCEPT ![c] = <<>>]
  /\ pc' = [pc EXCEPT ![c] = "collect"]
  /\ UNCHANGED <<lane, flock, new, todo, puts, clears, returned, before, deaths>>

\* LTRIM of one scope.
TrimLog(c) ==
  /\ lane = "redis" /\ pc[c] = "collect"
  /\ \E s \in todo[c] :
       /\ log' = [log EXCEPT ![s] = Suffix(@, MaxItems)]
       /\ todo' = [todo EXCEPT ![c] = @ \ {s}]
  /\ UNCHANGED <<lane, flock, pc, new, seen, puts, clears, returned, before, lost, deaths>>

\* All scopes done, or an exception; either frees the lock.
Leave(c) ==
  /\ pc[c] = "collect"
  /\ \/ todo[c] = {}
     \/ lane = "file" /\ \E s \in todo[c] : log[s] = <<>>
  /\ flock' = Unlocked(c)
  /\ todo' = [todo EXCEPT ![c] = {}]
  /\ pc' = [pc EXCEPT ![c] = "idle"]
  /\ UNCHANGED <<lane, log, new, seen, puts, clears, returned, before, lost, deaths>>

\* One DELETE for all scopes.
DeleteRows(c) ==
  /\ lane = "postgres" /\ pc[c] = "gc"
  /\ log' = [s \in Scope |-> Suffix(log[s], MaxItems)]
  /\ pc' = [pc EXCEPT ![c] = "idle"]
  /\ UNCHANGED <<lane, flock, new, todo, seen, puts, clears, returned, before, lost, deaths>>

\* karo memory clear: unlink, whoever has the log open.
Clear(s) ==
  /\ lane = "file"
  /\ clears < MaxClears
  /\ clears' = clears + 1
  /\ log' = [log EXCEPT ![s] = <<>>]
  /\ lost' = lost \cup StampsOf(log[s])
  /\ pc' = [c \in Client |-> IF pc[c] = "append" /\ ScopeOf[new[c]] = s THEN "orphan" ELSE pc[c]]
  /\ UNCHANGED <<lane, flock, new, todo, seen, puts, returned, before, deaths>>

Die(c) ==
  /\ pc[c] # "idle"
  /\ deaths < MaxDeaths
  /\ deaths' = deaths + 1
  /\ flock' = Unlocked(c)
  /\ new' = [new EXCEPT ![c] = 0]
  /\ todo' = [todo EXCEPT ![c] = {}]
  /\ seen' = [seen EXCEPT ![c] = <<>>]
  /\ pc' = [pc EXCEPT ![c] = "idle"]
  /\ UNCHANGED <<lane, log, puts, clears, returned, before, lost>>

Next ==
  \/ \E c \in Client :
       \/ Put(c) \/ OpenLog(c) \/ WriteLine(c) \/ Push(c)
       \/ Gc(c) \/ Enter(c) \/ ReadLog(c) \/ Rewrite(c) \/ TrimLog(c) \/ Leave(c) \/ DeleteRows(c)
       \/ Die(c)
  \/ \E s \in Scope : Clear(s)

Spec == Init /\ [][Next]_vars

-----------------------------------------------------------------------------
\* What get() finds, 0 for None: the last record of the key.
Get(s, k) ==
  LET places == {i \in DOMAIN log[s] : KeyOf[log[s][i]] = k}
  IN  IF places = {} THEN 0 ELSE log[s][Max(places)]

Overlap(t, u) == t \notin before[u] /\ u \notin before[t]

AllStamps == UNION {StampsOf(log[s]) : s \in Scope}

Recent == {t \in Stamp : t <= puts}

\* get() never returns a value that a later put of the key has replaced, later
\* in the sense that it began after the other had returned.
GetIsCurrent ==
  \A s \in Scope : \A r \in StampsOf(log[s]) : Get(s, KeyOf[r]) \notin before[r]

\* A put that has returned is in the log, unless a clear took it, or gc kept as
\* many others instead that had not returned when it began.
ReturnedIsKept ==
  \A t \in returned :
    \/ t \in AllStamps
    \/ t \in lost
    \/ clears > 0 /\ Cardinality({u \in Recent \ {t} : u \notin before[t]}) >= MaxItems

\* gc never makes get() return another value of a key in place of the one it
\* returned, unless the two puts overlapped: their stamps may be in the other
\* order than their places.
GcKeepsValues ==
  [][puts' = puts /\ returned' = returned =>
       \A s \in Scope, k \in Key :
         \/ Get(s, k) = 0 \/ Get(s, k)' \in {Get(s, k), 0}
         \/ Overlap(Get(s, k), Get(s, k)')]_vars

\* query(scope, limit=n): the file store sorts by stamp and returns the newest;
\* the others return the end of the log.
FileQuery(s, n) == IF n = 0 THEN StampsOf(log[s]) ELSE NewestOf(StampsOf(log[s]), n)

ListQueryOldest(s, n) ==
  IF n = 0 \/ n >= Len(log[s]) THEN log[s] ELSE SubSeq(log[s], 1, n)

ListQuery(s, n) == IF n = 0 THEN log[s] ELSE Suffix(log[s], n)

\* Both kinds of store answer a limited query with the same records, up to puts
\* that overlapped.
QueriesAgree ==
  \A s \in Scope, n \in 0..MaxPuts :
    \A t \in FileQuery(s, n) \ StampsOf(ListQuery(s, n)) :
      \E u \in StampsOf(ListQuery(s, n)) \ FileQuery(s, n) : Overlap(t, u)

\* All readers see the current values: get(), and both kinds of query().
MemoryInv == MemoryTypeOK /\ GetIsCurrent /\ QueriesAgree
=============================================================================
