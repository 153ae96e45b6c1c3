---------------------------- MODULE HeaderCache ----------------------------
(***************************************************************************)
(* The cache of browse results a web process keeps (cache.py): an          *)
(* OrderedDict under a lock, so each operation is one step, for entries    *)
(* that expire and of which the least recently used goes first.            *)
(*                                                                         *)
(* An entry is known by its deadline; what it lists is for Browse.tla, and *)
(* the statistics, the copies, and purge_expired and clear, which only the *)
(* tests call, are left out.  A key is the account and the rest of         *)
(* CacheKey; an account has one user, who is left out too.                 *)
(***************************************************************************)
EXTENDS Integers, Sequences, FiniteSets, Selection

CONSTANTS
    Accounts,
    Queries,     \* what a browse asks of an account: month, folder, filters
    Ttl,         \* header_cache_ttl_seconds
    MaxEntries,  \* header_cache_max_entries
    MaxTime      \* bound: ticks of the clock

CacheKey == [account: Accounts, query: Queries]

VARIABLES
    clock,
    entries,  \* the deadline of each key that is held
    order,    \* the held keys in the order of the dictionary
    since     \* history: the held keys used since each was last used

vars == <<clock, entries, order, since>>

enabled == Ttl > 0 /\ MaxEntries > 0
Held == DOMAIN entries

TypeOK ==
    /\ clock \in 0 .. MaxTime
    /\ Held \subseteq CacheKey
    /\ entries \in [Held -> 0 .. MaxTime + Ttl]
    /\ order \in Seq(Held) /\ Len(order) = Cardinality(Held)
    /\ \A i, j \in DOMAIN order : order[i] = order[j] => i = j
    /\ since \in [Held -> SUBSET Held]

Init ==
    /\ clock = 0
    /\ entries = [k \in {} |-> 0]
    /\ order = <<>>
    /\ since = [k \in {} |-> {}]

Without(ks) == Select(order, Held \ ks)

(* Mutant: an entry keeps its place when it is used. *)
MovedToEndNot(k) == IF k \in Held THEN order ELSE Append(order, k)

(* Mutant: its old place is kept as well. *)
MovedToEndTwice(k) == Append(order, k)

MovedToEnd(k) == Append(Without({k}), k)

\* What a use of k leaves of the history, when `held` are left.
Used(k, held) ==
    [j \in held |-> IF j = k THEN {} ELSE (since[j] \cup {k}) \cap held]

Drop(ks) ==
    /\ entries' = [k \in Held \ ks |-> entries[k]]
    /\ order' = Without(ks)
    /\ since' = [k \in Held \ ks |-> since[k] \ ks]
    /\ UNCHANGED clock

-----------------------------------------------------------------------------
(* Mutant: an entry is held at its deadline. *)
ExpiredLate(k, now) == entries[k] < now

Expired(k, now) == entries[k] <= now

Hit(k) ==
    /\ enabled
    /\ k \in Held
    /\ ~Expired(k, clock)
    /\ order' = MovedToEnd(k)
    /\ since' = Used(k, Held)
    /\ UNCHANGED <<clock, entries>>

(* A get that finds an expired entry deletes it and misses. *)
GetExpired(k) ==
    /\ enabled
    /\ k \in Held
    /\ Expired(k, clock)
    /\ Drop({k})

(* What the loop at the end of put pops. *)
Overflow(o) == IF Len(o) > MaxEntries THEN SubSeq(o, 1, Len(o) - MaxEntries) ELSE <<>>

Put(k) ==
    LET o == MovedToEnd(k)
        popped == Overflow(o)
        kept == SubSeq(o, Len(popped) + 1, Len(o))
    IN
    /\ enabled
    /\ order' = kept
    /\ entries' = [j \in {kept[i] : i \in DOMAIN kept} |->
                     IF j = k THEN clock + Ttl ELSE entries[j]]
    /\ since' = Used(k, DOMAIN entries')
    /\ UNCHANGED clock

invalidate_account(a) == Drop({k \in Held : k.account = a})

Tick ==
    /\ clock < MaxTime
    /\ clock' = clock + 1
    /\ UNCHANGED <<entries, order, since>>

-----------------------------------------------------------------------------
(* Properties.                                                             *)
(* "The cache holds at most header_cache_max_entries entries" (cache.py),  *)
(* none when either setting is zero; and when putting an entry makes       *)
(* another go, whatever else stays was used after it: the order of the     *)
(* dictionary is the order of last use even across expiry, invalidation    *)
(* and an entry being put again.                                           *)
EvictsLeastRecentlyUsed ==
    [][/\ Cardinality(Held') <= (IF enabled THEN MaxEntries ELSE 0)
       /\ \/ Held' \subseteq Held
          \/ \A gone \in Held \ Held', stays \in Held \cap Held' :
               stays \in since[gone]]_vars
=============================================================================
