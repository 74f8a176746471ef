------------------------------ MODULE LoginLimiter ------------------------------
(***************************************************************************)
(* The limiter of failed logins (api/ratelimit.py) and the routes that use  *)
(* it (api/routes/auth.py): a table in memory, bounded because its keys are *)
(* chosen by the clients, shared by the threads that serve the requests.    *)
(*                                                                          *)
(* A request asks the limiter, verifies a password, and then records a      *)
(* failure or clears its count; each call takes the lock, and reads the     *)
(* clock before it takes it.                                                *)
(***************************************************************************)
EXTENDS Naturals, Sequences, FiniteSets

CONSTANTS
  Addresses,    \* client addresses
  Rotating,     \* those of them from which the password may be changed
  Threads,     \* slots for requests being served
  MaxAttempts,  \* failures in the window that block a key
  Window,       \* window_seconds
  Block,        \* block_seconds
  MaxEntries,   \* _MAX_ENTRIES
  SweepEvery,   \* _SWEEP_EVERY
  Horizon       \* bound on the clock

ASSUME RotatingAssumption == Rotating \subseteq Addresses
ASSUME TimesAssumption == {Window, Block, Horizon} \subseteq Nat
ASSUME LimitsAssumption == {MaxAttempts, MaxEntries, SweepEvery} \subseteq Nat \ {0}

VARIABLES
  now,        \* time.monotonic()
  entries,    \* _entries: from the keys followed to their failures
  ops,        \* _ops, calls since the last sweep
  saturated,  \* _saturated, the last sweep found nothing to free
  serving,        \* the requests being served
  ideal,      \* history: what a limiter without bound or sweep would hold
  lost,       \* history: keys whose count was given up since it was last cleared
  clock       \* history: the latest reading of the clock used under the lock

table == <<entries, ops, saturated>>

history == <<ideal, lost, clock>>

limiterVars == <<now, table, serving, history>>

--------------------------------------------------------------------------------
(* Types *)

\* _client_key is shared by the routes, _password_key is the rotation's own.
Keys == Addresses \X {"any", "password"}

Times == 0..Horizon

Counts == [failures : Seq(Times), until : 0..(Horizon + Block)]

Entries == [failures : Seq(Times), until : 0..(Horizon + Block), seen : Times]

Nothing == [failures |-> <<>>, until |-> 0, seen |-> 0]

NoCount == [failures |-> <<>>, until |-> 0]

\* `todo` holds the keys still to be recorded or cleared, `at` what the request does next.
Attempts == [at : {"idle", "verifying", "failing", "recording", "clearing"}, todo : Seq(Keys), read : Times]

NoAttempt == [at |-> "idle", todo |-> <<>>, read |-> 0]

LimiterInit ==
  /\ now = 0
  /\ entries = [k \in {} |-> Nothing]
  /\ ops = 0
  /\ saturated = FALSE
  /\ serving = [r \in Threads |-> NoAttempt]
  /\ ideal = [k \in Keys |-> NoCount]
  /\ lost = {}
  /\ clock = 0

--------------------------------------------------------------------------------
(* The table *)

Followed == DOMAIN entries

Blocked(k) == k \in Followed /\ entries[k].until > now

\* _prune: pop from the left while older than the window.
Prune(failures, t) ==
  LET recent == {i \in 1..Len(failures) : failures[i] + Window >= t}
  IN IF recent = {} THEN <<>>
     ELSE SubSeq(failures, CHOOSE i \in recent : \A j \in recent : i <= j, Len(failures))

\* The last lines of record_failure, on the entry of a key.
Counted(e, t) ==
  LET failures == Append(Prune(e.failures, t), t)
  IN IF Len(failures) >= MaxAttempts
     THEN [e EXCEPT !.failures = <<>>, !.until = t + Block]
     ELSE [e EXCEPT !.failures = failures]

Without(t, keys) == [k \in DOMAIN t \ keys |-> t[k]]

\* Mutant: an entry that is not blocked is dead, whatever failures it holds.
PurgedUnlessBlocked(t) ==
  LET pruned == [k \in Followed |-> [entries[k] EXCEPT !.failures = Prune(@, t)]]
  IN Without(pruned, {k \in Followed : pruned[k].until <= t})

\* First loop of _sweep: every entry is pruned, the dead ones go.
Purged(t) ==
  LET pruned == [k \in Followed |-> [entries[k] EXCEPT !.failures = Prune(@, t)]]
  IN Without(pruned, {k \in Followed : pruned[k].failures = <<>> /\ pruned[k].until <= t})

Before(e, f) ==
  \/ Len(e.failures) < Len(f.failures)
  \/ Len(e.failures) = Len(f.failures) /\ e.seen <= f.seen

LowWater == IF (MaxEntries * 9) \div 10 > 1 THEN (MaxEntries * 9) \div 10 ELSE 1

\* Mutant: blocked keys may be evicted like the others.
EvictionsOfAny(kept, t) ==
  LET excess == Cardinality(DOMAIN kept) - LowWater
  IN IF Cardinality(DOMAIN kept) < MaxEntries THEN {{}}
     ELSE {out \in SUBSET DOMAIN kept :
             /\ Cardinality(out) = excess
             /\ \A k \in out, l \in DOMAIN kept \ out : Before(kept[k], kept[l])}

\* Second part of _sweep: the keys evicted, fewest and oldest failures first, blocks never.
\* Equal entries are ordered by their address; here any of them may go.
Evictions(kept, t) ==
  LET free == {k \in DOMAIN kept : kept[k].until <= t}
      excess == Cardinality(DOMAIN kept) - LowWater
      number == IF excess < Cardinality(free) THEN excess ELSE Cardinality(free)
  IN IF Cardinality(DOMAIN kept) < MaxEntries THEN {{}}
     ELSE {out \in SUBSET free : /\ Cardinality(out) = number
                                 /\ \A k \in out, l \in free \ out : Before(kept[k], kept[l])}

--------------------------------------------------------------------------------
(* record_failure and reset *)

NeedsRoom(k) == k \notin Followed /\ Cardinality(Followed) >= MaxEntries

Sweeps(k) == ops + 1 >= SweepEvery \/ (NeedsRoom(k) /\ ~saturated)

\* What the table keeps of the keys, beside those `given`, once k has failed at t.
Forgets(k, t, given) ==
  LET out == lost \cup given \cup (IF t < clock THEN {k} ELSE {})
  IN /\ lost' = out
     /\ ideal' = [l \in Keys |-> IF l \in out THEN NoCount
                                 ELSE IF l = k THEN Counted(ideal[l], t) ELSE ideal[l]]
     /\ clock' = IF t < clock THEN clock ELSE t

\* Mutant: a new key always takes a place.
CountAlways(k, t, kept, evicted) ==
  /\ entries' = [l \in DOMAIN kept \cup {k} |->
                   IF l = k THEN [Counted(IF k \in DOMAIN kept THEN kept[k] ELSE Nothing, t) EXCEPT !.seen = t]
                   ELSE kept[l]]
  /\ Forgets(k, t, evicted)

\* The key takes its place, or is not followed when every entry is an active block.
Count(k, t, kept, evicted) ==
  IF k \in DOMAIN kept \/ Cardinality(DOMAIN kept) < MaxEntries
  THEN /\ entries' = [l \in DOMAIN kept \cup {k} |->
                        IF l = k THEN [Counted(IF k \in DOMAIN kept THEN kept[k] ELSE Nothing, t) EXCEPT !.seen = t]
                        ELSE kept[l]]
       /\ Forgets(k, t, evicted)
  ELSE /\ entries' = kept
       /\ Forgets(k, t, evicted \cup {k})

RecordSweeping(k, t) ==
  /\ Sweeps(k)
  /\ \E evicted \in Evictions(Purged(t), t) :
       LET kept == Without(Purged(t), evicted) IN
       /\ Count(k, t, kept, evicted)
       /\ ops' = 0
       /\ saturated' = (NeedsRoom(k) /\ DOMAIN kept = Followed)

RecordPlainly(k, t) ==
  /\ ~Sweeps(k)
  /\ Count(k, t, entries, {})
  /\ ops' = ops + 1
  /\ UNCHANGED saturated

Reset(k) ==
  /\ entries' = Without(entries, {k})
  /\ ideal' = [ideal EXCEPT ![k] = NoCount]
  /\ lost' = lost \ {k}
  /\ UNCHANGED <<ops, saturated, clock>>

--------------------------------------------------------------------------------
(* Threads *)

Serve(r, call) == serving' = [serving EXCEPT ![r] = call]

\* login and setup ask about the shared key, /password about its own.  The check reads the
\* clock a little before: an older reading only refuses more.
Admit(r, a) ==
  /\ serving[r].at = "idle"
  /\ \/ /\ ~Blocked(<<a, "any">>)
        /\ Serve(r, [NoAttempt EXCEPT !.at = "verifying", !.todo = << <<a, "any">> >>])
     \/ /\ a \in Rotating /\ ~Blocked(<<a, "password">>)
        /\ Serve(r, [NoAttempt EXCEPT !.at = "verifying", !.todo = << <<a, "any">>, <<a, "password">> >>])
  /\ UNCHANGED <<now, table, history>>

Continue(r, point) ==
  Serve(r, IF Len(serving[r].todo) = 1 THEN NoAttempt
          ELSE [serving[r] EXCEPT !.at = point, !.todo = Tail(@), !.read = 0])

\* The password is wrong, or the set-up refused: record_failure reads the clock,
ReadClock(r) ==
  /\ serving[r].at \in {"verifying", "failing"}
  /\ Serve(r, [serving[r] EXCEPT !.at = "recording", !.read = now])
  /\ UNCHANGED <<now, table, history>>

\* and then waits for the lock.
RecordFailure(r) ==
  /\ serving[r].at = "recording"
  /\ \/ RecordSweeping(Head(serving[r].todo), serving[r].read)
     \/ RecordPlainly(Head(serving[r].todo), serving[r].read)
  /\ Continue(r, "failing")
  /\ UNCHANGED now

\* The password is right.
Clear(r) ==
  /\ serving[r].at \in {"verifying", "clearing"}
  /\ Reset(Head(serving[r].todo))
  /\ Continue(r, "clearing")
  /\ UNCHANGED now

Tick ==
  /\ now < Horizon
  /\ now' = now + 1
  /\ UNCHANGED <<table, serving, history>>

LimiterNext ==
  \/ Tick
  \/ \E r \in Threads :
       \/ \E a \in Addresses : Admit(r, a)
       \/ ReadClock(r)
       \/ RecordFailure(r)
       \/ Clear(r)

LimiterSpec == LimiterInit /\ [][LimiterNext]_limiterVars

--------------------------------------------------------------------------------
(* Properties *)

\* The table never holds more keys than its bound, whatever the clients send
\* (ratelimit.py:25-29), and a request holds keys as long as it has some to treat.
LimiterTypeOK ==
  /\ now \in Times /\ clock \in 0..now
  /\ DOMAIN entries \subseteq Keys /\ entries \in [Followed -> Entries]
  /\ Cardinality(Followed) <= MaxEntries
  /\ ops \in 0..(SweepEvery - 1) /\ saturated \in BOOLEAN
  /\ serving \in [Threads -> Attempts]
  /\ \A r \in Threads : serving[r].at # "idle" => serving[r].todo # <<>>
  /\ ideal \in [Keys -> Counts] /\ lost \subseteq Keys

\* A block that is running is touched by nobody but the key's own requests: neither a sweep,
\* nor an eviction, nor any number of new keys lifts or shortens it (ratelimit.py:146-149).
BlockIsKept ==
  [][\A k \in Keys : Blocked(k)
       => \/ k \in DOMAIN entries' /\ entries'[k].until = entries[k].until
          \/ \E r \in Threads : serving[r].at \in {"verifying", "recording", "clearing"} /\ Head(serving[r].todo) = k]_limiterVars

\* Sweeping is not observable (ratelimit.py:137-140): for a key that was never evicted nor
\* refused a place, the limiter answers as one that keeps every failure for ever.  A thread
\* that waited for the lock with an older reading of the clock than the last is left out.
LimiterIsExact ==
  \A k \in Keys \ lost :
    LET held == IF k \in Followed THEN entries[k] ELSE Nothing
    IN /\ held.until > now <=> ideal[k].until > now
       /\ Prune(held.failures, now) = Prune(ideal[k].failures, now)

================================================================================
