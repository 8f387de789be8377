---------------------------- MODULE RequestCache ----------------------------
(***************************************************************************)
(* The duplicate-request cache of application.cpp: a ring of               *)
(* REQUEST_CACHE_SIZE entries, written at g_next_cache_entry whatever the  *)
(* slot holds, and swept lazily by find_cached_request, which invalidates  *)
(* the expired entries it walks over and stops at the first match.         *)
(*                                                                         *)
(* Every read of an entry in the code is guarded by entry.valid, so all    *)
(* entries with valid = false are the same value here, Invalid.  One scan  *)
(* reads the clock once: the code reads esp_timer_get_time() per entry,    *)
(* microseconds apart on a lifetime of seconds.                            *)
(***************************************************************************)
EXTENDS RemoteMessage

CONSTANTS
  CacheSize,   \* REQUEST_CACHE_SIZE
  Lifetime     \* REQUEST_CACHE_LIFETIME_US, in ticks of the model's clock

ASSUME CacheSizeAssumption == CacheSize \in Nat \ {0}
ASSUME LifetimeAssumption == Lifetime \in Nat

VARIABLES
  cache,       \* g_request_cache
  nextEntry    \* g_next_cache_entry

Slots == 0 .. CacheSize - 1

Invalid == [valid |-> FALSE]

CachedRequest == [valid : {TRUE}, source : Peers, message : Message,
                  status : AcknowledgementStatus, cachedAt : Nat]

CacheTypeOK ==
  /\ cache \in [Slots -> CachedRequest \cup {Invalid}]
  /\ nextEntry \in Slots

CacheInit ==
  /\ cache = [s \in Slots |-> Invalid]
  /\ nextEntry = 0

(***************************************************************************)
(* find_cached_request                                                     *)
(***************************************************************************)
\* Fault: an entry of exactly the lifetime is already gone.
ExpiredEarly(entry, time) == entry.valid /\ time - entry.cachedAt >= Lifetime

Expired(entry, time) == entry.valid /\ time - entry.cachedAt > Lifetime

\* Fault: the lifetime of an entry is not looked at.
MatchesForever(entry, source, seq, time) ==
  entry.valid /\ entry.source = source /\ entry.message.seq = seq

Matches(entry, source, seq, time) ==
  /\ entry.valid /\ ~Expired(entry, time)
  /\ entry.source = source
  /\ entry.message.seq = seq

\* The slots whose entry answers the request (source, seq) at this time.
Hits(source, seq, time) ==
  {s \in Slots : Matches(cache[s], source, seq, time)}

\* The scan returns the hit with the lowest index ...
FirstHit(s, source, seq, time) ==
  /\ s \in Hits(source, seq, time)
  /\ \A t \in Hits(source, seq, time) : s <= t

\* ... having invalidated the expired entries below slot `end' on its way.
InvalidateExpired(end, time) ==
  cache' = [s \in Slots |-> IF s < end /\ Expired(cache[s], time)
                            THEN Invalid ELSE cache[s]]

\* Fault: the sequence number alone identifies a request.
IsSameSequence(entry, m) == entry.message.seq = m.seq

\* is_same_request: same flags and content; source and sequence number have
\* been compared by find_cached_request already.
IsSameRequest(entry, m) ==
  /\ entry.message.ackRequested = m.ackRequested
  /\ entry.message.isResponse = m.isResponse
  /\ entry.message.content = m.content

(***************************************************************************)
(* cache_request                                                           *)
(***************************************************************************)
\* Fault: the ring index is not wrapped around.
StoreWithoutWrap(source, m, status, time) ==
  /\ cache' = [cache EXCEPT ![nextEntry] =
                 [valid |-> TRUE, source |-> source, message |-> m,
                  status |-> status, cachedAt |-> time]]
  /\ nextEntry' = nextEntry + 1

StoreRequest(source, m, status, time) ==
  /\ cache' = [cache EXCEPT ![nextEntry] =
                 [valid |-> TRUE, source |-> source, message |-> m,
                  status |-> status, cachedAt |-> time]]
  /\ nextEntry' = (nextEntry + 1) % CacheSize
=============================================================================
