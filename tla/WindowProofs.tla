---------------------------- MODULE WindowProofs ----------------------------
(***************************************************************************)
(* The request cache implements RequestWindow, for every cache size and    *)
(* lifetime, and with it duplicate suppression.                            *)
(***************************************************************************)
EXTENDS ApplicationProofs

\* The position in the log of the request last written to slot s: the slots
\* below nextEntry were written in this lap of the ring, the others in the
\* lap before.  Below 1, the slot has not been written since boot.
LogIndex(s) ==
  Len(log) - nextEntry + s + 1 - (IF s < nextEntry THEN 0 ELSE CacheSize)

EntryOf(e) ==
  [valid |-> TRUE, source |-> e.source, message |-> e.message,
   status |-> e.status, cachedAt |-> e.at]

Old(i) == now - log[i].at > Lifetime

\* A slot holds the request it was last written with, unless that one has
\* expired.
SlotMirrorsLog(s) ==
  IF LogIndex(s) >= 1
  THEN \/ cache[s] = EntryOf(log[LogIndex(s)])
       \/ cache[s] = Invalid /\ Old(LogIndex(s))
  ELSE cache[s] = Invalid

RingInv == \A s \in Slots : SlotMirrorsLog(s)

\* While a request is on its way through the gateway, nothing in the window
\* answers for it: what the lookup found stays true, for time only removes
\* entries from the window and the request itself is the next to be logged.
ThroughInv ==
  (step \in {"gateway", "can", "store"} /\ wanted) =>
    \A i \in 1 .. Len(log) :
      (/\ i > Len(log) - CacheSize
       /\ log[i].source = packet.source /\ log[i].message.seq = m.seq)
      => Old(i)

WindowInv == TypeInv /\ RingInv /\ ThroughInv

\* Every request of the window has its slot.
LEMMA SlotOf ==
  ASSUME TypeInv, NEW i \in 1 .. Len(log), i > Len(log) - CacheSize
  PROVE  \E s \in Slots : LogIndex(s) = i
  <1>1. Len(log) \in Nat /\ nextEntry \in 0 .. CacheSize - 1
        /\ CacheSize \in Nat \ {0}
    BY AllAssumptions
    DEF TypeInv, TypeOK, CacheTypeOK, Slots, Assumptions
  <1> DEFINE k == i - 1 - Len(log) + nextEntry
  <1>2. CASE k >= 0
    <2>1. k \in Slots /\ k < nextEntry
      BY <1>1, <1>2 DEF Slots
    <2>2. LogIndex(k) = i
      BY <1>1, <2>1 DEF LogIndex
    <2>3. QED  BY <2>1, <2>2
  <1>3. CASE k < 0
    <2>1. k + CacheSize \in Slots /\ ~(k + CacheSize < nextEntry)
      BY <1>1, <1>3 DEF Slots
    <2>2. LogIndex(k + CacheSize) = i
      BY <1>1, <2>1 DEF LogIndex
    <2>3. QED  BY <2>1, <2>2
  <1>4. QED  BY <1>1, <1>2, <1>3

\* A slot's request, if any, is in the window.
LEMMA SlotInWindow ==
  ASSUME TypeInv, NEW s \in Slots
  PROVE  /\ LogIndex(s) \in Int
         /\ LogIndex(s) <= Len(log) /\ LogIndex(s) > Len(log) - CacheSize
  BY AllAssumptions
  DEF TypeInv, TypeOK, CacheTypeOK, Slots, Assumptions, LogIndex

\* An empty ring mirrors an empty log.
LEMMA InitWindowInv == Init => WindowInv
  <1>1. ASSUME Init PROVE WindowInv
    <2>1. TypeInv
      BY <1>1, InitTypeInv
    <2>2. Len(log) = 0
      BY <1>1 DEF Init
    <2>3. RingInv
      <3>1. SUFFICES ASSUME NEW s \in Slots PROVE SlotMirrorsLog(s)
        BY DEF RingInv
      <3>2. LogIndex(s) <= 0
        BY <2>1, <2>2, SlotInWindow
      <3>3. cache[s] = Invalid
        BY <1>1 DEF Init, CacheInit
      <3>4. QED
        BY <2>1, <3>2, <3>3, SlotInWindow DEF SlotMirrorsLog
    <2>4. ThroughInv
      BY <1>1 DEF Init, ThroughInv
    <2>5. QED  BY <2>1, <2>3, <2>4 DEF WindowInv
  <1>2. QED  BY <1>1

\* The scan that finds nothing proves that nothing in the window answers.
LEMMA MissMeansOld ==
  ASSUME WindowInv, NEW source, NEW seq, Hits(source, seq, now) = {},
         NEW i \in 1 .. Len(log), i > Len(log) - CacheSize,
         log[i].source = source, log[i].message.seq = seq
  PROVE  Old(i)
  <1>1. PICK s \in Slots : LogIndex(s) = i
    BY SlotOf DEF WindowInv
  <1>2. cache[s] = EntryOf(log[i]) \/ Old(i)
    BY <1>1 DEF WindowInv, RingInv, SlotMirrorsLog
  <1>3. CASE cache[s] = EntryOf(log[i])
    <2>1. ~Matches(cache[s], source, seq, now)
      BY DEF Hits
    <2>2. QED
      BY <1>3, <2>1 DEF Matches, Expired, EntryOf, Old
  <1>4. QED  BY <1>2, <1>3

\* A hit is a live request of the window.
LEMMA HitIsLogged ==
  ASSUME WindowInv, NEW s \in Slots, NEW source, NEW seq,
         FirstHit(s, source, seq, now)
  PROVE  /\ LogIndex(s) \in 1 .. Len(log)
         /\ LogIndex(s) > Len(log) - CacheSize
         /\ cache[s] = EntryOf(log[LogIndex(s)])
         /\ log[LogIndex(s)].source = source
         /\ log[LogIndex(s)].message.seq = seq
         /\ ~Old(LogIndex(s))
  <1>1. cache[s].valid /\ ~Expired(cache[s], now)
        /\ cache[s].source = source /\ cache[s].message.seq = seq
    BY DEF FirstHit, Hits, Matches
  <1>2. cache[s] # Invalid
    BY <1>1 DEF Invalid
  <1>3. LogIndex(s) >= 1 /\ cache[s] = EntryOf(log[LogIndex(s)])
    BY <1>2 DEF WindowInv, RingInv, SlotMirrorsLog
  <1>4. LogIndex(s) \in 1 .. Len(log) /\ LogIndex(s) > Len(log) - CacheSize
    BY <1>3, SlotInWindow DEF WindowInv, TypeInv, TypeOK
  <1>5. QED
    BY <1>1, <1>3, <1>4 DEF EntryOf, Expired, Old

\* Nothing that the ring depends on moves, or only the clock does.
LEMMA RingStutter ==
  ASSUME RingInv, TypeInv, UNCHANGED cacheVars, now' \in Nat, now' >= now
  PROVE  RingInv'
  <1>1. SUFFICES ASSUME NEW s \in Slots PROVE SlotMirrorsLog(s)'
    BY DEF RingInv
  <1>2. LogIndex(s)' = LogIndex(s) /\ cache'[s] = cache[s] /\ log' = log
    BY DEF cacheVars, LogIndex
  <1>3. LogIndex(s) >= 1 => LogIndex(s) \in 1 .. Len(log)
    BY SlotInWindow DEF TypeInv, TypeOK
  <1>4. ASSUME LogIndex(s) >= 1, Old(LogIndex(s))
        PROVE  now' - log[LogIndex(s)].at > Lifetime
    <2>1. log[LogIndex(s)].at \in Nat /\ now \in Nat /\ Lifetime \in Nat
      <3>1. log \in Seq(LogEntry) /\ now \in 0 .. MaxTime
            /\ Lifetime \in Nat /\ MaxTime \in Nat
        BY AllAssumptions DEF TypeInv, TypeOK, Assumptions
      <3>2. log[LogIndex(s)] \in LogEntry
        BY <1>3, <1>4, <3>1
      <3>3. QED  BY <3>1, <3>2 DEF LogEntry
    <2>2. now - log[LogIndex(s)].at > Lifetime
      BY <1>4 DEF Old
    <2>3. QED  BY <2>1, <2>2
  <1>5. SlotMirrorsLog(s)
    BY DEF RingInv
  <1>6. QED
    BY <1>2, <1>4, <1>5 DEF SlotMirrorsLog, Old

\* The sweep empties expired slots only.
LEMMA RingSweep ==
  ASSUME RingInv, TypeInv, NEW end, InvalidateExpired(end, now),
         UNCHANGED <<nextEntry, log, now>>
  PROVE  RingInv'
  <1>1. SUFFICES ASSUME NEW s \in Slots PROVE SlotMirrorsLog(s)'
    BY DEF RingInv
  <1>2. LogIndex(s)' = LogIndex(s) /\ log' = log /\ now' = now
    BY DEF LogIndex
  <1>3. \/ cache'[s] = cache[s]
        \/ cache'[s] = Invalid /\ Expired(cache[s], now)
    BY DEF InvalidateExpired
  <1>4. SlotMirrorsLog(s)
    BY DEF RingInv
  <1>5. CASE cache'[s] = cache[s]
    BY <1>2, <1>4, <1>5 DEF SlotMirrorsLog, Old
  <1>6. CASE cache'[s] = Invalid /\ Expired(cache[s], now)
    <2>1. cache[s] # Invalid
      BY <1>6 DEF Expired, Invalid
    <2>2. LogIndex(s) >= 1 /\ cache[s] = EntryOf(log[LogIndex(s)])
      BY <1>4, <2>1 DEF SlotMirrorsLog
    <2>3. Old(LogIndex(s))
      BY <1>6, <2>2 DEF Expired, EntryOf, Old
    <2>4. QED
      BY <1>2, <1>6, <2>2, <2>3 DEF SlotMirrorsLog, Old
  <1>7. QED  BY <1>3, <1>5, <1>6

\* The ring index after cache_request, without the modulus.
LEMMA NextEntryStep ==
  ASSUME TypeInv
  PROVE  (nextEntry + 1) % CacheSize =
           IF nextEntry + 1 = CacheSize THEN 0 ELSE nextEntry + 1
  <1>1. nextEntry \in 0 .. CacheSize - 1 /\ CacheSize \in Nat \ {0}
    BY AllAssumptions
    DEF TypeInv, TypeOK, CacheTypeOK, Slots, Assumptions
  <1>2. CASE nextEntry + 1 = CacheSize
    <2>1. CacheSize % CacheSize = 0
      BY <1>1
    <2>2. QED  BY <1>2, <2>1
  <1>3. CASE nextEntry + 1 # CacheSize
    <2> DEFINE n == nextEntry + 1
    <2>1. n \in Nat /\ n < CacheSize
      BY <1>1, <1>3
    <2>2. n % CacheSize = n
      <3> HIDE DEF n
      <3>1. QED  BY <1>1, <2>1
    <2>3. QED  BY <1>3, <2>2
  <1>4. QED  BY <1>2, <1>3

\* Storing a request takes the slot of the oldest one and leaves every other
\* slot with the request it had.
LEMMA RingStore ==
  ASSUME RingInv, TypeInv, CacheRequest PROVE RingInv'
  <1>1. SUFFICES ASSUME NEW s \in Slots PROVE SlotMirrorsLog(s)'
    BY DEF RingInv
  <1> DEFINE e == [source |-> packet.source, message |-> m,
                   status |-> status, at |-> now]
  <1>2. /\ log' = Append(log, e) /\ now' = now
        /\ cache' = [cache EXCEPT ![nextEntry] = EntryOf(e)]
    BY DEF CacheRequest, StoreRequest, EntryOf, clockVars
  <1>3. nextEntry' = IF nextEntry + 1 = CacheSize THEN 0 ELSE nextEntry + 1
    BY NextEntryStep DEF CacheRequest, StoreRequest
  <1>4. /\ nextEntry \in 0 .. CacheSize - 1 /\ s \in 0 .. CacheSize - 1
        /\ CacheSize \in Nat \ {0} /\ log \in Seq(LogEntry)
        /\ cache \in [Slots -> CachedRequest \cup {Invalid}]
    BY AllAssumptions
    DEF TypeInv, TypeOK, CacheTypeOK, Slots, Assumptions
  <1>5. Len(log') = Len(log) + 1 /\ Len(log) \in Nat
        /\ log'[Len(log) + 1] = e
        /\ \A i \in 1 .. Len(log) : log'[i] = log[i]
    BY <1>2, <1>4
  <1>6. LogIndex(s)' = Len(log') - nextEntry' + s + 1
                       - (IF s < nextEntry' THEN 0 ELSE CacheSize)
    BY DEF LogIndex
  <1>7. CASE s = nextEntry
    <2>1. LogIndex(s)' = Len(log) + 1
      BY <1>3, <1>4, <1>5, <1>6, <1>7
    <2>2. cache'[s] = EntryOf(e)
      BY <1>2, <1>4, <1>7
    <2>3. QED
      BY <1>5, <2>1, <2>2 DEF SlotMirrorsLog
  <1>8. CASE s # nextEntry
    <2>1. LogIndex(s)' = LogIndex(s)
      <3>1. LogIndex(s) = Len(log) - nextEntry + s + 1
                          - (IF s < nextEntry THEN 0 ELSE CacheSize)
        BY DEF LogIndex
      <3>2. CASE nextEntry + 1 = CacheSize
        <4>1. nextEntry' = 0 /\ s < nextEntry /\ ~(s < nextEntry')
          BY <1>3, <1>4, <1>8, <3>2
        <4>2. QED  BY <1>4, <1>5, <1>6, <3>1, <3>2, <4>1
      <3>3. CASE nextEntry + 1 # CacheSize
        <4>1. nextEntry' = nextEntry + 1
              /\ (s < nextEntry' <=> s < nextEntry)
          BY <1>3, <1>4, <1>8, <3>3
        <4>2. QED  BY <1>4, <1>5, <1>6, <3>1, <4>1
      <3>4. QED  BY <3>2, <3>3
    <2>2. cache'[s] = cache[s]
      BY <1>2, <1>4, <1>8
    <2>3. LogIndex(s) >= 1 => LogIndex(s) \in 1 .. Len(log)
      BY SlotInWindow, <1>5
    <2>4. SlotMirrorsLog(s)
      BY DEF RingInv
    <2>5. LogIndex(s) >= 1 => log'[LogIndex(s)] = log[LogIndex(s)]
      BY <1>5, <2>3
    <2>6. QED
      BY <1>2, <2>1, <2>2, <2>4, <2>5 DEF SlotMirrorsLog, Old
  <1>9. QED  BY <1>7, <1>8

\* After a power cycle every slot and the log are empty.
LEMMA RingRestart ==
  ASSUME TypeInv, Restart PROVE RingInv'
  <1>1. SUFFICES ASSUME NEW s \in Slots PROVE SlotMirrorsLog(s)'
    BY DEF RingInv
  <1>2. cache'[s] = Invalid /\ nextEntry' = 0 /\ Len(log') = 0
    BY DEF Restart
  <1>3. s \in 0 .. CacheSize - 1 /\ CacheSize \in Nat \ {0}
    BY AllAssumptions DEF Slots, Assumptions
  <1>4. LogIndex(s)' = 0 - 0 + s + 1 - (IF s < 0 THEN 0 ELSE CacheSize)
    BY <1>2 DEF LogIndex
  <1>5. ~(LogIndex(s)' >= 1)
    BY <1>3, <1>4
  <1>6. QED  BY <1>2, <1>5 DEF SlotMirrorsLog
-----------------------------------------------------------------------------
\* The steps that touch neither the cache nor the log nor the clock.
Aside ==
  \/ \E t \in Offered : OnDataReceived(t)
  \/ Receive \/ IgnorePacket \/ AcceptPacket
  \/ Reject \/ Transmit
  \/ \E result \in TransmitResult : TransmitReturns(result)
  \/ SendAcknowledgement
  \/ BusStep
  \/ UNCHANGED vars

\* Every step is one of those, or one of the five that matter here.
LEMMA Cases ==
  ASSUME [Next]_vars
  PROVE  Aside \/ FindDuplicate \/ FindNothing \/ CacheRequest \/ Tick
         \/ Restart
  BY DEF Next, MainTask, Aside

\* Those steps leave cache, log and clock alone.
LEMMA AsideUnchanged ==
  ASSUME Aside PROVE UNCHANGED <<cache, nextEntry, log, now>>
  BY DEF Aside, OnDataReceived, Receive, IgnorePacket, AcceptPacket, Reject,
         Transmit, TransmitReturns, SendAcknowledgement, BusStep, vars,
         cacheVars, clockVars

\* An aside step enters the gateway only with a packet that wants no
\* acknowledgement, or stays on the way through it with the same packet.
LEMMA AsideThrough ==
  ASSUME TypeInv, Aside, step' \in {"gateway", "can", "store"}, wanted'
  PROVE  step \in {"gateway", "can", "store"} /\ packet' = packet
  BY DEF Aside, OnDataReceived, Receive, IgnorePacket, AcceptPacket, Reject,
         Transmit, TransmitReturns, SendAcknowledgement, BusStep, vars,
         mainVars, wanted, m

\* Every step keeps the ring a mirror of the log.
LEMMA NextRingInv ==
  ASSUME WindowInv, [Next]_vars PROVE RingInv'
  <1>1. now \in Nat /\ TypeInv /\ RingInv
    BY AllAssumptions DEF WindowInv, TypeInv, TypeOK, Assumptions
  <1>2. CASE Aside
    BY <1>1, <1>2, AsideUnchanged, RingStutter DEF cacheVars
  <1>3. CASE FindDuplicate
    <2>1. PICK hit \in Slots : InvalidateExpired(hit, now)
      BY <1>3 DEF FindDuplicate
    <2>2. UNCHANGED <<nextEntry, log, now>>
      BY <1>3 DEF FindDuplicate, clockVars
    <2>3. QED  BY <1>1, <2>1, <2>2, RingSweep
  <1>4. CASE FindNothing
    BY <1>1, <1>4, RingSweep DEF FindNothing, clockVars
  <1>5. CASE CacheRequest
    BY <1>1, <1>5, RingStore
  <1>6. CASE Tick
    <2>1. now' = now + 1 /\ UNCHANGED cacheVars
      BY <1>6 DEF Tick
    <2>2. QED  BY <1>1, <2>1, RingStutter
  <1>7. CASE Restart
    BY <1>1, <1>7, RingRestart
  <1>8. QED  BY <1>2, <1>3, <1>4, <1>5, <1>6, <1>7, Cases

\* Every step keeps the window silent about the request in the gateway.
LEMMA NextThroughInv ==
  ASSUME WindowInv, [Next]_vars PROVE ThroughInv'
  <1> SUFFICES ASSUME (step \in {"gateway", "can", "store"} /\ wanted)',
                      NEW i \in 1 .. Len(log'), i > Len(log') - CacheSize,
                      log'[i].source = packet'.source,
                      log'[i].message.seq = m'.seq
               PROVE  Old(i)'
    BY DEF ThroughInv
  <1>1. TypeInv /\ RingInv /\ ThroughInv
    BY DEF WindowInv
  <1>2. CASE Aside
    <2>1. step \in {"gateway", "can", "store"} /\ packet' = packet
      BY <1>1, <1>2, AsideThrough
    <2>2. UNCHANGED <<log, now, m, wanted>>
      BY <1>2, <2>1, AsideUnchanged DEF m, wanted
    <2>3. Old(i)
      BY <1>1, <2>1, <2>2 DEF ThroughInv
    <2>4. QED  BY <2>2, <2>3 DEF Old
  <1>3. CASE FindNothing
    <2>1. UNCHANGED <<log, now, packet, m>>
          /\ Hits(packet.source, m.seq, now) = {}
      BY <1>3 DEF FindNothing, clockVars, m
    <2>2. Old(i)
      BY <2>1, MissMeansOld
    <2>3. QED  BY <2>1, <2>2 DEF Old
  <1>4. CASE FindDuplicate \/ CacheRequest \/ Restart
    BY <1>4 DEF FindDuplicate, CacheRequest, Restart
  <1>5. CASE Tick
    <2>1. UNCHANGED <<log, step, packet, m, wanted>> /\ now' = now + 1
      BY <1>5 DEF Tick, mainVars, cacheVars, m, wanted
    <2>2. Old(i)
      BY <1>1, <2>1 DEF ThroughInv
    <2>3. now \in Nat /\ log[i].at \in Nat /\ Lifetime \in Nat
      <3>1. log \in Seq(LogEntry) /\ now \in 0 .. MaxTime
            /\ MaxTime \in Nat /\ Lifetime \in Nat
        BY <1>1, AllAssumptions DEF TypeInv, TypeOK, Assumptions
      <3>2. log[i] \in LogEntry
        BY <2>1, <3>1
      <3>3. QED  BY <3>1, <3>2 DEF LogEntry
    <2>4. QED  BY <2>1, <2>2, <2>3 DEF Old
  <1>6. QED  BY <1>2, <1>3, <1>4, <1>5, Cases

\* The ring always mirrors the log, and what goes through the gateway is not
\* in the window.
THEOREM WindowInvariant == Spec => []WindowInv
  <1>1. WindowInv /\ [Next]_vars => WindowInv'
    BY NextTypeInv, NextRingInv, NextThroughInv DEF WindowInv
  <1>2. QED  BY <1>1, InitWindowInv, PTL DEF Spec
-----------------------------------------------------------------------------
(***************************************************************************)
(* Duplicate suppression                                                   *)
(***************************************************************************)

\* A request is let through a second time only when its first outcome has
\* left the window: the property of the runs, for every size of the cache.
THEOREM DuplicateSuppressionHolds == Spec => []DuplicateSuppression
  <1>1. Init => DuplicateSuppression
    BY DEF Init, DuplicateSuppression
  <1>2. ASSUME WindowInv, DuplicateSuppression, [Next]_vars
        PROVE  DuplicateSuppression'
    <2> SUFFICES ASSUME NEW i \in 1 .. Len(log'), NEW j \in 1 .. Len(log'),
                        i < j, j - i <= CacheSize, SameKey(i, j)'
                 PROVE  log'[j].at - log'[i].at > Lifetime
      BY DEF DuplicateSuppression
    <2>1. CASE log' = log
      BY <1>2, <2>1 DEF DuplicateSuppression, SameKey
    <2>2. CASE CacheRequest
      <3> DEFINE e == [source |-> packet.source, message |-> m,
                       status |-> status, at |-> now]
      <3>1. log' = Append(log, e) /\ step = "store"
        BY <2>2 DEF CacheRequest
      <3>2. log \in Seq(LogEntry) /\ Len(log) \in Nat
            /\ CacheSize \in Nat \ {0}
        BY <1>2, AllAssumptions DEF WindowInv, TypeInv, TypeOK, Assumptions
      <3>3. Len(log') = Len(log) + 1 /\ log'[Len(log) + 1] = e
            /\ \A k \in 1 .. Len(log) : log'[k] = log[k]
        BY <3>1, <3>2
      <3>4. CASE j <= Len(log)
        <4>1. i \in 1 .. Len(log) /\ j \in 1 .. Len(log)
          BY <3>2, <3>3, <3>4
        <4>2. SameKey(i, j)
          BY <3>3, <4>1 DEF SameKey
        <4>3. QED  BY <1>2, <3>3, <4>1, <4>2 DEF DuplicateSuppression
      <3>5. CASE j = Len(log) + 1
        <4>1. i \in 1 .. Len(log) /\ i > Len(log) - CacheSize
          BY <3>2, <3>3, <3>5
        <4>2. log[i].source = packet.source /\ log[i].message.seq = m.seq
          BY <3>3, <3>5, <4>1 DEF SameKey
        <4>3. wanted
          BY <1>2, <3>1 DEF WindowInv, TypeInv, ControlInv
        <4>4. Old(i)
          BY <1>2, <3>1, <4>1, <4>2, <4>3 DEF WindowInv, ThroughInv
        <4>5. QED  BY <3>3, <3>5, <4>1, <4>4 DEF Old
      <3>6. QED  BY <3>2, <3>3, <3>4, <3>5
    <2>3. CASE Restart
      BY <2>3 DEF Restart
    <2>4. CASE FindDuplicate \/ FindNothing \/ Tick
      BY <2>1, <2>4 DEF FindDuplicate, FindNothing, Tick, cacheVars
    <2>5. QED  BY <1>2, <2>1, <2>2, <2>3, <2>4, Cases, AsideUnchanged
  <1>3. QED  BY <1>1, <1>2, WindowInvariant, PTL DEF Spec
-----------------------------------------------------------------------------
(***************************************************************************)
(* What is acknowledged                                                    *)
(***************************************************************************)

\* Nothing was logged in the future.
LogInThePast == \A i \in 1 .. Len(log) : log[i].at <= now

AnswerInv == LogInThePast /\ AcknowledgesLatestOutcome

\* The entries of the log have their types.
LEMMA LogTypes ==
  ASSUME WindowInv, NEW i \in 1 .. Len(log)
  PROVE  log[i].at \in Nat /\ log[i].message \in Message
  <1>1. log \in Seq(LogEntry)
    BY DEF WindowInv, TypeInv, TypeOK
  <1>2. log[i] \in LogEntry
    BY <1>1
  <1>3. QED  BY <1>2 DEF LogEntry

\* The log grows at its end, by an entry stamped now, or starts afresh.
LEMMA NextLogInThePast ==
  ASSUME WindowInv, LogInThePast, [Next]_vars PROVE LogInThePast'
  <1>1. log \in Seq(LogEntry) /\ now \in Nat
    BY AllAssumptions DEF WindowInv, TypeInv, TypeOK, Assumptions
  <1>2. \A i \in 1 .. Len(log) : log[i].at \in Nat
    BY LogTypes
  <1>3. CASE log' = log /\ now' \in {now, now + 1}
    BY <1>1, <1>2, <1>3 DEF LogInThePast
  <1>4. CASE CacheRequest
    <2> DEFINE e == [source |-> packet.source, message |-> m,
                     status |-> status, at |-> now]
    <2>1. log' = Append(log, e) /\ now' = now
      BY <1>4 DEF CacheRequest, clockVars
    <2>2. Len(log') = Len(log) + 1 /\ log'[Len(log) + 1] = e
          /\ \A k \in 1 .. Len(log) : log'[k] = log[k]
      BY <1>1, <2>1
    <2>3. QED  BY <1>1, <2>1, <2>2 DEF LogInThePast
  <1>5. CASE Restart
    BY <1>5 DEF Restart, LogInThePast
  <1>6. CASE FindDuplicate \/ FindNothing \/ Tick
    BY <1>3, <1>6 DEF FindDuplicate, FindNothing, Tick, cacheVars, clockVars
  <1>7. QED  BY <1>3, <1>4, <1>5, <1>6, Cases, AsideUnchanged

\* A live request of the window is the latest one with its key: a later one
\* was let through only when this one had expired.
LEMMA LiveIsLatest ==
  ASSUME WindowInv, DuplicateSuppression, LogInThePast,
         NEW i \in 1 .. Len(log), i > Len(log) - CacheSize, ~Old(i),
         NEW j \in 1 .. Len(log), SameKey(i, j)
  PROVE  j <= i
  <1>1. log \in Seq(LogEntry) /\ now \in Nat /\ Len(log) \in Nat
        /\ CacheSize \in Nat /\ Lifetime \in Nat
    BY AllAssumptions DEF WindowInv, TypeInv, TypeOK, Assumptions
  <1>2. log[i].at \in Nat /\ log[j].at \in Nat /\ log[j].at <= now
    BY LogTypes DEF LogInThePast
  <1>3. SUFFICES ASSUME i < j PROVE FALSE
    BY <1>1
  <1>4. j - i <= CacheSize
    BY <1>1
  <1>5. log[j].at - log[i].at > Lifetime
    BY <1>3, <1>4 DEF DuplicateSuppression
  <1>6. now - log[i].at > Lifetime
    BY <1>1, <1>2, <1>5
  <1>7. QED  BY <1>6 DEF Old

\* A duplicate is given the outcome of the latest request with its key.
LEMMA DuplicateAcknowledgesLatest ==
  ASSUME WindowInv, DuplicateSuppression, LogInThePast, FindDuplicate
  PROVE  AcknowledgesLatestOutcome'
  <1>1. PICK hit \in Slots :
          /\ FirstHit(hit, packet.source, m.seq, now)
          /\ status' = IF IsSameRequest(cache[hit], m) THEN cache[hit].status
                       ELSE "InvalidMessage"
    BY DEF FindDuplicate
  <1> DEFINE i == LogIndex(hit)
  <1>2. /\ i \in 1 .. Len(log) /\ i > Len(log) - CacheSize /\ ~Old(i)
        /\ cache[hit] = EntryOf(log[i])
        /\ log[i].source = packet.source /\ log[i].message.seq = m.seq
    BY <1>1, HitIsLogged
  <1>3. UNCHANGED <<log, packet, m>>
    BY DEF FindDuplicate, m
  <1>4. \A j \in SameRequests : j <= i
    <2>1. SUFFICES ASSUME NEW j \in SameRequests PROVE j <= i
      OBVIOUS
    <2>2. j \in 1 .. Len(log) /\ SameKey(i, j)
      BY <1>2 DEF SameRequests, SameKey
    <2>3. QED  BY <1>2, <2>2, LiveIsLatest
  <1>5. status' = IF log[i].message = m THEN log[i].status
                  ELSE "InvalidMessage"
    <2>1. log[i].message \in Message /\ m \in Message
      <3>1. packet \in Packet
        BY DEF WindowInv, TypeInv, ControlInv, FindDuplicate
      <3>2. QED  BY <1>2, <3>1, LogTypes DEF Packet, m
    <2>2. IsSameRequest(cache[hit], m) <=> log[i].message = m
      BY <1>2, <2>1 DEF IsSameRequest, EntryOf, Message
    <2>3. QED  BY <1>1, <1>2, <2>2 DEF EntryOf
  <1>6. i \in SameRequests
    BY <1>2 DEF SameRequests
  <1>7. SameRequests' = SameRequests
    BY <1>3 DEF SameRequests
  <1>8. QED
    BY <1>3, <1>4, <1>5, <1>6, <1>7 DEF AcknowledgesLatestOutcome

\* A new request is given its own outcome, which is the latest.
LEMMA RecordAcknowledgesLatest ==
  ASSUME WindowInv, CacheRequest PROVE AcknowledgesLatestOutcome'
  <1> DEFINE e == [source |-> packet.source, message |-> m,
                   status |-> status, at |-> now]
  <1>1. /\ log' = Append(log, e) /\ UNCHANGED <<packet, m, status>>
    BY DEF CacheRequest, m
  <1>2. log \in Seq(LogEntry) /\ Len(log) \in Nat
    BY DEF WindowInv, TypeInv, TypeOK
  <1>3. Len(log') = Len(log) + 1 /\ log'[Len(log) + 1] = e
    BY <1>1, <1>2
  <1>4. Len(log) + 1 \in SameRequests'
    BY <1>1, <1>2, <1>3 DEF SameRequests
  <1>5. \A j \in SameRequests' : j <= Len(log) + 1
    BY <1>2, <1>3 DEF SameRequests
  <1>6. status' = IF log'[Len(log) + 1].message = m' THEN
                    log'[Len(log) + 1].status ELSE "InvalidMessage"
    BY <1>1, <1>3
  <1>7. QED  BY <1>4, <1>5, <1>6 DEF AcknowledgesLatestOutcome

\* The other steps do not enter "ack", or leave what is acknowledged alone.
LEMMA OthersKeepAcknowledgement ==
  ASSUME AcknowledgesLatestOutcome,
         Aside \/ FindNothing \/ Tick \/ Restart
  PROVE  AcknowledgesLatestOutcome'
  <1>1. \/ step' # "ack"
        \/ step = "ack" /\ UNCHANGED <<log, packet, m, status>>
    BY DEF Aside, OnDataReceived, Receive, IgnorePacket, AcceptPacket, Reject,
           Transmit, TransmitReturns, SendAcknowledgement, BusStep, vars,
           FindNothing, Tick, Restart, mainVars, cacheVars, m
  <1>2. CASE step = "ack" /\ UNCHANGED <<log, packet, m, status>>
    <2>1. SameRequests' = SameRequests
      BY <1>2 DEF SameRequests
    <2>2. QED  BY <1>2, <2>1 DEF AcknowledgesLatestOutcome
  <1>3. QED  BY <1>1, <1>2 DEF AcknowledgesLatestOutcome

\* An acknowledgement reports the latest recorded outcome of its request: the
\* property of the runs, for every size of the cache and every lifetime.
THEOREM AcknowledgesLatestOutcomeHolds == Spec => []AcknowledgesLatestOutcome
  <1>1. Init => AnswerInv
    BY DEF Init, AnswerInv, LogInThePast, AcknowledgesLatestOutcome
  <1>2. ASSUME WindowInv, DuplicateSuppression, AnswerInv, [Next]_vars
        PROVE  AnswerInv'
    <2>1. LogInThePast'
      BY <1>2, NextLogInThePast DEF AnswerInv
    <2>2. AcknowledgesLatestOutcome'
      BY <1>2, DuplicateAcknowledgesLatest, RecordAcknowledgesLatest,
         OthersKeepAcknowledgement, Cases DEF AnswerInv
    <2>3. QED  BY <2>1, <2>2 DEF AnswerInv
  <1>3. AnswerInv => AcknowledgesLatestOutcome
    BY DEF AnswerInv
  <1>4. QED
    BY <1>1, <1>2, <1>3, WindowInvariant, DuplicateSuppressionHolds, PTL
    DEF Spec
-----------------------------------------------------------------------------
(***************************************************************************)
(* Refinement                                                              *)
(***************************************************************************)

\* The reply that the mapping of Application gives to RequestWindow.
ReplyBar == IF step = "ack" THEN [source |-> packet.source, message |-> m,
                                  status |-> status]
            ELSE [status |-> "none"]

\* There is a reply to give exactly in step "ack".
LEMMA NoReplyBar ==
  ASSUME status \in AcknowledgementStatus
  PROVE  ReplyBar = [status |-> "none"] <=> step # "ack"
  <1>1. "none" \notin AcknowledgementStatus
    BY DEF AcknowledgementStatus
  <1>2. ASSUME step = "ack" PROVE ReplyBar # [status |-> "none"]
    <2>1. ReplyBar.status = status
      BY <1>2 DEF ReplyBar
    <2>2. QED  BY <1>1, <2>1
  <1>3. ASSUME step # "ack" PROVE ReplyBar = [status |-> "none"]
    BY <1>3 DEF ReplyBar
  <1>4. QED  BY <1>2, <1>3

\* A duplicate is answered from the window.
LEMMA DuplicateIsRepeat ==
  ASSUME WindowInv, FindDuplicate
  PROVE  Window!Repeat(packet.source, m)
  <1>1. PICK hit \in Slots :
          /\ FirstHit(hit, packet.source, m.seq, now)
          /\ status' = IF IsSameRequest(cache[hit], m) THEN cache[hit].status
                       ELSE "InvalidMessage"
    BY DEF FindDuplicate
  <1> DEFINE i == LogIndex(hit)
  <1>2. /\ i \in 1 .. Len(log) /\ i > Len(log) - CacheSize
        /\ cache[hit] = EntryOf(log[i])
        /\ log[i].source = packet.source /\ log[i].message.seq = m.seq
        /\ ~Old(i)
    BY <1>1, HitIsLogged
  <1>3. step = "lookup" /\ step' = "ack" /\ UNCHANGED <<now, log, packet, m>>
    BY DEF FindDuplicate, clockVars, m
  <1>4. packet \in Packet /\ log \in Seq(LogEntry)
        /\ now \in Nat /\ Lifetime \in Nat
    BY <1>3, AllAssumptions
    DEF WindowInv, TypeInv, TypeOK, ControlInv, Assumptions
  <1>5. m \in Message /\ log[i] \in LogEntry
    BY <1>2, <1>4 DEF Packet, m
  <1>6. log[i].message \in Message /\ log[i].at \in Nat
    BY <1>5 DEF LogEntry
  <1>7. i \in Window!Window(packet.source, m.seq)
    <2>1. now - log[i].at <= Lifetime
      BY <1>2, <1>4, <1>6 DEF Old
    <2>2. QED  BY <1>2, <2>1 DEF Window!Window
  <1>8. IsSameRequest(cache[hit], m) <=> log[i].message = m
    <2>1. cache[hit].message = log[i].message
      BY <1>2 DEF EntryOf
    <2>2. QED
      BY <1>2, <1>5, <1>6, <2>1 DEF IsSameRequest, Message
  <1>9. cache[hit].status = log[i].status
    BY <1>2 DEF EntryOf
  <1>10. status' = IF log[i].message = m THEN log[i].status
                   ELSE "InvalidMessage"
    BY <1>1, <1>8, <1>9
  <1>11. ReplyBar = [status |-> "none"]
         /\ ReplyBar' = [source |-> packet.source, message |-> m,
                         status |-> status']
    BY <1>3 DEF ReplyBar
  <1>12. QED
    BY <1>3, <1>7, <1>10, <1>11
    DEF Window!Repeat, Window!NoReply, Window!Reply, ReplyBar

\* A stored request is recorded when nothing in the window answers for it.
LEMMA CacheRequestIsRecord ==
  ASSUME WindowInv, CacheRequest
  PROVE  Window!Record(packet.source, m, status)
  <1>1. /\ step = "store" /\ step' = "ack"
        /\ UNCHANGED <<now, packet, m, status>>
        /\ log' = Append(log, [source |-> packet.source, message |-> m,
                               status |-> status, at |-> now])
    BY DEF CacheRequest, clockVars, m
  <1>2. wanted
    BY <1>1 DEF WindowInv, TypeInv, ControlInv
  <1>3. Window!Window(packet.source, m.seq) = {}
    <2> SUFFICES ASSUME NEW i \in Window!Window(packet.source, m.seq)
                 PROVE  FALSE
      OBVIOUS
    <2>1. /\ i \in 1 .. Len(log) /\ i > Len(log) - CacheSize
          /\ now - log[i].at <= Lifetime
          /\ log[i].source = packet.source /\ log[i].message.seq = m.seq
      BY DEF Window!Window
    <2>2. Old(i)
      BY <1>1, <1>2, <2>1 DEF WindowInv, ThroughInv
    <2>3. now \in Nat /\ Lifetime \in Nat /\ log[i].at \in Nat
      <3>1. log \in Seq(LogEntry) /\ now \in 0 .. MaxTime
            /\ MaxTime \in Nat /\ Lifetime \in Nat
        BY AllAssumptions DEF WindowInv, TypeInv, TypeOK, Assumptions
      <3>2. log[i] \in LogEntry
        BY <2>1, <3>1
      <3>3. QED  BY <3>1, <3>2 DEF LogEntry
    <2>4. QED  BY <2>1, <2>2, <2>3 DEF Old
  <1>4. ReplyBar = [status |-> "none"]
        /\ ReplyBar' = [source |-> packet.source, message |-> m,
                        status |-> status]
    BY <1>1 DEF ReplyBar
  <1>5. QED
    BY <1>1, <1>3, <1>4
    DEF Window!Record, Window!NoReply, Window!Reply, ReplyBar

\* The remaining steps answer, or leave the reply alone.
LEMMA AsideIsAnsweredOrStutter ==
  ASSUME WindowInv, Aside
  PROVE  Window!Answered \/ UNCHANGED Window!windowVars
  <1>1. UNCHANGED <<now, log>>
    BY AsideUnchanged
  <1>2. CASE SendAcknowledgement
    <2>1. step = "ack" /\ step' # "ack"
      BY <1>2 DEF SendAcknowledgement
    <2>2. ReplyBar # [status |-> "none"] /\ ReplyBar' = [status |-> "none"]
      <3>1. status \in AcknowledgementStatus
        BY DEF WindowInv, TypeInv, TypeOK
      <3>2. QED  BY <2>1, <3>1, NoReplyBar DEF ReplyBar
    <2>3. QED
      BY <1>1, <2>2 DEF Window!Answered, Window!NoReply, ReplyBar
  <1>3. CASE ~SendAcknowledgement
    <2>1. ReplyBar' = ReplyBar
      <3>1. \/ step # "ack" /\ step' # "ack"
            \/ UNCHANGED <<step, packet, m, status>>
        BY <1>3
        DEF Aside, OnDataReceived, Receive, IgnorePacket, AcceptPacket,
            Reject, Transmit, TransmitReturns, BusStep, vars, mainVars, m
      <3>2. QED  BY <3>1 DEF ReplyBar
    <2>2. QED  BY <1>1, <2>1 DEF Window!windowVars, ReplyBar
  <1>4. QED  BY <1>2, <1>3

\* An answer from the record is a step of the abstract receiver.
LEMMA RepeatIsNext ==
  ASSUME NEW source \in Peers, NEW msg \in Message,
         Window!Repeat(source, msg)
  PROVE  Window!WindowNext
  BY Zenon DEF Window!WindowNext, Window!Message, Message

\* So is a new record.
LEMMA RecordIsNext ==
  ASSUME NEW source \in Peers, NEW msg \in Message,
         NEW st \in AcknowledgementStatus, Window!Record(source, msg, st)
  PROVE  Window!WindowNext
  BY Zenon
  DEF Window!WindowNext, Window!Message, Message,
      Window!AcknowledgementStatus, AcknowledgementStatus

\* Every step of the receiver is a step of the abstract one, or none.
LEMMA StepRefines ==
  ASSUME WindowInv, [Next]_vars
  PROVE  [Window!WindowNext]_(Window!windowVars)
  <1>1. step \in {"lookup", "store"} =>
          packet.source \in Peers /\ m \in Message
          /\ status \in AcknowledgementStatus
    BY DEF WindowInv, TypeInv, TypeOK, ControlInv, Packet, m
  <1>2. CASE Aside
    BY <1>2, AsideIsAnsweredOrStutter DEF Window!WindowNext
  <1>3. CASE FindDuplicate
    <2>1. step = "lookup"
      BY <1>3 DEF FindDuplicate
    <2>2. Window!Repeat(packet.source, m)
      BY <1>3, DuplicateIsRepeat
    <2>3. packet.source \in Peers /\ m \in Message
      BY <1>1, <2>1
    <2>4. QED  BY <2>2, <2>3, RepeatIsNext
  <1>4. CASE FindNothing
    <2>1. UNCHANGED <<now, log>> /\ step # "ack" /\ step' # "ack"
      BY <1>4 DEF FindNothing, clockVars
    <2>2. QED  BY <2>1 DEF Window!windowVars
  <1>5. CASE CacheRequest
    <2>1. step = "store"
      BY <1>5 DEF CacheRequest
    <2>2. Window!Record(packet.source, m, status)
      BY <1>5, CacheRequestIsRecord
    <2>3. /\ packet.source \in Peers /\ m \in Message
          /\ status \in AcknowledgementStatus
      BY <1>1, <2>1
    <2>4. QED  BY <2>2, <2>3, RecordIsNext
  <1>6. CASE Tick
    <2>1. now' = now + 1 /\ UNCHANGED <<log, step, packet, m, status>>
      BY <1>6 DEF Tick, mainVars, cacheVars, m
    <2>2. QED  BY <2>1 DEF Window!WindowNext, Window!Pass
  <1>7. CASE Restart
    <2>1. now' = 0 /\ log' = <<>> /\ step' # "ack"
      BY <1>7 DEF Restart
    <2>2. QED
      BY <2>1
      DEF Window!WindowNext, Window!PowerCycle, Window!WindowInit,
          Window!NoReply
  <1>8. QED  BY <1>2, <1>3, <1>4, <1>5, <1>6, <1>7, Cases

\* The receiver with its ring of cache entries implements the ideal record of
\* recent requests.
THEOREM Refinement == Spec => ImplementsWindow
  <1>1. Init => Window!WindowInit
    BY DEF Init, Window!WindowInit, Window!NoReply
  <1>2. QED
    BY <1>1, StepRefines, WindowInvariant, PTL
    DEF Spec, ImplementsWindow, Window!WindowSpec
=============================================================================
