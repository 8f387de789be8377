--------------------------- MODULE RequestWindow ---------------------------
(***************************************************************************)
(* What the receiver promises a sender that retries: requests are recorded *)
(* once, with their outcome, and answered from the record while they are   *)
(* in the window, that is among the last CacheSize recorded and no older   *)
(* than Lifetime.  No ring, no lazy sweep, no slot indices: Application    *)
(* implements this with the request cache.                                 *)
(***************************************************************************)
EXTENDS RemoteMessage

CONSTANTS CacheSize, Lifetime

VARIABLES
  now,    \* the clock
  log,    \* requests recorded since boot, oldest first
  reply   \* the answer about to be sent, or NoReply

windowVars == <<now, log, reply>>

NoReply == [status |-> "none"]

Reply(source, m, status) ==
  [source |-> source, message |-> m, status |-> status]

\* The recorded requests that answer for (source, seq) now.
Window(source, seq) ==
  {i \in 1 .. Len(log) : /\ i > Len(log) - CacheSize
                         /\ now - log[i].at <= Lifetime
                         /\ log[i].source = source
                         /\ log[i].message.seq = seq}

WindowInit == now = 0 /\ log = <<>> /\ reply = NoReply

\* A retry is answered from the record, anything else under the same
\* sequence number is refused.
Repeat(source, m) ==
  /\ reply = NoReply
  /\ \E i \in Window(source, m.seq) :
       reply' = Reply(source, m, IF log[i].message = m THEN log[i].status
                                 ELSE "InvalidMessage")
  /\ UNCHANGED <<now, log>>

\* A request is recorded with its outcome when nothing in the window answers
\* for it.
Record(source, m, status) ==
  /\ reply = NoReply
  /\ Window(source, m.seq) = {}
  /\ log' = Append(log, [source |-> source, message |-> m,
                         status |-> status, at |-> now])
  /\ reply' = Reply(source, m, status)
  /\ UNCHANGED now

Answered == reply # NoReply /\ reply' = NoReply /\ UNCHANGED <<now, log>>

Pass == now' = now + 1 /\ UNCHANGED <<log, reply>>

PowerCycle == WindowInit'

WindowNext ==
  \/ \E source \in Peers, m \in Message :
       \/ Repeat(source, m)
       \/ \E status \in AcknowledgementStatus : Record(source, m, status)
  \/ Answered
  \/ Pass
  \/ PowerCycle

WindowSpec == WindowInit /\ [][WindowNext]_windowVars
=============================================================================
