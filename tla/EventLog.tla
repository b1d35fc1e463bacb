------------------------------ MODULE EventLog ------------------------------
(***************************************************************************)
(* What an event store promises to those who append: a log to which every  *)
(* transaction adds its events at one moment, each after the last event of *)
(* its stream at that moment, and in which an idempotency key appends once *)
(* while it is remembered.  Nothing is ever changed or taken away but what *)
(* is remembered of keys.                                                  *)
(***************************************************************************)
EXTENDS Integers

CONSTANT Keys   \* idempotency keys

VARIABLES
  log,          \* the events: [stream, version, pos, key, body]
  remembered,   \* idempotency records: [key, stream, body, from, to]
  announced     \* positions of the events in the outbox

vars == <<log, remembered, announced>>

Init == log = {} /\ remembered = {} /\ announced = {}

\* What a transaction adds.
Added == log' \ log
Named == remembered' \ remembered

\* Event e comes before event d in stream and log.
Before(e, d) == e.version < d.version /\ e.pos < d.pos

\* The new events continue their streams without a gap, in the order of the log, and
\* at positions of their own.
ContinuesStreams ==
  /\ \A e \in log, d \in Added : e.pos # d.pos /\ (e.stream = d.stream => Before(e, d))
  /\ \A e, d \in Added :
       /\ e.pos = d.pos => e = d
       /\ e.stream = d.stream => e = d \/ Before(e, d) \/ Before(d, e)
  /\ \A d \in Added : \A v \in 1..d.version :
       \E e \in log' : e.stream = d.stream /\ e.version = v

\* A key that is not remembered may be used, for as many events as it asks for: one
\* range of one stream, and no other new event.
NamesItsEvents(k) ==
  /\ k.to - k.from + 1 = k.body.events
  /\ \A v \in k.from .. k.to :
       \E e \in Added : e.stream = k.stream /\ e.version = v /\ e.body = k.body
  /\ \A e \in Added :
       e.key = k.key <=> (e.stream = k.stream /\ e.version \in k.from .. k.to)

UsesKeysOnce ==
  /\ \A j \in remembered, k \in Named : j.key # k.key
  /\ \A j, k \in Named : j.key = k.key => j = k
  /\ \A k \in Named : NamesItsEvents(k)
  /\ \A e \in Added : e.key \in Keys => \E k \in Named : k.key = e.key

\* A transaction of any number of appends takes effect.
Transact ==
  /\ log \subseteq log' /\ remembered \subseteq remembered'
  /\ ContinuesStreams
  /\ UsesKeysOnce
  /\ announced' = announced \cup {e.pos : e \in {d \in Added : d.body.topics}}

\* A key is forgotten, and may append again.
Forget ==
  /\ \E k \in remembered : remembered' = remembered \ {k}
  /\ UNCHANGED <<log, announced>>

Next == Transact \/ Forget

Spec == Init /\ [][Next]_vars
=============================================================================
