---------------------------- MODULE RateLimiter ----------------------------
(***************************************************************************)
(* InMemoryFixedWindowRateLimiter (src/infrastructure/http/                *)
(* request-security.ts): a Map from key to window, kept in the order in    *)
(* which the windows were opened, as a sequence of its entries.            *)
(***************************************************************************)
EXTENDS Integers, Sequences, FiniteSetsExt

CONSTANTS
  Key,        \* the addresses of clients, and:
  SharedClientKey,  \* the key of those whose address cannot be trusted
  Maximum,    \* requests of a key in one window
  Window,     \* its length
  MaxEntries  \* windows kept in memory

ASSUME LimiterAssumption ==
  SharedClientKey \in Key /\ Maximum \in Nat \ {0} /\ Window \in Nat \ {0} /\ MaxEntries \in Nat \ {0}

\* getRateLimitClientKey.
ClientKey(address) == IF address \in Key THEN address ELSE SharedClientKey

Entry == [key : Key, count : 1..Maximum, resetsAt : Nat]

Entries(entries, key) == {i \in DOMAIN entries : entries[i].key = key}

\* What is left of a Map, in its order, when all but the entries at S are deleted.
Kept(entries, S) ==
  LET Nth(n) == CHOOSE i \in S : Cardinality({j \in S : j < i}) = n - 1
  IN  [n \in 1..Cardinality(S) |-> entries[Nth(n)]]

Others(entries, key) == Kept(entries, DOMAIN entries \ Entries(entries, key))

OverBefore(entry, now) == entry.resetsAt < now
Over(entry, now) == entry.resetsAt <= now

\* At capacity the windows that are over are swept, then the oldest dropped.
MakeRoom(entries, now) ==
  IF Len(entries) < MaxEntries THEN entries
  ELSE LET open == {i \in DOMAIN entries : ~Over(entries[i], now)}
       IN  Kept(entries, {i \in open : Cardinality({j \in open : j >= i}) < MaxEntries})

NewWindow(entries, key, now) ==
  Append(MakeRoom(Others(entries, key), now), [key |-> key, count |-> 1, resetsAt |-> now + Window])

\* The answer of consume and the map it leaves.
Consume(entries, key, now) ==
  IF \A i \in Entries(entries, key) : Over(entries[i], now)
  THEN [allowed |-> TRUE, entries |-> NewWindow(entries, key, now)]
  ELSE LET i == CHOOSE i \in Entries(entries, key) : TRUE
       IN  IF entries[i].count >= Maximum
           THEN [allowed |-> FALSE, entries |-> entries]
           ELSE [allowed |-> TRUE, entries |-> [entries EXCEPT ![i].count = @ + 1]]
=============================================================================
