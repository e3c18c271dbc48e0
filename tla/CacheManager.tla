---------------------------- MODULE CacheManager ----------------------------
(***************************************************************************)
(* CacheManager.java: the message keys a connection of FaceCrypt has       *)
(* learnt, by the identifier of the post, and the queue of identifiers     *)
(* that says which key goes when there are more than MAX_SIZE.             *)
(***************************************************************************)
EXTENDS Integers, Sequences, FiniteSets

CONSTANTS Ids,         \* the identifiers of posts
          MessageKeys, \* the symmetric keys of posts
          MAX_SIZE     \* 1500

ASSUME SizeAssumption == MAX_SIZE \in Nat \ {0}

VARIABLES map, stack

cacheVars == <<map, stack>>

NoEntries == [id \in {} |-> id]

\* The constructor.
EmptyCache == map = NoEntries /\ stack = <<>>

\* getPayload(id) does not return null.
InCache(id) == id \in DOMAIN map

With(id, payload) ==
  [x \in DOMAIN map \cup {id} |-> IF x = id THEN payload ELSE map[x]]

Without(entries, id) == [x \in DOMAIN entries \ {id} |-> entries[x]]

\* Mutant: the key that leaves is the newest.
AddPayloadNewest(id, payload) ==
  LET entries == With(id, payload)
  IN IF Cardinality(DOMAIN entries) > MAX_SIZE
       THEN map' = Without(entries, id) /\ stack' = stack
       ELSE map' = entries /\ stack' = Append(stack, id)

\* The queue is given the identifier even when the map had it already:
\* nothing but the caller keeps an identifier from being queued twice.
AddPayload(id, payload) ==
  LET entries == With(id, payload)
      queue == Append(stack, id)
  IN IF Cardinality(DOMAIN entries) > MAX_SIZE
       THEN map' = Without(entries, Head(queue)) /\ stack' = Tail(queue)
       ELSE map' = entries /\ stack' = queue
=============================================================================
