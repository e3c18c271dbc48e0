--------------------------- MODULE PostReaderProofs ---------------------------
(***************************************************************************)
(* Theorems about PostReader.tla, for every set of posts, every size of    *)
(* the cache and any number of messages: its queue names the cached posts  *)
(* each once, they are the last ones read, and each has its own key.       *)
(*                                                                         *)
(* None of the three is inductive.  The queue has no duplicate because a   *)
(* post that is being opened is not in the cache; the keys and the order   *)
(* are right between two messages because they are right at every point    *)
(* of a thread that goes on.                                               *)
(***************************************************************************)
EXTENDS PostReader, FiniteSetTheorems, SequenceTheorems, TLAPS

\* The size of the queue is the size of the cache.
Indexed ==
  /\ CacheBounded
  /\ IsFiniteSet(DOMAIN map)
  /\ Cardinality(DOMAIN map) = Len(stack)

\* A post being opened was not in the cache when it was looked up.
Opening ==
  pc \in {"trying", "deciphering"} /\ ~cached => mess.post \notin DOMAIN map

\* A thread that goes on has no wrong key.
OwnKeys == pc # "ended" => \A post \in DOMAIN map : map[post] = KeyOf[post]

\* The last posts of a sequence, as many as the cache holds.
Last(posts) ==
  LET n == Len(posts)
  IN SubSeq(posts, IF n > MAX_SIZE THEN n - MAX_SIZE + 1 ELSE 1, n)

LastKept == pc # "ended" => stack = Last(opened)

Inv == ReaderTypeOK /\ Indexed /\ Opening /\ OwnKeys /\ LastKept

CacheType ==
  /\ DOMAIN map \subseteq Ids
  /\ map \in [DOMAIN map -> MessageKeys]
  /\ stack \in Seq(Ids)

-----------------------------------------------------------------------------
(* What addPayload does to a cache that lacks the post.                     *)

\* The queue after a post has joined it, before the oldest one leaves.
LEMMA QueueJoined ==
  ASSUME CacheType, Indexed, NEW post \in Ids \ DOMAIN map,
         NEW queue, queue = Append(stack, post)
  PROVE  /\ queue \in Seq(Ids)
         /\ Len(queue) = Len(stack) + 1
         /\ {queue[i] : i \in 1 .. Len(queue)} = DOMAIN map \cup {post}
         /\ \A i, j \in 1 .. Len(queue) : queue[i] = queue[j] => i = j
         /\ IsFiniteSet(DOMAIN map \cup {post})
         /\ Cardinality(DOMAIN map \cup {post}) = Len(queue)
<1> USE DEF CacheType
<1>1. Len(stack) \in Nat /\ queue \in Seq(Ids) /\ Len(queue) = Len(stack) + 1
  BY SMT
<1>2. \A i \in 1 .. Len(queue) :
        queue[i] = IF i = Len(stack) + 1 THEN post ELSE stack[i]
  BY <1>1, SMT
<1>3. {stack[i] : i \in 1 .. Len(stack)} = DOMAIN map
  BY DEF Indexed, CacheBounded, Positions
<1>4. {queue[i] : i \in 1 .. Len(queue)} = DOMAIN map \cup {post}
  <2>1. ASSUME NEW i \in 1 .. Len(queue) PROVE queue[i] \in DOMAIN map \cup {post}
    <3>1. CASE i = Len(stack) + 1
      BY <1>2, <3>1
    <3>2. CASE i \in 1 .. Len(stack)
      BY <1>2, <1>3, <1>1, <3>2, SMT
    <3> QED
      BY <1>1, <3>1, <3>2, SMT
  <2>2. ASSUME NEW x \in DOMAIN map PROVE \E i \in 1 .. Len(queue) : queue[i] = x
    <3>1. PICK i \in 1 .. Len(stack) : stack[i] = x
      BY <1>3
    <3>2. i \in 1 .. Len(queue) /\ queue[i] = x
      BY <3>1, <1>1, <1>2, SMT
    <3> QED
      BY <3>2
  <2>3. Len(queue) \in 1 .. Len(queue) /\ queue[Len(queue)] = post
    BY <1>1, <1>2, SMT
  <2> QED
    BY <2>1, <2>2, <2>3
<1>5. \A i, j \in 1 .. Len(queue) : queue[i] = queue[j] => i = j
  <2>1. \A i, j \in 1 .. Len(stack) : stack[i] = stack[j] => i = j
    BY DEF Indexed, CacheBounded, Positions
  <2>2. \A i \in 1 .. Len(stack) : stack[i] # post
    BY <1>3
  <2> QED
    BY <2>1, <2>2, <1>1, <1>2, SMT
<1>6. /\ IsFiniteSet(DOMAIN map \cup {post})
      /\ Cardinality(DOMAIN map \cup {post}) = Len(queue)
  <2>1. IsFiniteSet(DOMAIN map) /\ Cardinality(DOMAIN map) = Len(stack)
    BY DEF Indexed
  <2> QED
    BY <2>1, <1>1, FS_AddElement
<1> QED
  BY <1>1, <1>4, <1>5, <1>6

\* What addPayload stores, and the cache it leaves.
LEMMA AddPayloadEffect ==
  ASSUME CacheType, Indexed, NEW post \in Ids \ DOMAIN map, NEW k \in MessageKeys,
         AddPayload(post, k)
  PROVE  /\ CacheType'
         /\ Indexed'
         /\ \A x \in DOMAIN map' :
              \/ x = post /\ map'[x] = k
              \/ x \in DOMAIN map /\ map'[x] = map[x]
         /\ stack' = IF Len(stack) = MAX_SIZE THEN Tail(Append(stack, post))
                                              ELSE Append(stack, post)
<1> DEFINE entries == With(post, k)
           queue == Append(stack, post)
<1>1. /\ DOMAIN entries = DOMAIN map \cup {post}
      /\ \A x \in DOMAIN entries : entries[x] = IF x = post THEN k ELSE map[x]
  BY DEF With
<1>2. /\ queue \in Seq(Ids)
      /\ Len(queue) = Len(stack) + 1
      /\ {queue[i] : i \in 1 .. Len(queue)} = DOMAIN entries
      /\ \A i, j \in 1 .. Len(queue) : queue[i] = queue[j] => i = j
      /\ IsFiniteSet(DOMAIN entries)
      /\ Cardinality(DOMAIN entries) = Len(queue)
  <2>1. /\ queue \in Seq(Ids)
        /\ Len(queue) = Len(stack) + 1
        /\ {queue[i] : i \in 1 .. Len(queue)} = DOMAIN map \cup {post}
        /\ \A i, j \in 1 .. Len(queue) : queue[i] = queue[j] => i = j
        /\ IsFiniteSet(DOMAIN map \cup {post})
        /\ Cardinality(DOMAIN map \cup {post}) = Len(queue)
    BY QueueJoined
  <2> HIDE DEF queue, entries
  <2> QED
    BY <1>1, <2>1
<1>3. Len(stack) \in Nat /\ Len(stack) <= MAX_SIZE /\ MAX_SIZE \in Nat
  BY SizeAssumption DEF CacheType, Indexed, CacheBounded
<1>4. /\ Cardinality(DOMAIN entries) > MAX_SIZE =>
           map' = Without(entries, Head(queue)) /\ stack' = Tail(queue)
      /\ ~(Cardinality(DOMAIN entries) > MAX_SIZE) =>
           map' = entries /\ stack' = queue
  BY DEF AddPayload
<1>5. Cardinality(DOMAIN entries) > MAX_SIZE <=> Len(stack) = MAX_SIZE
  BY <1>2, <1>3, SMT
<1>6. \A x \in DOMAIN entries : entries[x] \in MessageKeys
  BY <1>1 DEF CacheType
<1>7. DOMAIN entries \subseteq Ids
  BY <1>1 DEF CacheType
<1>8. entries = [y \in DOMAIN entries |-> entries[y]]
  BY DEF With
<1> HIDE DEF entries, queue
<1>9. CASE Len(stack) = MAX_SIZE
  <2>1. map' = Without(entries, Head(queue)) /\ stack' = Tail(queue)
    BY <1>4, <1>5, <1>9
  <2>2. queue # <<>> /\ Head(queue) = queue[1] /\ 1 \in 1 .. Len(queue)
    BY <1>2, <1>3, SMT
  <2>3. Head(queue) \in DOMAIN entries
    BY <2>2, <1>2
  <2>4. /\ DOMAIN map' = DOMAIN entries \ {Head(queue)}
        /\ \A x \in DOMAIN map' : map'[x] = entries[x]
        /\ map' \in [DOMAIN map' -> MessageKeys]
    BY <2>1, <1>6 DEF Without
  <2>5. /\ stack' \in Seq(Ids)
        /\ Len(stack') = Len(queue) - 1
        /\ \A i \in 1 .. Len(stack') : stack'[i] = queue[i + 1]
    BY <2>1, <2>2, <1>2, HeadTailProperties
  <2>6. \A i \in 1 .. Len(stack') : i + 1 \in 1 .. Len(queue) /\ i + 1 # 1
    BY <2>5, <1>2, <1>3, SMT
  <2>7. {stack'[i] : i \in 1 .. Len(stack')} = DOMAIN map'
    <3>1. ASSUME NEW i \in 1 .. Len(stack') PROVE stack'[i] \in DOMAIN map'
      <4>1. queue[i + 1] \in DOMAIN entries
        BY <2>6, <1>2
      <4>2. queue[i + 1] # queue[1]
        BY <2>6, <2>2, <1>2
      <4> QED
        BY <4>1, <4>2, <2>2, <2>4, <2>5
    <3>2. ASSUME NEW x \in DOMAIN map' PROVE \E i \in 1 .. Len(stack') : stack'[i] = x
      <4>1. PICK i \in 1 .. Len(queue) : queue[i] = x
        BY <2>4, <1>2
      <4>2. i # 1
        BY <4>1, <2>2, <2>4
      <4>3. i - 1 \in 1 .. Len(stack') /\ (i - 1) + 1 = i
        BY <4>1, <4>2, <2>5, <1>2, <1>3, SMT
      <4>4. stack'[i - 1] = queue[(i - 1) + 1]
        BY <4>3, <2>5
      <4> QED
        BY <4>1, <4>3, <4>4
    <3> QED
      BY <3>1, <3>2
  <2>8. \A i, j \in 1 .. Len(stack') : stack'[i] = stack'[j] => i = j
    <3> SUFFICES ASSUME NEW i \in 1 .. Len(stack'), NEW j \in 1 .. Len(stack'),
                        stack'[i] = stack'[j]
                 PROVE  i = j
      OBVIOUS
    <3>1. queue[i + 1] = queue[j + 1]
      BY <2>5
    <3>2. i + 1 = j + 1
      BY <3>1, <2>6, <1>2
    <3> QED
      BY <3>2
  <2>9. /\ IsFiniteSet(DOMAIN map')
        /\ Cardinality(DOMAIN map') = Len(stack')
    <3>1. /\ IsFiniteSet(DOMAIN entries \ {Head(queue)})
          /\ Cardinality(DOMAIN entries \ {Head(queue)}) = Cardinality(DOMAIN entries) - 1
      BY <2>3, <1>2, FS_RemoveElement
    <3> QED
      BY <3>1, <2>4, <2>5, <1>2
  <2>10. Cardinality(DOMAIN map') <= MAX_SIZE
    BY <2>9, <2>5, <1>2, <1>3, <1>9, SMT
  <2>11. CacheType' /\ Indexed'
    <3>1. DOMAIN map' \subseteq Ids
      BY <2>4, <1>7
    <3> QED
      BY <3>1, <2>4, <2>5, <2>7, <2>8, <2>9, <2>10
      DEF CacheType, Indexed, CacheBounded, Positions
  <2> QED
    BY <1>1, <1>9, <2>1, <2>4, <2>11 DEF entries, queue
<1>10. CASE Len(stack) # MAX_SIZE
  <2>1. map' = entries /\ stack' = queue
    BY <1>4, <1>5, <1>10
  <2>2. map' \in [DOMAIN map' -> MessageKeys]
    BY <2>1, <1>6, <1>8
  <2>3. Cardinality(DOMAIN map') <= MAX_SIZE
    BY <2>1, <1>2, <1>3, <1>10, SMT
  <2>4. CacheType' /\ Indexed'
    BY <2>1, <2>2, <2>3, <1>2, <1>7 DEF CacheType, Indexed, CacheBounded, Positions
  <2> QED
    BY <1>1, <1>10, <2>1, <2>4 DEF entries, queue
<1> QED
  BY <1>9, <1>10

\* A queue that holds the last posts read holds them after the next one.
LEMMA LastOfAppend ==
  ASSUME NEW posts \in Seq(Ids), NEW post \in Ids
  PROVE  Last(Append(posts, post)) =
           IF Len(Last(posts)) = MAX_SIZE THEN Tail(Append(Last(posts), post))
                                          ELSE Append(Last(posts), post)
<1> DEFINE n == Len(posts)
           longer == Append(posts, post)
           before == Last(posts)
           after == Append(before, post)
           from == IF n > MAX_SIZE THEN n - MAX_SIZE + 1 ELSE 1
           next == IF n + 1 > MAX_SIZE THEN n + 1 - MAX_SIZE + 1 ELSE 1
<1>1. /\ n \in Nat /\ MAX_SIZE \in Nat /\ MAX_SIZE > 0
      /\ longer \in Seq(Ids) /\ Len(longer) = n + 1
      /\ \A i \in 1 .. n + 1 : longer[i] = IF i = n + 1 THEN post ELSE posts[i]
  BY SizeAssumption, SMT
<1>2. from \in 1 .. n + 1 /\ next \in 1 .. n + 1 /\ next \in {from, from + 1}
  BY <1>1, SMT
<1>3. /\ before = SubSeq(posts, from, n)
      /\ Last(longer) = SubSeq(longer, next, n + 1)
  BY <1>1 DEF Last
<1> HIDE DEF n, longer, before, after, from, next
<1>4. \A i \in from .. n : posts[i] \in Ids
  BY <1>1, <1>2, ElementOfSeq, SMT DEF n
<1>5. /\ before \in Seq(Ids)
      /\ Len(before) = n - from + 1
      /\ \A i \in 1 .. n - from + 1 : before[i] = posts[from + i - 1]
  BY <1>1, <1>2, <1>3, <1>4, SubSeqProperties, SMT
<1>6. /\ after \in Seq(Ids)
      /\ Len(after) = n - from + 2
      /\ \A i \in 1 .. n - from + 2 :
           after[i] = IF i = n - from + 2 THEN post ELSE before[i]
  <2>1. n - from + 1 \in Nat /\ (n - from + 1) + 1 = n - from + 2
    BY <1>1, <1>2, SMT
  <2>2. /\ after \in Seq(Ids)
        /\ Len(after) = Len(before) + 1
        /\ \A i \in 1 .. Len(before) + 1 :
             after[i] = IF i = Len(before) + 1 THEN post ELSE before[i]
    BY <1>5, <2>1, SMT DEF after
  <2> QED
    BY <2>1, <2>2, <1>5
<1>7. ASSUME NEW i \in 1 .. n - from + 2 PROVE after[i] = longer[from + i - 1]
  <2>1. from + i - 1 \in 1 .. n + 1 /\ (from + i - 1 = n + 1 <=> i = n - from + 2)
    BY <1>1, <1>2, SMT
  <2>2. CASE i = n - from + 2
    BY <2>1, <2>2, <1>1, <1>6
  <2>3. CASE i # n - from + 2
    <3>1. i \in 1 .. n - from + 1
      BY <2>3, <1>1, <1>2, SMT
    <3> QED
      BY <3>1, <2>1, <2>3, <1>1, <1>5, <1>6
  <2> QED
    BY <2>2, <2>3
<1>8. \A i \in next .. n + 1 : longer[i] \in Ids
  BY <1>1, <1>2, ElementOfSeq, SMT
<1>9. /\ Last(longer) \in Seq(Ids)
      /\ Len(Last(longer)) = n + 1 - next + 1
      /\ \A i \in 1 .. n + 1 - next + 1 : Last(longer)[i] = longer[next + i - 1]
  BY <1>1, <1>2, <1>3, <1>8, SubSeqProperties, SMT
<1>10. CASE Len(before) = MAX_SIZE
  <2>1. next = from + 1
    BY <1>10, <1>1, <1>2, <1>5, SMT DEF from, next
  <2>2. after # <<>>
    BY <1>6, <1>1, <1>2, SMT
  <2>3. /\ Tail(after) \in Seq(Ids)
        /\ Len(Tail(after)) = n - from + 1
        /\ \A i \in 1 .. n - from + 1 : Tail(after)[i] = after[i + 1]
    BY <2>2, <1>6, <1>1, <1>2, HeadTailProperties, SMT
  <2>4. ASSUME NEW i \in 1 .. n - from + 1 PROVE Tail(after)[i] = longer[from + i]
    <3>1. i + 1 \in 1 .. n - from + 2 /\ from + (i + 1) - 1 = from + i
      BY <1>1, <1>2, SMT
    <3> QED
      BY <3>1, <2>3, <1>7
  <2>5. Len(Last(longer)) = Len(Tail(after))
    BY <2>1, <2>3, <1>9, <1>1, <1>2, SMT
  <2>6. ASSUME NEW i \in 1 .. Len(Last(longer))
        PROVE  Last(longer)[i] = Tail(after)[i]
    <3>1. i \in 1 .. n - from + 1 /\ i \in 1 .. n + 1 - next + 1
      BY <2>1, <2>3, <2>5, <1>9
    <3>2. next + i - 1 = from + i
      BY <2>1, <3>1, <1>2, <1>1, SMT
    <3> QED
      BY <2>4, <3>1, <3>2, <1>9
  <2>7. Last(longer) = Tail(after)
    BY <2>3, <2>5, <2>6, <1>9, SeqEqual
  <2> QED
    BY <2>7, <1>10 DEF before, after, longer
<1>11. CASE Len(before) # MAX_SIZE
  <2>1. next = from
    BY <1>11, <1>1, <1>2, <1>5, SMT DEF from, next
  <2>2. Len(Last(longer)) = Len(after)
    BY <2>1, <1>6, <1>9, <1>1, <1>2, SMT
  <2>3. \A i \in 1 .. Len(Last(longer)) : Last(longer)[i] = after[i]
    BY <2>1, <1>7, <1>9, <1>1, <1>2, SMT
  <2>4. Last(longer) = after
    BY <2>2, <2>3, <1>6, <1>9, SeqEqual
  <2> QED
    BY <2>4, <1>11 DEF before, after, longer
<1> QED
  BY <1>10, <1>11

-----------------------------------------------------------------------------
(* The invariant, and what follows from it.                                 *)

DialogueType ==
  /\ pc \in States
  /\ mess \in Messages
  /\ box \in Nat \ {0}
  /\ key \in MessageKeys
  /\ cached \in BOOLEAN /\ lost \in BOOLEAN
  /\ reply \in Replies
  /\ opened \in Seq(Ids)

LEMMA TypeParts == ReaderTypeOK <=> CacheType /\ DialogueType
BY DEF ReaderTypeOK, CacheType, DialogueType

\* A fresh cache.
LEMMA EmptyCacheInv ==
  /\ EmptyCache => CacheType /\ Indexed
  /\ map' = NoEntries /\ stack' = <<>> => CacheType' /\ Indexed'
<1>1. /\ DOMAIN NoEntries = {}
      /\ NoEntries \in [DOMAIN NoEntries -> MessageKeys]
  BY DEF NoEntries
<1>2. <<>> \in Seq(Ids) /\ Len(<<>>) = 0 /\ 1 .. Len(<<>>) = {}
  BY EmptySeq, SMT
<1>3. IsFiniteSet({}) /\ Cardinality({}) = 0 /\ 0 <= MAX_SIZE
  BY FS_EmptySet, SizeAssumption
<1>4. ASSUME NEW m, NEW s, m = NoEntries, s = <<>>
      PROVE  /\ DOMAIN m = {} /\ m \in [DOMAIN m -> MessageKeys] /\ s \in Seq(Ids)
             /\ Cardinality(DOMAIN m) = 0 /\ IsFiniteSet(DOMAIN m)
             /\ 1 .. Len(s) = {} /\ Len(s) = 0
  BY <1>1, <1>2, <1>3, <1>4
<1>5. EmptyCache => CacheType /\ Indexed
  <2>1. CASE EmptyCache
    <3>1. /\ DOMAIN map = {} /\ map \in [DOMAIN map -> MessageKeys] /\ stack \in Seq(Ids)
          /\ Cardinality(DOMAIN map) = 0 /\ IsFiniteSet(DOMAIN map)
          /\ 1 .. Len(stack) = {} /\ Len(stack) = 0
      BY <1>4, <2>1 DEF EmptyCache
    <3> QED
      BY <3>1, <1>3 DEF CacheType, Indexed, CacheBounded, Positions
  <2> QED
    BY <2>1
<1>6. map' = NoEntries /\ stack' = <<>> => CacheType' /\ Indexed'
  <2>1. CASE map' = NoEntries /\ stack' = <<>>
    <3>1. /\ DOMAIN map' = {} /\ map' \in [DOMAIN map' -> MessageKeys] /\ stack' \in Seq(Ids)
          /\ Cardinality(DOMAIN map') = 0 /\ IsFiniteSet(DOMAIN map')
          /\ 1 .. Len(stack') = {} /\ Len(stack') = 0
      BY <1>4, <2>1
    <3> QED
      BY <3>1, <1>3 DEF CacheType, Indexed, CacheBounded, Positions
  <2> QED
    BY <2>1
<1> QED
  BY <1>5, <1>6

\* Nothing read yet: nothing to keep.
LEMMA LastOfNothing == Last(<<>>) = <<>> /\ <<>> \in Seq(Ids)
<1>1. Last(<<>>) = SubSeq(<<>>, 1, 0)
  BY SizeAssumption, EmptySeq, SMT DEF Last
<1> QED
  BY <1>1, SubSeqEmpty, EmptySeq, SMT

LEMMA InitInv == Init => Inv
<1> SUFFICES ASSUME Init PROVE Inv
  OBVIOUS
<1> USE DEF Init
<1>1. CacheType /\ Indexed
  BY EmptyCacheInv
<1>2. DialogueType
  <2>1. 1 \in Nat \ {0} /\ opened \in Seq(Ids) /\ "waiting" \in States /\ NoReply \in Replies
    BY LastOfNothing, SMT DEF States, Replies
  <2> QED
    BY <2>1 DEF DialogueType
<1>3. Opening
  BY DEF Opening
<1>4. OwnKeys
  BY DEF OwnKeys, EmptyCache, NoEntries
<1>5. LastKept
  BY LastOfNothing DEF LastKept, EmptyCache
<1> QED
  BY <1>1, <1>2, <1>3, <1>4, <1>5, TypeParts DEF Inv

\* A step that leaves the cache and the posts read alone, and does not bring
\* an ended thread back, keeps what is said of them.
LEMMA CacheKept ==
  ASSUME CacheType, Indexed, OwnKeys, LastKept,
         UNCHANGED <<cacheVars, opened>>, pc = "ended" => pc' = "ended"
  PROVE  CacheType' /\ Indexed' /\ OwnKeys' /\ LastKept'
<1>1. map' = map /\ stack' = stack /\ opened' = opened
  BY DEF cacheVars
<1>2. CacheType' /\ Indexed'
  BY <1>1 DEF CacheType, Indexed, CacheBounded, Positions
<1>3. OwnKeys'
  BY <1>1 DEF OwnKeys
<1>4. LastKept'
  BY <1>1 DEF LastKept
<1> QED
  BY <1>2, <1>3, <1>4

\* The lookup finds a key of the cache, or a post the cache lacks.
LEMMA LookUpInv ==
  ASSUME CacheType, DialogueType, UNCHANGED <<map, lost, opened>>, mess' \in Messages,
         reply' \in Replies, LookUp(mess'.post)
  PROVE  DialogueType' /\ Opening'
<1>1. mess'.post \in DOMAIN map => map[mess'.post] \in MessageKeys
  BY DEF CacheType
<1>2. /\ pc' \in States /\ box' \in Nat \ {0} /\ cached' \in BOOLEAN
      /\ key' \in MessageKeys
  BY <1>1 DEF LookUp, InCache, States, DialogueType
<1>3. DialogueType'
  BY <1>2 DEF DialogueType
<1>4. Opening'
  BY DEF LookUp, InCache, Opening
<1> QED
  BY <1>3, <1>4

\* An answered text is of the post whose key was stored.
LEMMA DecipherInv ==
  ASSUME Inv, Decipher
  PROVE  Inv'
<1> DEFINE post == mess.post
<1> USE DEF Decipher
<1>1. CacheType /\ DialogueType /\ Indexed /\ Opening /\ OwnKeys /\ LastKept
  BY TypeParts DEF Inv
<1>2. post \in Ids \ DOMAIN map /\ key \in MessageKeys
  BY <1>1 DEF Opening, DialogueType, Messages
<1>3. AddPayload(post, key)
  OBVIOUS
<1>4. /\ CacheType'
      /\ Indexed'
      /\ \A x \in DOMAIN map' :
           \/ x = post /\ map'[x] = key
           \/ x \in DOMAIN map /\ map'[x] = map[x]
      /\ stack' = IF Len(stack) = MAX_SIZE THEN Tail(Append(stack, post))
                                           ELSE Append(stack, post)
  BY <1>1, <1>2, <1>3, AddPayloadEffect
<1>5. CASE key = KeyOf[mess.post]
  <2>1. /\ pc' = "waiting" /\ reply' = Text(post) /\ opened' = Append(opened, post)
        /\ UNCHANGED <<mess, box, key, cached, lost>>
    BY <1>5
  <2>2. DialogueType'
    <3>1. opened' \in Seq(Ids)
      BY <2>1, <1>1, <1>2 DEF DialogueType
    <3>2. reply' \in Replies
      BY <2>1, <1>2 DEF Replies
    <3> QED
      BY <2>1, <3>1, <3>2, <1>1 DEF DialogueType, States
  <2>3. Opening'
    BY <2>1 DEF Opening
  <2>4. OwnKeys'
    BY <1>1, <1>4, <1>5, <2>1 DEF OwnKeys
  <2>5. LastKept'
    <3>1. opened \in Seq(Ids) /\ stack = Last(opened)
      BY <1>1 DEF DialogueType, LastKept
    <3>2. Last(Append(opened, post)) =
            IF Len(Last(opened)) = MAX_SIZE THEN Tail(Append(Last(opened), post))
                                            ELSE Append(Last(opened), post)
      BY <3>1, <1>2, LastOfAppend
    <3>3. stack' = Last(opened')
      BY <3>1, <3>2, <2>1, <1>4
    <3> QED
      BY <3>3 DEF LastKept, Last
  <2> QED
    BY <1>4, <2>2, <2>3, <2>4, <2>5, TypeParts, PTL DEF Inv
<1>6. CASE key # KeyOf[mess.post]
  <2>1. pc' = "ended" /\ UNCHANGED <<mess, box, key, cached, lost, reply, opened>>
    BY <1>6
  <2>2. DialogueType'
    BY <2>1, <1>1 DEF DialogueType, States
  <2>3. Opening' /\ OwnKeys' /\ LastKept'
    BY <2>1 DEF Opening, OwnKeys, LastKept
  <2> QED
    BY <1>4, <2>2, <2>3, TypeParts, PTL DEF Inv
<1> QED
  BY <1>5, <1>6

LEMMA NextInv == Inv /\ [Next]_readerVars => Inv'
<1> SUFFICES ASSUME Inv, [Next]_readerVars PROVE Inv'
  OBVIOUS
<1>1. CacheType /\ DialogueType /\ Indexed /\ Opening /\ OwnKeys /\ LastKept
  BY TypeParts DEF Inv
<1>2. ReaderTypeOK' <=> CacheType' /\ DialogueType'
  BY TypeParts, PTL
\* Steps that leave the cache alone: it remains to type the dialogue.
<1> DEFINE Quiet ==
      /\ UNCHANGED <<cacheVars, opened>>
      /\ pc = "ended" => pc' = "ended"
      /\ DialogueType'
      /\ Opening'
<1>3. ASSUME Quiet PROVE Inv'
  <2>1. CacheType' /\ Indexed' /\ OwnKeys' /\ LastKept'
    BY <1>1, <1>3, CacheKept
  <2> QED
    BY <2>1, <1>2, <1>3 DEF Inv
<1>4. ASSUME NEW m \in Messages, Decrypt(m) PROVE Inv'
  <2>1. NoReply \in Replies
    BY DEF Replies
  <2>2. CASE m.post \in Anonymous
    <3>1. LookUp(mess'.post) /\ mess' \in Messages /\ reply' \in Replies
      BY <1>4, <2>1, <2>2 DEF Decrypt
    <3>2. DialogueType' /\ Opening'
      BY <3>1, <1>1, <1>4, LookUpInv DEF Decrypt, cacheVars
    <3> QED
      BY <3>2, <1>3, <1>4 DEF Decrypt
  <2>3. CASE m.post \notin Anonymous
    <3>1. DialogueType' /\ Opening'
      BY <1>1, <1>4, <2>1, <2>3 DEF Decrypt, DialogueType, Opening, States
    <3> QED
      BY <3>1, <1>3, <1>4 DEF Decrypt
  <2> QED
    BY <2>2, <2>3
<1>5. CASE Named
  <2>1. DialogueType' /\ Opening'
    <3>1. LookUp(mess'.post) /\ mess' \in Messages /\ reply' \in Replies
      BY <1>1, <1>5 DEF Named, DialogueType
    <3> QED
      BY <3>1, <1>1, <1>5, LookUpInv DEF Named, cacheVars
  <2> QED
    BY <2>1, <1>3, <1>5 DEF Named
<1>6. CASE NotNamed
  <2>1. DialogueType' /\ Opening'
    BY <1>1, <1>6 DEF NotNamed, DialogueType, Opening, States
  <2> QED
    BY <2>1, <1>3, <1>6 DEF NotNamed
<1>7. ASSUME NEW k \in MessageKeys, OpenBox(k) PROVE Inv'
  <2>1. DialogueType' /\ Opening'
    BY <1>1, <1>7 DEF OpenBox, DialogueType, Opening, States, cacheVars
  <2> QED
    BY <2>1, <1>3, <1>7 DEF OpenBox
<1>8. CASE SkipBox
  <2>1. DialogueType' /\ Opening'
    BY <1>1, <1>8 DEF SkipBox, DialogueType, Opening, States, cacheVars
  <2> QED
    BY <2>1, <1>3, <1>8 DEF SkipBox
<1>9. CASE NoBoxOpened
  <2>1. DialogueType' /\ Opening'
    BY <1>1, <1>9 DEF NoBoxOpened, DialogueType, Opening, States, Replies
  <2> QED
    BY <2>1, <1>3, <1>9 DEF NoBoxOpened
<1>10. CASE DecipherNothing
  <2>1. DialogueType' /\ Opening'
    BY <1>1, <1>10 DEF DecipherNothing, DialogueType, Opening, States
  <2> QED
    BY <2>1, <1>3, <1>10 DEF DecipherNothing
<1>11. CASE DecipherCut
  <2>1. DialogueType' /\ Opening'
    BY <1>1, <1>11 DEF DecipherCut, DialogueType, Opening, States, Replies
  <2> QED
    BY <2>1, <1>3, <1>11 DEF DecipherCut
<1>12. CASE DecipherNoComment
  <2>1. DialogueType' /\ Opening'
    BY <1>1, <1>12 DEF DecipherNoComment, DialogueType, Opening, States
  <2> QED
    BY <2>1, <1>3, <1>12 DEF DecipherNoComment
<1>13. CASE Decipher
  BY <1>13, DecipherInv
<1>14. ASSUME NEW post \in Ids, NEW empty \in BOOLEAN, EncryptCom(post, empty) PROVE Inv'
  <2>1. post \in DOMAIN map => Comment(post, map[post]) \in Replies
    BY <1>1 DEF CacheType, Replies
  <2>2. reply' \in Replies
    BY <2>1, <1>14 DEF EncryptCom, InCache, Replies
  <2>3. DialogueType' /\ Opening'
    BY <2>2, <1>1, <1>14 DEF EncryptCom, DialogueType, Opening, States
  <2> QED
    BY <2>3, <1>3, <1>14 DEF EncryptCom
<1>15. CASE Unknown
  <2>1. DialogueType' /\ Opening'
    BY <1>1, <1>15 DEF Unknown, DialogueType, Opening, States, Replies
  <2> QED
    BY <2>1, <1>3, <1>15 DEF Unknown
<1>16. CASE Incomplete
  <2>1. DialogueType' /\ Opening'
    BY <1>1, <1>16 DEF Incomplete, DialogueType, Opening, States, Replies
  <2> QED
    BY <2>1, <1>3, <1>16 DEF Incomplete
<1>17. CASE Lose
  <2>1. DialogueType' /\ Opening'
    BY <1>1, <1>17 DEF Lose, DialogueType, Opening, States
  <2> QED
    BY <2>1, <1>3, <1>17 DEF Lose
<1>18. CASE Quit
  <2>1. DialogueType' /\ Opening'
    BY <1>1, <1>18 DEF Quit, DialogueType, Opening, States
  <2> QED
    BY <2>1, <1>3, <1>18 DEF Quit
<1>19. CASE Close
  <2>1. DialogueType' /\ Opening'
    BY <1>1, <1>19 DEF Close, DialogueType, Opening, States
  <2> QED
    BY <2>1, <1>3, <1>19 DEF Close
<1>20. CASE Connect
  <2>1. CacheType' /\ Indexed'
    BY <1>20, EmptyCacheInv DEF Connect
  <2>2. DialogueType'
    <3>1. 1 \in Nat \ {0} /\ opened' \in Seq(Ids) /\ "waiting" \in States /\ NoReply \in Replies
      BY <1>20, LastOfNothing, SMT DEF Connect, States, Replies
    <3> QED
      BY <3>1, <1>1, <1>20 DEF Connect, DialogueType
  <2>3. Opening'
    BY <1>20 DEF Connect, Opening
  <2>4. OwnKeys'
    BY <1>20 DEF Connect, OwnKeys, NoEntries
  <2>5. LastKept'
    <3>1. stack' = Last(opened')
      BY <1>20, LastOfNothing DEF Connect
    <3> QED
      BY <3>1 DEF LastKept, Last
  <2> QED
    BY <1>2, <2>1, <2>2, <2>3, <2>4, <2>5 DEF Inv
<1>21. CASE UNCHANGED readerVars
  <2>1. DialogueType' /\ Opening'
    BY <1>1, <1>21 DEF readerVars, dialogueVars, cacheVars, DialogueType, Opening
  <2> QED
    BY <2>1, <1>3, <1>21 DEF readerVars, dialogueVars
<1> QED
  BY <1>4, <1>5, <1>6, <1>7, <1>8, <1>9, <1>10, <1>11, <1>12, <1>13, <1>14, <1>15,
     <1>16, <1>17, <1>18, <1>19, <1>20, <1>21 DEF Next

LEMMA InvHolds == Spec => []Inv
BY InitInv, NextInv, PTL DEF Spec

\* The type of the reader's state.
THEOREM ReaderTypeCorrect == Spec => []ReaderTypeOK
<1>1. Inv => ReaderTypeOK
  BY DEF Inv
<1> QED
  BY <1>1, InvHolds, PTL

\* CacheManager never keeps more than MAX_SIZE keys and its queue is never out
\* of step with its map, because requestDecrypt does not store what it found.
THEOREM CacheStaysBounded == Spec => []CacheBounded
<1>1. Inv => CacheBounded
  BY DEF Inv, Indexed
<1> QED
  BY <1>1, InvHolds, PTL

\* Between two messages the cache has the posts read last.
THEOREM LastPostsAreKept == Spec => []LastPostsKept
<1>1. Inv => LastPostsKept
  BY DEF Inv, LastKept, LastPostsKept, Last
<1> QED
  BY <1>1, InvHolds, PTL

\* A comment is always ciphered with the key of its post, although a wrong
\* key can be stored.
THEOREM CommentsAreReadable == Spec => []CommentsReadable
<1>1. Inv => CommentsReadable
  BY DEF Inv, OwnKeys, CommentsReadable
<1> QED
  BY <1>1, InvHolds, PTL
=============================================================================
