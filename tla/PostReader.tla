------------------------------ MODULE PostReader ------------------------------
(***************************************************************************)
(* What a thread of FaceCrypt does with the posts of friends: the loop of  *)
(* ProcessusSockSSL for the actions "decrypt", "encryptCom" and "quit" of  *)
(* the browser extension, and Client's requestDecrypt and                  *)
(* requestEncryptCom.                                                      *)
(*                                                                         *)
(* A post is a list of boxes, each its message key ciphered for one of the *)
(* readers, and the text ciphered with that key.  The card opens the boxes *)
(* that are the user's; its answer is an error of one byte for the others, *)
(* and for every box when the PIN is not given or the card is out.  An     *)
(* exception the thread does not catch ends it, and its browser gets no    *)
(* reply.                                                                  *)
(***************************************************************************)
EXTENDS CacheManager

CONSTANTS Boxes,      \* the boxes of each post: TRUE for the user's
          Anonymous,  \* the posts whose boxes do not name their reader
          KeyOf,      \* the message key of each post
          MaxOpened,  \* bound: the posts opened by one thread
          NoReply, NotConcerned, Impossible  \* no reply; the two refusals

ASSUME PostAssumption ==
  /\ Boxes \in [Ids -> Seq(BOOLEAN)]
  /\ Anonymous \subseteq Ids
  /\ KeyOf \in [Ids -> MessageKeys]
  /\ MaxOpened \in Nat

VARIABLES
  pc,      \* where the thread is
  mess,    \* the message in hand
  box,     \* the next box to try
  key,     \* the key found, in the cache or in a box
  cached,  \* requestDecrypt's bool: the key was in the cache
  reply,   \* the last reply to the browser
  lost,    \* the thread ended with its connection
  opened   \* for the properties: the posts whose text was sent, oldest first

dialogueVars == <<pc, mess, box, key, cached, reply, lost, opened>>
readerVars == <<cacheVars, dialogueVars>>

\* A message "decrypt": its post, whether the text is whole (the length of
\* what was ciphered) and whether its comments have something to decode.
Messages == [post : Ids, whole : BOOLEAN, readable : BOOLEAN]

Text(post) == [text |-> post]
Comment(post, k) == [comment |-> post, under |-> k]

\* splitMess: only the boxes of a post that name its readers are sorted out.
Tried(post) ==
  IF post \in Anonymous THEN Boxes[post]
  ELSE SelectSeq(Boxes[post], LAMBDA mine : mine)

\* A fresh thread, its cache empty.  The rest has no value yet.
Init ==
  /\ EmptyCache
  /\ pc = "waiting" /\ reply = NoReply /\ cached = FALSE /\ lost = FALSE
  /\ opened = <<>> /\ box = 1
  /\ mess \in Messages /\ key \in MessageKeys

\* The start of requestDecrypt: the cache is asked before any box is.
LookUp(post) ==
  /\ box' = 1 /\ cached' = InCache(post)
  /\ IF InCache(post) THEN pc' = "deciphering" /\ key' = map[post]
     ELSE pc' = "trying" /\ UNCHANGED key

\* A message "decrypt": a post that names its readers needs the user's name,
\* which is on the card.
Decrypt(m) ==
  /\ pc = "waiting" /\ Len(opened) < MaxOpened
  /\ mess' = m /\ reply' = NoReply
  /\ IF m.post \in Anonymous THEN LookUp(m.post)
     ELSE pc' = "naming" /\ UNCHANGED <<box, key, cached>>
  /\ UNCHANGED <<cacheVars, lost, opened>>

Named ==
  /\ pc = "naming"
  /\ LookUp(mess.post)
  /\ UNCHANGED <<cacheVars, mess, reply, lost, opened>>

\* An error of one byte has nothing after the separator splitTab looks for:
\* it makes an array of negative length.
NotNamed ==
  /\ pc = "naming"
  /\ pc' = "ended"
  /\ UNCHANGED <<cacheVars, mess, box, key, cached, reply, lost, opened>>

\* A box is opened.  The key is another one when the read of the answer is
\* short: receiveMessage does not look at what read returns.
OpenBox(k) ==
  /\ pc = "trying" /\ box <= Len(Tried(mess.post))
  /\ Tried(mess.post)[box]
  /\ key' = k /\ pc' = "deciphering"
  /\ UNCHANGED <<cacheVars, mess, box, cached, reply, lost, opened>>

\* A box is not the user's, or the card did not answer for it.
SkipBox ==
  /\ pc = "trying" /\ box <= Len(Tried(mess.post))
  /\ box' = box + 1
  /\ UNCHANGED <<cacheVars, pc, mess, key, cached, reply, lost, opened>>

NoBoxOpened ==
  /\ pc = "trying" /\ box > Len(Tried(mess.post))
  /\ pc' = "waiting" /\ reply' = NotConcerned
  /\ UNCHANGED <<cacheVars, mess, box, key, cached, lost, opened>>

\* requestDecrypt only takes the text out of the message when it had to find
\* the key: with a key of the cache decrypt is given null, and throws.
DecipherNothing ==
  /\ pc = "deciphering" /\ cached
  /\ pc' = "ended"
  /\ UNCHANGED <<cacheVars, mess, box, key, cached, reply, lost, opened>>

\* A text that is no number of blocks is refused whatever the key.
DecipherCut ==
  /\ pc = "deciphering" /\ ~cached /\ ~mess.whole
  /\ pc' = "waiting" /\ reply' = NotConcerned
  /\ UNCHANGED <<cacheVars, mess, box, key, cached, lost, opened>>

\* A comment without one character of Base64 decodes to no byte, and decrypt
\* throws before the key is stored.
DecipherNoComment ==
  /\ pc = "deciphering" /\ ~cached /\ mess.whole /\ ~mess.readable
  /\ pc' = "ended"
  /\ UNCHANGED <<cacheVars, mess, box, key, cached, reply, lost, opened>>

\* Mutant: a text with bad padding is answered like one cut short.
DecipherForgives ==
  /\ pc = "deciphering" /\ ~cached /\ mess.whole /\ mess.readable
  /\ AddPayload(mess.post, key)
  /\ pc' = "waiting"
  /\ IF key = KeyOf[mess.post]
       THEN reply' = Text(mess.post) /\ opened' = Append(opened, mess.post)
       ELSE reply' = NotConcerned /\ UNCHANGED opened
  /\ UNCHANGED <<mess, box, key, cached, lost>>

\* The key is stored, then the text sent.  A wrong key is stored too: the
\* bad padding only leaves the text null, which ends the thread.
Decipher ==
  /\ pc = "deciphering" /\ ~cached /\ mess.whole /\ mess.readable
  /\ AddPayload(mess.post, key)
  /\ IF key = KeyOf[mess.post]
       THEN /\ pc' = "waiting" /\ reply' = Text(mess.post)
            /\ opened' = Append(opened, mess.post)
       ELSE pc' = "ended" /\ UNCHANGED <<reply, opened>>
  /\ UNCHANGED <<mess, box, key, cached, lost>>

\* A message "encryptCom"; encrypt throws on an empty comment.
EncryptCom(post, empty) ==
  /\ pc = "waiting"
  /\ IF InCache(post) /\ empty THEN pc' = "ended" /\ reply' = NoReply
     ELSE /\ reply' = IF InCache(post) THEN Comment(post, map[post]) ELSE Impossible
          /\ UNCHANGED pc
  /\ UNCHANGED <<cacheVars, mess, box, key, cached, lost, opened>>

\* A message without "action", or with one that doAction does not know.
Unknown ==
  /\ pc = "waiting"
  /\ reply' = NoReply
  /\ UNCHANGED <<cacheVars, pc, mess, box, key, cached, lost, opened>>

\* A line that is no JSON is a null object; a "decrypt" or an "encryptCom"
\* that lacks a field leaves null what the next call uses.
Incomplete ==
  /\ pc = "waiting"
  /\ pc' = "ended" /\ reply' = NoReply
  /\ UNCHANGED <<cacheVars, mess, box, key, cached, lost, opened>>

\* The connection to SoftCardServer breaks: the answer is null.
Lose ==
  /\ pc \in {"naming", "trying"}
  /\ pc = "naming" \/ box <= Len(Tried(mess.post))
  /\ pc' = "ended" /\ lost' = TRUE
  /\ UNCHANGED <<cacheVars, mess, box, key, cached, reply, opened>>

\* A message "quit", or a browser connection that breaks during a read.
Quit ==
  /\ pc = "waiting"
  /\ pc' = "ended" /\ lost' = TRUE
  /\ UNCHANGED <<cacheVars, mess, box, key, cached, reply, opened>>

\* The browser closes its connection: every readLine returns null from now
\* on, which receiveMessages makes a message that doAction does not know.
Close ==
  /\ pc = "waiting"
  /\ pc' = "spinning"
  /\ UNCHANGED <<cacheVars, mess, box, key, cached, reply, lost, opened>>

\* The next connection has a thread and a cache of its own.
Connect ==
  /\ pc \in {"ended", "spinning"}
  /\ map' = NoEntries /\ stack' = <<>>
  /\ pc' = "waiting" /\ reply' = NoReply /\ cached' = FALSE /\ lost' = FALSE
  /\ opened' = <<>> /\ box' = 1
  /\ UNCHANGED <<mess, key>>

Next ==
  \/ \E m \in Messages : Decrypt(m)
  \/ Named \/ NotNamed
  \/ \E k \in MessageKeys : OpenBox(k)
  \/ SkipBox \/ NoBoxOpened
  \/ DecipherNothing \/ DecipherCut \/ DecipherNoComment \/ Decipher
  \/ \E post \in Ids, empty \in BOOLEAN : EncryptCom(post, empty)
  \/ Unknown \/ Incomplete \/ Lose \/ Quit \/ Close \/ Connect

Spec == Init /\ [][Next]_readerVars
-----------------------------------------------------------------------------
Replies ==
  {NoReply, NotConcerned, Impossible} \cup {Text(post) : post \in Ids}
  \cup {Comment(post, k) : post \in Ids, k \in MessageKeys}

States == {"waiting", "naming", "trying", "deciphering", "ended", "spinning"}

\* The type of the reader's state: keys by post, a queue of posts, one of the
\* replies requestDecrypt and requestEncryptCom can build.
ReaderTypeOK ==
  /\ DOMAIN map \subseteq Ids
  /\ map \in [DOMAIN map -> MessageKeys]
  /\ stack \in Seq(Ids)
  /\ pc \in States
  /\ mess \in Messages
  /\ box \in Nat \ {0}
  /\ key \in MessageKeys
  /\ cached \in BOOLEAN /\ lost \in BOOLEAN
  /\ reply \in Replies
  /\ opened \in Seq(Ids)

Positions == 1 .. Len(stack)

\* CacheManager keeps at most MAX_SIZE keys, and its queue names exactly the
\* posts it keeps, each once.  The class does not see to it: a post stored
\* twice would be queued twice, and its key would leave with the first copy.
\* It holds because requestDecrypt stores a key only when the cache lacked it.
CacheBounded ==
  /\ Cardinality(DOMAIN map) <= MAX_SIZE
  /\ {stack[i] : i \in Positions} = DOMAIN map
  /\ \A i, j \in Positions : stack[i] = stack[j] => i = j

\* A user can comment on the last MAX_SIZE posts that were read, and on no
\* other: between two messages, the posts of the cache are those whose text
\* was sent last, and the oldest of them is the next to leave.
LastPostsKept ==
  LET n == Len(opened)
  IN pc = "waiting" =>
       stack = SubSeq(opened, IF n > MAX_SIZE THEN n - MAX_SIZE + 1 ELSE 1, n)

\* A comment is ciphered with its post's own key, which its readers have.
\* requestDecrypt stores a key before it knows whether the text came out: a
\* wrong one must not outlive the message that brought it.
CommentsReadable ==
  pc = "waiting" => \A post \in DOMAIN map : map[post] = KeyOf[post]
=============================================================================
