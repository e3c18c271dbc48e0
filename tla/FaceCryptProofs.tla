--------------------------- MODULE FaceCryptProofs ---------------------------
(***************************************************************************)
(* What FaceCrypt does for the account and the posts, for any number of    *)
(* friends, lists, requests, passwords and failures.                       *)
(*                                                                         *)
(* The account: while nothing has failed, the last validation of the inbox *)
(* will put the account's password in force, or find nothing to validate,  *)
(* which shows.  The posts: the keys found so far are those of the names   *)
(* found, in the same places.                                              *)
(***************************************************************************)
EXTENDS FaceCrypt, FiniteSetTheorems, SequenceTheorems, TLAPS

Logins == {Me, Nobody}
Names == Friends \cup Logins
Keys == Friends \cup {Me} \cup KeyStates
Requests == [action : Actions, pass : Passwords]
Forms == [old : Passwords, new : Passwords]
Cards == [login : Logins, password : Passwords, waiting : Passwords]
PostBoxes == Seq([name : Names, key : Keys])

\* Every variable has its type.
FCTypeOK ==
  /\ pc \in {"none", "waiting", "listing", "keying", "sealing"}
  /\ inbox \in Seq(Requests)
  /\ card \in Cards /\ facebook \in Passwords /\ last \in 1..MaxPasswords
  /\ page \in [popup : BOOLEAN, form : Forms, key : KeyStates]
  /\ doubt \in BOOLEAN
  /\ friends \in [Friends -> KeyStates] /\ lists \in [Lists -> SUBSET Friends]
  /\ todo \in Seq(Lists) /\ names \in Seq(Names) /\ keys \in Seq(Keys)
  /\ asked \in SUBSET Friends
  /\ post \in [boxes : PostBoxes, text : BOOLEAN, readers : SUBSET Friends]
  /\ faults \in Nat /\ edits \in Nat

(***************************************************************************)
(* The account                                                             *)
(***************************************************************************)
Is(i, action) == i \in DOMAIN inbox /\ inbox[i].action = action

\* The last validation of the inbox is at i.
LastValid(i) == Is(i, "validPass") /\ \A j \in DOMAIN inbox : j > i => ~Is(j, "validPass")

\* What the validation at i puts in force is the account's password, or it is
\* refused: it follows the password typed, or the one that waits, or another
\* validation.
Settles(i) ==
  \/ Is(i - 1, "setID") /\ inbox[i - 1].pass = facebook
  \/ /\ ~Is(i - 1, "setID") /\ \A j \in DOMAIN inbox : j < i => ~Is(j, "modifPass")
     /\ (\E j \in DOMAIN inbox : j < i /\ Is(j, "validPass")) \/ card.waiting \in {facebook, Empty}

\* A login is always validated.
Paired == \A i \in DOMAIN inbox : Is(i, "setID") => Is(i + 1, "validPass")

\* A form is of a card that has a password.
FormOfCard ==
  page.form # NoForm \/ Waiting("modifPass") => card.password # Empty

\* With the form filled, its passwords are the card's, or nothing waits.
FormFits ==
  pc # "none" /\ page.form # NoForm /\ ~Waiting("validPass") /\ ~Waiting("modifPass") =>
    card.waiting = Empty \/ page.form = [old |-> card.password, new |-> card.waiting]

AccountInv ==
  /\ Paired /\ FormOfCard
  /\ pc = "none" => inbox = <<>>
  /\ ~doubt => /\ PasswordsAgree /\ FormFits
               /\ \A i \in DOMAIN inbox : LastValid(i) => Settles(i)

(***************************************************************************)
(* The posts                                                               *)
(***************************************************************************)
Distinct(s, n) == \A i, j \in 1..n : s[i] = s[j] => i = j
Upto(s, n) == {s[i] : i \in 1..n}

\* The names found are the members of the lists read, and then the author's.
NamesFound ==
  /\ pc = "listing" =>
       Distinct(names, Len(names)) /\ Upto(names, Len(names)) = asked /\ keys = <<>>
  /\ pc \in {"keying", "sealing"} =>
       LET n == Len(names) - 1 IN
       /\ n \in Nat /\ names[n + 1] \in Logins
       /\ Distinct(names, n) /\ Upto(names, n) = asked
       /\ Len(keys) = (IF pc = "sealing" THEN n + 1 ELSE Len(keys)) /\ Len(keys) <= n + 1
       /\ \A i \in 1..n : i <= Len(keys) => keys[i] \in KeyStates \cup {names[i]}
       /\ pc = "keying" => Len(keys) <= n
       /\ pc = "sealing" => keys[n + 1] \in KeyStates \cup {Me}
  /\ pc \in {"none", "waiting"} => names = <<>> /\ keys = <<>> /\ asked = {}

PostInv == NamesFound /\ PostForItsReaders

-----------------------------------------------------------------------------
(* Helpers *)

LEMMA TailAt ==
  ASSUME NEW S, NEW s \in Seq(S), s # <<>>
  PROVE  /\ Head(s) = s[1] /\ Head(s) \in S /\ Tail(s) \in Seq(S)
         /\ Len(s) \in Nat \ {0} /\ Len(Tail(s)) = Len(s) - 1
         /\ \A i \in 1..Len(s) - 1 : Tail(s)[i] = s[i + 1]
         /\ DOMAIN s = 1..Len(s) /\ DOMAIN Tail(s) = 1..Len(s) - 1
OBVIOUS

LEMMA WithOne ==
  ASSUME NEW S, NEW s \in Seq(S), NEW x \in S
  PROVE  /\ s \o <<x>> \in Seq(S) /\ Append(s, x) = s \o <<x>>
         /\ Len(s) \in Nat /\ Len(s \o <<x>>) = Len(s) + 1
         /\ DOMAIN s = 1..Len(s) /\ DOMAIN (s \o <<x>>) = 1..Len(s) + 1
         /\ \A i \in 1..Len(s) : (s \o <<x>>)[i] = s[i]
         /\ (s \o <<x>>)[Len(s) + 1] = x
OBVIOUS

LEMMA WithTwo ==
  ASSUME NEW S, NEW s \in Seq(S), NEW x \in S, NEW y \in S
  PROVE  /\ s \o <<x, y>> \in Seq(S)
         /\ Len(s) \in Nat /\ Len(s \o <<x, y>>) = Len(s) + 2
         /\ DOMAIN s = 1..Len(s) /\ DOMAIN (s \o <<x, y>>) = 1..Len(s) + 2
         /\ \A i \in 1..Len(s) : (s \o <<x, y>>)[i] = s[i]
         /\ (s \o <<x, y>>)[Len(s) + 1] = x /\ (s \o <<x, y>>)[Len(s) + 2] = y
OBVIOUS

LEMMA NoneIn ==
  ASSUME NEW S
  PROVE  <<>> \in Seq(S)
OBVIOUS

\* A set of friends has a sequence of its own.
LEMMA SequenceOf ==
  ASSUME NEW members \in SUBSET Friends
  PROVE  LET s == SetToSeq(members) IN
         /\ s \in Seq(members) /\ Distinct(s, Len(s)) /\ Upto(s, Len(s)) = members
<1> DEFINE n == Cardinality(members)
           s == SetToSeq(members)
<1>1. IsFiniteSet(members) /\ n \in Nat /\ ExistsBijection(1..n, members)
  BY FaceCryptAssumption, FS_Subset, FS_CardinalityType
<1>2. \E f \in [1..n -> members] : IsInjective(f)
  BY <1>1 DEF ExistsBijection, Bijection, Injection
<1>3. s \in [1..n -> members] /\ IsInjective(s)
  BY <1>2 DEF SetToSeq
<1>4. IsFiniteSet(1..n) /\ Cardinality(1..n) = n
  BY <1>1, FS_Interval
<1>5. s \in Surjection(1..n, members)
  BY <1>1, <1>3, <1>4, FS_Injection DEF Injection
<1>6. s \in Seq(members) /\ Len(s) = n
  BY <1>1, <1>3
<1> QED
  BY <1>3, <1>5, <1>6 DEF Distinct, Upto, IsInjective, Surjection

\* The records of the card and of the page.
LEMMA CardFields ==
  ASSUME NEW c \in Cards
  PROVE  /\ c.login \in Logins /\ c.password \in Passwords /\ c.waiting \in Passwords
         /\ Me \in Logins /\ Nobody \in Logins /\ Me # Nobody /\ Empty \in Passwords
<1>1. Empty \in Passwords
  BY FaceCryptAssumption DEF Passwords, Empty
<1> QED
  BY <1>1, FaceCryptAssumption DEF Cards, Logins

\* What the requests do to the card.
LEMMA CardStored ==
  ASSUME NEW c \in Cards, Head(inbox).pass \in Passwords
  PROVE  /\ Login(c) \in Cards /\ Login(c).login = Me
         /\ Login(c).password = c.password /\ Login(c).waiting = c.waiting
         /\ Store(c) \in Cards /\ Store(c).login = Me
         /\ Store(c).password = c.password /\ Store(c).waiting = Head(inbox).pass
<1>1. Login(c) \in Cards /\ Login(c).login = Me
      /\ Login(c).password = c.password /\ Login(c).waiting = c.waiting
  BY DEF Cards, Logins, Login
<1> QED
  BY <1>1 DEF Cards, Store

LEMMA CardWaits ==
  ASSUME NEW c \in Cards, last + 1 \in Passwords
  PROVE  /\ Waits(c) \in Cards /\ Waits(c).login = c.login
         /\ Waits(c).password = c.password /\ Waits(c).waiting = last + 1
BY DEF Cards, Waits

LEMMA CardValidated ==
  ASSUME NEW c \in Cards
  PROVE  /\ Validated(c) \in Cards /\ Validated(c).login = c.login
         /\ c.waiting = Empty => Validated(c) = c
         /\ c.waiting # Empty => /\ Validated(c).password = c.waiting
                                 /\ Validated(c).waiting = Empty
<1>1. Empty \in Passwords
  BY CardFields
<1> QED
  BY <1>1 DEF Cards, Validated

LEMMA PageFields ==
  ASSUME NEW p \in [popup : BOOLEAN, form : Forms, key : KeyStates],
         NEW b \in BOOLEAN, NEW f \in Forms
  PROVE  /\ [p EXCEPT !.popup = b] \in [popup : BOOLEAN, form : Forms, key : KeyStates]
         /\ [p EXCEPT !.popup = b].form = p.form
         /\ [p EXCEPT !.form = f] \in [popup : BOOLEAN, form : Forms, key : KeyStates]
         /\ [p EXCEPT !.form = f].form = f
         /\ [p EXCEPT !.popup = b, !.form = f] \in [popup : BOOLEAN, form : Forms, key : KeyStates]
         /\ [p EXCEPT !.popup = b, !.form = f].form = f
         /\ p.popup \in BOOLEAN /\ p.form \in Forms /\ p.key \in KeyStates
<1>1. /\ [p EXCEPT !.popup = b] \in [popup : BOOLEAN, form : Forms, key : KeyStates]
      /\ [p EXCEPT !.popup = b].form = p.form
  OBVIOUS
<1>2. /\ [p EXCEPT !.form = f] \in [popup : BOOLEAN, form : Forms, key : KeyStates]
      /\ [p EXCEPT !.form = f].form = f
  OBVIOUS
<1>3. /\ [p EXCEPT !.popup = b, !.form = f] \in [popup : BOOLEAN, form : Forms, key : KeyStates]
      /\ [p EXCEPT !.popup = b, !.form = f].form = f
  OBVIOUS
<1> QED
  BY <1>1, <1>2, <1>3

LEMMA PageKey ==
  ASSUME NEW p \in [popup : BOOLEAN, form : Forms, key : KeyStates], NEW k \in KeyStates
  PROVE  /\ [p EXCEPT !.key = k] \in [popup : BOOLEAN, form : Forms, key : KeyStates]
         /\ [p EXCEPT !.key = k].form = p.form
OBVIOUS

\* A request that is read is the oldest one.
LEMMA ReadingTyped ==
  ASSUME FCTypeOK, NEW action, Reading(action)
  PROVE  /\ pc = "waiting" /\ inbox # <<>>
         /\ Head(inbox) \in Requests /\ Head(inbox) = inbox[1]
         /\ inbox[1].action = action /\ inbox[1].pass \in Passwords
         /\ inbox' \in Seq(Requests) /\ post' = NoPost
         /\ Len(inbox) \in Nat \ {0} /\ DOMAIN inbox = 1..Len(inbox)
         /\ Len(inbox') = Len(inbox) - 1 /\ DOMAIN inbox' = 1..Len(inbox) - 1
         /\ \A i \in 1..Len(inbox) - 1 : inbox'[i] = inbox[i + 1]
<1>1. inbox \in Seq(Requests) /\ inbox # <<>> /\ inbox' = Tail(inbox)
  BY DEF FCTypeOK, Reading
<1>2. /\ Head(inbox) = inbox[1] /\ Head(inbox) \in Requests /\ inbox' \in Seq(Requests)
      /\ Len(inbox) \in Nat \ {0} /\ Len(inbox') = Len(inbox) - 1
      /\ \A i \in 1..Len(inbox) - 1 : inbox'[i] = inbox[i + 1]
      /\ DOMAIN inbox = 1..Len(inbox) /\ DOMAIN inbox' = 1..Len(inbox) - 1
  BY <1>1, TailAt
<1>3. inbox[1].action = action /\ inbox[1].pass \in Passwords
  BY <1>2 DEF Reading, Requests
<1> QED
  BY <1>1, <1>2, <1>3 DEF Reading

\* What the browser writes is in the inbox, behind what was there.
LEMMA WrittenTyped ==
  ASSUME FCTypeOK, NEW requests \in Seq(Requests), Written(requests), pc # "none"
  PROVE  inbox' = inbox \o requests /\ inbox' \in Seq(Requests)
BY DEF FCTypeOK, Written

LEMMA PostTyped ==
  /\ NoPost \in [boxes : PostBoxes, text : BOOLEAN, readers : SUBSET Friends]
  /\ NoForm \in Forms /\ NoPost.boxes = <<>>
<1>1. <<>> \in PostBoxes /\ Empty \in Passwords
  BY NoneIn, CardFields, FaceCryptAssumption DEF PostBoxes, Passwords, Empty
<1> QED
  BY <1>1 DEF NoPost, NoForm, Forms

\* What a refused request has done of the card.
LEMMA PartlyTyped ==
  ASSUME FCTypeOK, inbox # <<>>, NEW c \in Partly,
         Head(inbox).action = "modifPass" => last + 1 \in Passwords \/ c = card
  PROVE  c \in Cards
<1>0. inbox \in Seq(Requests) /\ card \in Cards
  BY DEF FCTypeOK
<1>a. Head(inbox) \in Requests
  BY <1>0, TailAt
<1>1. Head(inbox).pass \in Passwords /\ card \in Cards
  BY <1>0, <1>a DEF Requests
<1>2. Login(card) \in Cards /\ Store(card) \in Cards /\ Validated(card) \in Cards
  BY <1>1, CardStored, CardValidated
<1>3. last + 1 \in Passwords => Waits(card) \in Cards
  BY <1>1, CardWaits
<1> QED
  BY <1>1, <1>2, <1>3 DEF Partly

LEMMA InitTyped == Init => FCTypeOK
<1> SUFFICES ASSUME Init PROVE FCTypeOK
  OBVIOUS
<1>1. 0 \in Passwords /\ 1 \in Passwords /\ 1 \in 1..MaxPasswords
  BY FaceCryptAssumption DEF Passwords, Empty
<1>2. card \in Cards
  BY <1>1 DEF Init, Cards, Logins, Empty
<1>3. page \in [popup : BOOLEAN, form : Forms, key : KeyStates]
  BY PostTyped DEF Init, KeyStates
<1>4. inbox \in Seq(Requests) /\ todo \in Seq(Lists) /\ names \in Seq(Names) /\ keys \in Seq(Keys)
  BY NoneIn DEF Init
<1>5. friends \in [Friends -> KeyStates] /\ lists \in [Lists -> SUBSET Friends]
  BY DEF Init, KeyStates
<1>6. post \in [boxes : PostBoxes, text : BOOLEAN, readers : SUBSET Friends]
  BY PostTyped DEF Init
<1> QED
  BY <1>1, <1>2, <1>3, <1>4, <1>5, <1>6 DEF Init, FCTypeOK

LEMMA ReadingKeepsType ==
  ASSUME FCTypeOK, GetID \/ SetID \/ ModifPass \/ ValidPass \/ NotStored \/ PubKey
  PROVE  FCTypeOK'
<1> DEFINE Pages == [popup : BOOLEAN, form : Forms, key : KeyStates]
<1>0. card \in Cards /\ page \in Pages /\ NoForm \in Forms /\ "good" \in KeyStates
      /\ "unusable" \in KeyStates /\ last \in 1..MaxPasswords
  BY PostTyped DEF FCTypeOK, KeyStates
<1>1. CASE GetID
  <2>1. inbox' \in Seq(Requests) /\ post' = NoPost
    BY <1>1, ReadingTyped DEF GetID
  <2>2. page' \in Pages
    BY <1>0, <1>1, PageFields DEF GetID
  <2> QED
    BY <1>1, <2>1, <2>2, PostTyped DEF GetID, FCTypeOK, baseVars, localVars
<1>2. CASE SetID
  <2>1. inbox' \in Seq(Requests) /\ post' = NoPost /\ Head(inbox).pass \in Passwords
    BY <1>2, ReadingTyped DEF SetID
  <2>2. card' \in Cards
    BY <1>0, <1>2, <2>1, CardStored DEF SetID
  <2> QED
    BY <1>2, <2>1, <2>2, PostTyped DEF SetID, FCTypeOK, baseVars, localVars
<1>3. CASE ModifPass
  <2>1. inbox' \in Seq(Requests) /\ post' = NoPost
    BY <1>3, ReadingTyped DEF ModifPass
  <2>2. last + 1 \in Passwords /\ last' \in 1..MaxPasswords
    BY <1>0, <1>3, FaceCryptAssumption DEF ModifPass, Passwords, Empty
  <2>3. card' \in Cards
    BY <1>0, <1>3, <2>2, CardWaits DEF ModifPass
  <2>4. [old |-> card.password, new |-> last + 1] \in Forms
    BY <1>0, <2>2, CardFields DEF Forms
  <2>5. page' \in Pages
    BY <1>0, <1>3, <2>4, PageFields DEF ModifPass
  <2> QED
    BY <1>3, <2>1, <2>2, <2>3, <2>5, PostTyped DEF ModifPass, FCTypeOK, baseVars, localVars
<1>4. CASE ValidPass
  <2>1. inbox' \in Seq(Requests) /\ post' = NoPost
    BY <1>4, ReadingTyped DEF ValidPass
  <2>2. card' \in Cards
    BY <1>0, <1>4, CardValidated DEF ValidPass
  <2>3. doubt' \in BOOLEAN
    BY <1>4 DEF ValidPass
  <2> QED
    BY <1>4, <2>1, <2>2, <2>3, PostTyped DEF ValidPass, FCTypeOK, baseVars, localVars
<1>5. CASE NotStored
  <2>1. /\ inbox' \in Seq(Requests) /\ post' = NoPost /\ inbox # <<>>
        /\ Head(inbox).action # "modifPass"
    BY <1>5, ReadingTyped DEF NotStored
  <2>2. card' \in Cards
    BY <1>5, <2>1, PartlyTyped DEF NotStored
  <2>3. doubt' \in BOOLEAN /\ faults' \in Nat
    BY <1>5 DEF NotStored, Fault, FCTypeOK
  <2> QED
    BY <1>5, <2>1, <2>2, <2>3, PostTyped DEF NotStored, FCTypeOK, baseVars, localVars
<1>6. CASE PubKey
  <2>1. inbox' \in Seq(Requests) /\ post' = NoPost
    BY <1>6, ReadingTyped DEF PubKey
  <2>2. page' \in Pages
    BY <1>0, <1>6, PageKey DEF PubKey
  <2>3. faults' \in Nat
    BY <1>6 DEF PubKey, Fault, FCTypeOK
  <2> QED
    BY <1>6, <2>1, <2>2, <2>3, PostTyped DEF PubKey, FCTypeOK, baseVars, localVars
<1> QED
  BY <1>1, <1>2, <1>3, <1>4, <1>5, <1>6

-----------------------------------------------------------------------------
(* The posts *)

\* The lists of an action are read one by one: each adds the names that are new.
LEMMA ListsRead ==
  ASSUME FCTypeOK, NamesFound, \E chosen \in SeqOf(Lists, 2) : Encrypt(chosen)
  PROVE  FCTypeOK' /\ NamesFound'
<1> PICK chosen \in SeqOf(Lists, 2) : Encrypt(chosen)
  OBVIOUS
<1>0. PICK m \in 0..2 : chosen \in [1..m -> Lists]
  BY DEF SeqOf
<1>1. chosen \in Seq(Lists)
  BY <1>0
<1>2. inbox' \in Seq(Requests) /\ post' = NoPost /\ pc = "waiting"
  BY ReadingTyped DEF Encrypt
<1>3. FCTypeOK'
  BY <1>1, <1>2, PostTyped DEF Encrypt, FCTypeOK, accountVars, baseVars
<1>4. names = <<>> /\ keys = <<>> /\ asked = {}
  BY <1>2 DEF NamesFound
<1>5. pc' = "listing" /\ names' = names /\ keys' = keys /\ asked' = asked
  BY DEF Encrypt
<1>6. Len(names') = 0 /\ 1..0 = {}
  BY <1>4, <1>5
<1>7. Distinct(names', 0) /\ Upto(names', 0) = {}
  BY <1>6 DEF Distinct, Upto
<1> QED
  BY <1>3, <1>4, <1>5, <1>6, <1>7 DEF NamesFound

LEMMA NamesAdded ==
  ASSUME FCTypeOK, NamesFound, ExtractNames
  PROVE  FCTypeOK' /\ NamesFound'
<1> DEFINE new == Members(Head(todo)) \ Range(names)
           s == SetToSeq(new)
           l == Len(names)
<1>1. /\ pc = "listing" /\ todo \in Seq(Lists) /\ todo # <<>> /\ names \in Seq(Names)
      /\ lists \in [Lists -> SUBSET Friends] /\ asked \in SUBSET Friends
  BY DEF FCTypeOK, ExtractNames
<1>2. Head(todo) \in Lists /\ todo' \in Seq(Lists)
  BY <1>1, TailAt DEF ExtractNames
<1>3. Members(Head(todo)) \in SUBSET Friends
  BY <1>1, <1>2 DEF Members
<1>4. s \in Seq(new) /\ Distinct(s, Len(s)) /\ Upto(s, Len(s)) = new
  BY <1>3, SequenceOf
<1>5. names' = names \o s /\ asked' = asked \cup Members(Head(todo)) /\ pc' = pc /\ keys' = keys
  BY DEF ExtractNames, NewNames
<1>6. Range(names) = Upto(names, l) /\ l \in Nat
  BY <1>1 DEF Range, Upto
<1>7. Distinct(names, l) /\ Upto(names, l) = asked /\ keys = <<>>
  BY <1>1 DEF NamesFound
<1> HIDE DEF new, s
<1>8. s \in Seq(Names) /\ Len(s) \in Nat
  BY <1>3, <1>4 DEF new, Names
<1>9. /\ names' \in Seq(Names) /\ Len(names') = l + Len(s)
      /\ \A i \in 1..l : names'[i] = names[i]
      /\ \A i \in 1..Len(s) : names'[l + i] = s[i]
  BY <1>1, <1>5, <1>6, <1>8
<1>10. \A i \in 1..Len(s) : s[i] \in new
  BY <1>4
<1>11. \A i \in 1..l : names[i] \notin new
  BY <1>6 DEF new, Upto
<1>12. Distinct(names', Len(names'))
  <2> SUFFICES ASSUME NEW i \in 1..l + Len(s), NEW j \in 1..l + Len(s), names'[i] = names'[j]
               PROVE  i = j
    BY <1>9 DEF Distinct
  <2>1. CASE i \in 1..l /\ j \in 1..l
    BY <2>1, <1>7, <1>9 DEF Distinct
  <2>2. CASE i > l /\ j > l
    <3>1. i - l \in 1..Len(s) /\ j - l \in 1..Len(s) /\ l + (i - l) = i /\ l + (j - l) = j
      BY <1>6, <1>8, <2>2
    <3>2. s[i - l] = s[j - l]
      BY <3>1, <1>9
    <3> QED
      BY <3>1, <3>2, <1>4, <1>6 DEF Distinct
  <2>3. CASE i \in 1..l /\ j > l
    <3>1. j - l \in 1..Len(s) /\ l + (j - l) = j
      BY <1>6, <1>8, <2>3
    <3> QED
      BY ZenonT(40), <3>1, <2>3, <1>9, <1>10, <1>11
  <2>4. CASE i > l /\ j \in 1..l
    <3>1. i - l \in 1..Len(s) /\ l + (i - l) = i
      BY <1>6, <1>8, <2>4
    <3> QED
      BY <3>1, <2>4, <1>9, <1>10, <1>11
  <2> QED
    BY <1>6, <1>8, <2>1, <2>2, <2>3, <2>4
<1>13. Upto(names', Len(names')) = asked'
  <2>1. ASSUME NEW i \in 1..l + Len(s) PROVE names'[i] \in asked'
    <3>1. CASE i \in 1..l
      BY <3>1, <1>5, <1>7, <1>9 DEF Upto
    <3>2. CASE i > l
      <4>1. i - l \in 1..Len(s) /\ l + (i - l) = i
        BY <1>6, <1>8, <3>2
      <4> QED
        BY <4>1, <1>5, <1>9, <1>10 DEF new
    <3> QED
      BY <1>6, <1>8, <3>1, <3>2
  <2>2. ASSUME NEW x \in asked' PROVE x \in Upto(names', Len(names'))
    <3>1. CASE x \in asked
      <4>1. PICK i \in 1..l : x = names[i]
        BY <3>1, <1>7 DEF Upto
      <4> QED
        BY <4>1, <1>6, <1>8, <1>9 DEF Upto
    <3>2. CASE x \in new
      <4>1. PICK i \in 1..Len(s) : x = s[i]
        BY <3>2, <1>4 DEF Upto
      <4>2. l + i \in 1..l + Len(s) /\ names'[l + i] = x
        BY <4>1, <1>6, <1>8, <1>9
      <4> QED
        BY <4>2, <1>9 DEF Upto
    <3> QED
      BY <3>1, <3>2, <1>5, <1>6, <1>7 DEF new
  <2> QED
    BY <2>1, <2>2, <1>9 DEF Upto
<1>14. FCTypeOK'
  BY <1>1, <1>2, <1>3, <1>9 DEF ExtractNames, FCTypeOK, accountVars, baseVars
<1> QED
  BY <1>1, <1>5, <1>7, <1>12, <1>13, <1>14 DEF NamesFound

LEMMA AuthorAdded ==
  ASSUME FCTypeOK, NamesFound, AddAuthor
  PROVE  FCTypeOK' /\ NamesFound'
<1> DEFINE l == Len(names)
<1>1. /\ pc = "listing" /\ pc' = "keying" /\ keys' = keys /\ asked' = asked
      /\ names \in Seq(Names) /\ card.login \in Logins
      /\ names' = Append(names, card.login)
  BY CardFields DEF FCTypeOK, AddAuthor
<1>2. Distinct(names, l) /\ Upto(names, l) = asked /\ keys = <<>>
  BY <1>1 DEF NamesFound
<1>3. card.login \in Names
  BY <1>1 DEF Names
<1>4. /\ names' \in Seq(Names) /\ l \in Nat /\ Len(names') = l + 1
      /\ names'[l + 1] = card.login /\ \A i \in 1..l : names'[i] = names[i]
  BY <1>1, <1>3, WithOne
<1>5. Len(names') - 1 = l /\ Len(keys) = 0
  BY <1>2, <1>4
<1>6. FCTypeOK'
  BY <1>1, <1>4 DEF AddAuthor, FCTypeOK, accountVars, baseVars
<1>7. Distinct(names', l) /\ Upto(names', l) = asked
  BY <1>2, <1>4 DEF Distinct, Upto
<1> QED
  BY <1>1, <1>2, <1>4, <1>5, <1>6, <1>7 DEF NamesFound

\* What the invariant says while the keys are found.
Readers(n) ==
  /\ n \in Nat /\ n = Len(names) - 1 /\ names[n + 1] \in Logins
  /\ Distinct(names, n) /\ Upto(names, n) = asked
  /\ \A i \in 1..n : i <= Len(keys) => keys[i] \in KeyStates \cup {names[i]}
  /\ Len(keys) \in Nat /\ Len(keys) <= n + 1

LEMMA Keying ==
  ASSUME FCTypeOK, NamesFound, pc \in {"keying", "sealing"}
  PROVE  /\ Readers(Len(names) - 1)
         /\ pc = "keying" => Len(keys) <= Len(names) - 1
         /\ pc = "sealing" => Len(keys) = Len(names) /\ keys[Len(names)] \in KeyStates \cup {Me}
<1>1. Len(names) \in Nat /\ Len(keys) \in Nat
  BY DEF FCTypeOK
<1> QED
  BY <1>1 DEF NamesFound, Readers

LEMMA FriendsKeyAdded ==
  ASSUME FCTypeOK, NamesFound, ExtractPubKey
  PROVE  FCTypeOK' /\ NamesFound'
<1> DEFINE n == Len(names) - 1
           l == Len(keys)
           friend == names[l + 1]
           key == IF friends[friend] = "good" THEN friend ELSE friends[friend]
<1>1. /\ pc = "keying" /\ pc' = "keying" /\ names' = names /\ asked' = asked /\ l < n
      /\ keys' = Append(keys, key) /\ keys \in Seq(Keys) /\ friends \in [Friends -> KeyStates]
      /\ asked \in SUBSET Friends
  BY DEF ExtractPubKey, FCTypeOK
<1>2. Readers(n) /\ n \in Nat /\ l \in Nat
  BY <1>1, Keying DEF Readers
<1>3. l + 1 \in 1..n
  BY <1>1, <1>2
<1>4. friend \in Friends
  BY <1>1, <1>2, <1>3 DEF Readers, Upto
<1>5. key \in KeyStates \cup {friend} /\ key \in Keys
  BY <1>1, <1>4 DEF Keys
<1> HIDE DEF key
<1>6. /\ keys' \in Seq(Keys) /\ Len(keys') = l + 1 /\ keys'[l + 1] = key
      /\ \A i \in 1..l : keys'[i] = keys[i]
  BY <1>1, <1>5, WithOne
<1>7. ASSUME NEW i \in 1..n, i <= Len(keys') PROVE keys'[i] \in KeyStates \cup {names'[i]}
  <2>1. CASE i = l + 1
    BY <2>1, <1>1, <1>5, <1>6
  <2>2. CASE i \in 1..l
    BY <2>2, <1>1, <1>2, <1>6 DEF Readers
  <2> QED
    BY <2>1, <2>2, <1>2, <1>6, <1>7
<1>8. FCTypeOK'
  BY <1>1, <1>6 DEF ExtractPubKey, FCTypeOK, accountVars, baseVars
<1>9. Len(keys') <= n
  BY <1>1, <1>2, <1>6
<1> QED
  BY <1>1, <1>2, <1>6, <1>7, <1>8, <1>9 DEF NamesFound, Readers

LEMMA OwnKeyAdded ==
  ASSUME FCTypeOK, NamesFound, AddOwnKey
  PROVE  FCTypeOK' /\ NamesFound'
<1> DEFINE n == Len(names) - 1
           l == Len(keys)
<1>1. /\ pc = "keying" /\ pc' = "sealing" /\ names' = names /\ asked' = asked /\ l = n
      /\ keys \in Seq(Keys)
  BY DEF AddOwnKey, FCTypeOK
<1>2. PICK key \in KeyStates \cup {Me} : keys' = Append(keys, key)
  BY DEF AddOwnKey, KeyStates
<1>3. Readers(n) /\ n \in Nat /\ l \in Nat
  BY <1>1, Keying DEF Readers
<1>4. key \in Keys
  BY DEF Keys
<1>5. /\ keys' \in Seq(Keys) /\ Len(keys') = l + 1 /\ keys'[l + 1] = key
      /\ \A i \in 1..l : keys'[i] = keys[i]
  BY <1>1, <1>2, <1>4, WithOne
<1>6. ASSUME NEW i \in 1..n PROVE keys'[i] \in KeyStates \cup {names'[i]}
  BY <1>1, <1>3, <1>5 DEF Readers
<1>7. faults' \in Nat
  BY DEF AddOwnKey, Fault, FCTypeOK
<1>8. FCTypeOK'
  BY <1>1, <1>5, <1>7 DEF AddOwnKey, FCTypeOK, accountVars, baseVars
<1> QED
  BY <1>1, <1>2, <1>3, <1>5, <1>6, <1>8 DEF NamesFound, Readers

LEMMA PostSealed ==
  ASSUME FCTypeOK, NamesFound, NEW anonymous \in BOOLEAN, Seal(anonymous)
  PROVE  FCTypeOK' /\ NamesFound' /\ PostForItsReaders'
<1> DEFINE n == Len(names) - 1
           l == Len(keys)
<1>1. /\ pc = "sealing" /\ pc' = "waiting" /\ todo' = <<>> /\ names' = <<>> /\ keys' = <<>>
      /\ asked' = {} /\ names \in Seq(Names) /\ keys \in Seq(Keys) /\ asked \in SUBSET Friends
  BY DEF Seal, Forget, FCTypeOK
<1>2. PICK text \in BOOLEAN :
        /\ faults' = faults \/ Fault
        /\ post' = [boxes |-> IF Unfit = {} THEN Boxes(anonymous) ELSE <<>>,
                    text |-> text, readers |-> asked]
  BY Zenon DEF Seal
<1>f. faults' \in Nat
  BY <1>2 DEF Fault, FCTypeOK
<1>3. Readers(n) /\ n \in Nat /\ l = n + 1 /\ Len(names) = l /\ keys[l] \in KeyStates \cup {Me}
  BY <1>1, Keying DEF Readers
<1>4. /\ Boxes(anonymous) \in PostBoxes /\ Len(Boxes(anonymous)) = l
      /\ DOMAIN Boxes(anonymous) = 1..l
      /\ \A i \in 1..l : /\ Boxes(anonymous)[i].key = keys[i]
                         /\ Boxes(anonymous)[i].name \in {Nobody, names[i]}
  <2>1. \A i \in 1..l : names[i] \in Names /\ keys[i] \in Keys /\ Nobody \in Names
    BY <1>1, <1>3 DEF Names, Logins
  <2>2. \A i \in 1..l : [name |-> IF anonymous THEN Nobody ELSE names[i], key |-> keys[i]]
                          \in [name : Names, key : Keys]
    BY <2>1
  <2>3. Boxes(anonymous) \in [1..l -> [name : Names, key : Keys]]
    BY <2>2 DEF Boxes
  <2> QED
    BY <2>3, <1>3 DEF Boxes, PostBoxes
<1>5. <<>> \in Seq(Lists) /\ <<>> \in Seq(Names) /\ <<>> \in Seq(Keys) /\ <<>> \in PostBoxes
  BY NoneIn DEF PostBoxes
<1>6. FCTypeOK'
  <2>1. post' \in [boxes : PostBoxes, text : BOOLEAN, readers : SUBSET Friends]
    BY <1>1, <1>2, <1>4, <1>5
  <2> QED
    BY <1>1, <1>2, <1>f, <1>5, <2>1 DEF Seal, FCTypeOK, accountVars, baseVars
<1>7. NamesFound'
  BY <1>1 DEF NamesFound
<1>8. PostForItsReaders'
  <2> SUFFICES ASSUME post'.boxes # <<>> PROVE PostForItsReaders'
    BY DEF PostForItsReaders
  <2>1. Unfit = {} /\ post'.boxes = Boxes(anonymous) /\ post'.readers = asked
    BY <1>2
  <2>2. keys[l] = Me /\ \A i \in 1..n : keys[i] = names[i]
    <3>1. \A i \in 1..l : keys[i] \notin KeyStates
      BY <2>1 DEF Unfit
    <3> QED
      BY <1>3, <3>1 DEF Readers
  <2>3. \A i \in 1..n : names[i] \in asked /\ names[i] \in Friends
    BY <1>1, <1>3 DEF Readers, Upto
  <2>4. Me \notin Friends /\ Nobody \notin Friends /\ names[l] \notin Friends
    BY <1>3, FaceCryptAssumption DEF Readers, Logins
  <2>5. {Boxes(anonymous)[i].key : i \in 1..l} = asked \cup {Me}
    <3>1. ASSUME NEW i \in 1..l PROVE Boxes(anonymous)[i].key \in asked \cup {Me}
      <4>1. i \in 1..n \/ i = l
        BY <1>3
      <4> QED
        BY <4>1, <1>4, <2>2, <2>3
    <3>2. ASSUME NEW x \in asked PROVE \E i \in 1..l : x = Boxes(anonymous)[i].key
      <4>1. PICK i \in 1..n : x = names[i]
        BY <1>3, <3>2 DEF Readers, Upto
      <4>2. i \in 1..l
        BY <1>3
      <4> QED
        BY <4>1, <4>2, <1>4, <2>2
    <3>3. \E i \in 1..l : Me = Boxes(anonymous)[i].key
      <4>1. l \in 1..l
        BY <1>3
      <4> QED
        BY <4>1, <1>4, <2>2
    <3> QED
      BY <3>1, <3>2, <3>3
  <2>6. ASSUME NEW i \in 1..l
        PROVE  /\ Boxes(anonymous)[i].name \in Friends
                    => Boxes(anonymous)[i].name = Boxes(anonymous)[i].key
               /\ \A j \in 1..l : Boxes(anonymous)[j].key = Boxes(anonymous)[i].key => j = i
    <3>1. i \in 1..n \/ i = l
      BY <1>3
    <3>2. Boxes(anonymous)[i].name \in Friends
            => Boxes(anonymous)[i].name = Boxes(anonymous)[i].key
      BY <3>1, <1>4, <2>2, <2>4
    <3>3. ASSUME NEW j \in 1..l, Boxes(anonymous)[j].key = Boxes(anonymous)[i].key PROVE j = i
      <4>1. (j \in 1..n \/ j = l) /\ keys[j] = keys[i]
        BY <1>3, <1>4, <3>3
      <4>2. CASE i \in 1..n /\ j \in 1..n
        BY <4>1, <4>2, <1>3, <2>2 DEF Readers, Distinct
      <4>3. CASE i = l /\ j \in 1..n
        BY <4>1, <4>3, <2>2, <2>3, <2>4
      <4>4. CASE i \in 1..n /\ j = l
        BY <4>1, <4>4, <2>2, <2>3, <2>4
      <4> QED
        BY <3>1, <4>1, <4>2, <4>3, <4>4
    <3> QED
      BY <3>2, <3>3
  <2>7. DOMAIN post'.boxes = 1..l /\ post' # NoPost
    BY <1>4, <2>1, PostTyped
  <2>8. {post'.boxes[i].key : i \in DOMAIN post'.boxes} = post'.readers \cup {Me}
    BY <2>1, <2>5, <2>7
  <2>9. \A i \in DOMAIN post'.boxes :
          /\ post'.boxes[i].name \in Friends => post'.boxes[i].name = post'.boxes[i].key
          /\ \A j \in DOMAIN post'.boxes : post'.boxes[j].key = post'.boxes[i].key => j = i
    BY <2>1, <2>6, <2>7
  <2> QED
    BY <2>8, <2>9 DEF PostForItsReaders
<1> QED
  BY <1>6, <1>7, <1>8

-----------------------------------------------------------------------------
(* The thread and its browser *)

LEMMA EndTyped ==
  ASSUME FCTypeOK, End
  PROVE  pc' = "none" /\ inbox' = <<>> /\ inbox' \in Seq(Requests) /\ doubt' \in BOOLEAN
BY NoneIn DEF End

LEMMA Forgotten ==
  ASSUME Forget
  PROVE  /\ todo' \in Seq(Lists) /\ names' \in Seq(Names) /\ keys' \in Seq(Keys)
         /\ asked' \in SUBSET Friends
         /\ pc' \in {"none", "waiting"} => NamesFound'
<1>1. todo' = <<>> /\ names' = <<>> /\ keys' = <<>> /\ asked' = {}
  BY DEF Forget
<1>2. todo' \in Seq(Lists) /\ names' \in Seq(Names) /\ keys' \in Seq(Keys)
  BY <1>1, NoneIn
<1> QED
  BY <1>1, <1>2 DEF NamesFound

\* What the account knows of a thread that dies.
LEMMA DiesTyped ==
  ASSUME FCTypeOK, Dies
  PROVE  /\ card' \in Cards /\ last' \in 1..MaxPasswords /\ faults' \in Nat
         /\ End /\ Forget
<1>1. card \in Cards /\ last \in 1..MaxPasswords /\ MaxPasswords \in Nat
  BY FaceCryptAssumption DEF FCTypeOK
<1>2. last' \in 1..MaxPasswords
  BY <1>1 DEF Dies
<1>3. card' \in Cards
  <2>1. CASE pc # "waiting"
    BY <1>1, <2>1 DEF Dies
  <2>2. CASE pc = "waiting"
    <3>1. inbox # <<>> /\ card' \in Partly
      BY <2>2 DEF Dies
    <3>2. Waits(card).waiting = last + 1
      BY <1>1 DEF Waits, Cards
    <3>3. Head(inbox).action = "modifPass" => last + 1 \in Passwords \/ card' = card
      <4> SUFFICES ASSUME Head(inbox).action = "modifPass", card' # card
                   PROVE  last + 1 \in Passwords
        OBVIOUS
      <4>1. card' = Waits(card)
        BY <3>1 DEF Partly
      <4>2. last' = last + 1
        BY <3>2, <4>1 DEF Dies
      <4> QED
        BY <1>1, <1>2, <4>2 DEF Passwords, Empty
    <3> QED
      BY <3>1, <3>3, PartlyTyped
  <2> QED
    BY <2>1, <2>2
<1> QED
  BY <1>2, <1>3 DEF Dies, Fault, FCTypeOK

LEMMA ThreadKeepsType ==
  ASSUME FCTypeOK, SealNothing \/ Dies \/ Quit \/ HangUp \/ Connect
  PROVE  FCTypeOK'
<1>1. CASE SealNothing
  BY <1>1, EndTyped, Forgotten DEF SealNothing, FCTypeOK, baseVars
<1>2. CASE Dies
  BY <1>2, EndTyped, Forgotten, DiesTyped DEF Dies, FCTypeOK, baseVars
<1>3. CASE Quit
  BY <1>3, EndTyped DEF Quit, FCTypeOK, baseVars, postVars, localVars
<1>4. CASE HangUp
  BY <1>4 DEF HangUp, FCTypeOK, accountVars, baseVars, postVars, localVars
<1>5. CASE Connect
  <2>1. page' \in [popup : BOOLEAN, form : Forms, key : KeyStates]
    BY <1>5, PageFields, PostTyped DEF Connect, FCTypeOK
  <2> QED
    BY <1>5, <2>1 DEF Connect, FCTypeOK, baseVars, postVars, localVars
<1> QED
  BY <1>1, <1>2, <1>3, <1>4, <1>5

\* What the extension writes.
LEMMA RequestTyped ==
  /\ \A action \in Actions : /\ Request(action) \in Requests
                             /\ Request(action).action = action
                             /\ <<Request(action)>> \in Seq(Requests)
  /\ \A p \in Passwords : /\ SetIDRequest(p) \in Requests
                          /\ SetIDRequest(p).action = "setID" /\ SetIDRequest(p).pass = p
                          /\ <<SetIDRequest(p), Request("validPass")>> \in Seq(Requests)
<1>1. Empty \in Passwords /\ "setID" \in Actions /\ "validPass" \in Actions
  BY CardFields, FaceCryptAssumption DEF Actions, Passwords, Empty
<1>2. \A action \in Actions : Request(action) \in Requests /\ Request(action).action = action
  BY <1>1 DEF Request, Requests
<1>3. \A p \in Passwords : /\ SetIDRequest(p) \in Requests
                           /\ SetIDRequest(p).action = "setID" /\ SetIDRequest(p).pass = p
  BY <1>1 DEF SetIDRequest, Requests
<1> QED
  BY <1>1, <1>2, <1>3

LEMMA BrowserKeepsType ==
  ASSUME FCTypeOK, Browser
  PROVE  FCTypeOK'
<1> DEFINE Pages == [popup : BOOLEAN, form : Forms, key : KeyStates]
<1>0. /\ page \in Pages /\ NoForm \in Forms /\ card \in Cards /\ facebook \in Passwords
      /\ inbox \in Seq(Requests)
  BY PostTyped DEF FCTypeOK
<1>1. ASSUME NEW requests \in Seq(Requests), Written(requests)
      PROVE  inbox' \in Seq(Requests)
  BY <1>0, <1>1 DEF Written
<1>2. ASSUME NEW action \in Actions, Ask(action) PROVE FCTypeOK'
  <2>1. inbox' \in Seq(Requests)
    BY <1>1, <1>2, RequestTyped DEF Ask
  <2> QED
    BY <1>2, <2>1 DEF Ask, FCTypeOK, accountVars, baseVars, postVars, localVars
<1>3. CASE SubmitID
  <2>1. inbox' \in Seq(Requests)
    BY <1>0, <1>1, <1>3, RequestTyped DEF SubmitID
  <2>2. page' \in Pages /\ doubt' \in BOOLEAN
    BY <1>0, <1>3, PageFields DEF SubmitID
  <2> QED
    BY <1>3, <2>1, <2>2 DEF SubmitID, FCTypeOK, baseVars, postVars, localVars
<1>4. CASE Confirm
  <2>1. inbox' \in Seq(Requests)
    BY <1>1, <1>4, RequestTyped DEF Confirm, Actions
  <2>2. page' \in Pages /\ doubt' \in BOOLEAN
    BY <1>0, <1>4, PageFields DEF Confirm
  <2>3. facebook' \in Passwords
    BY <1>0, <1>4 DEF Confirm, Forms
  <2> QED
    BY <1>4, <2>1, <2>2, <2>3 DEF Confirm, FCTypeOK, baseVars, postVars, localVars
<1>5. CASE RemoveFriends
  <2>1. friends' \in [Friends -> KeyStates] /\ lists' \in [Lists -> SUBSET Friends]
    BY <1>5 DEF RemoveFriends, KeyStates
  <2> QED
    BY <1>5, <2>1 DEF RemoveFriends, Edit, FCTypeOK, accountVars, postVars, localVars
<1>6. CASE AddFriends
  BY <1>6 DEF AddFriends, Edit, FCTypeOK, accountVars, postVars, localVars
<1>7. ASSUME NEW l \in Lists, SetList(l) PROVE FCTypeOK'
  <2>1. lists' \in [Lists -> SUBSET Friends]
    BY <1>7 DEF SetList, FCTypeOK
  <2> QED
    BY <1>7, <2>1 DEF SetList, Edit, FCTypeOK, accountVars, postVars, localVars
<1> QED
  BY <1>2, <1>3, <1>4, <1>5, <1>6, <1>7 DEF Browser

\* The rest leaves the post as it is, or drops it.
LEMMA PostKept ==
  ASSUME PostForItsReaders, post' = post \/ post' = NoPost
  PROVE  PostForItsReaders'
BY PostTyped DEF PostForItsReaders

LEMMA NamesKept ==
  ASSUME NamesFound, UNCHANGED localVars,
         pc' = pc \/ (pc \in {"none", "waiting"} /\ pc' \in {"none", "waiting"})
  PROVE  NamesFound'
<1>1. names' = names /\ keys' = keys /\ asked' = asked
  BY DEF localVars
<1>2. CASE pc' = pc
  BY <1>1, <1>2 DEF NamesFound, Distinct, Upto
<1>3. CASE pc \in {"none", "waiting"} /\ pc' \in {"none", "waiting"}
  BY <1>1, <1>3 DEF NamesFound
<1> QED
  BY <1>2, <1>3

LEMMA PostStep ==
  ASSUME FCTypeOK, PostInv, [Next]_vars
  PROVE  FCTypeOK' /\ PostInv'
<1>0. NamesFound /\ PostForItsReaders
  BY DEF PostInv
<1>1. CASE GetID \/ SetID \/ ModifPass \/ ValidPass \/ NotStored \/ PubKey
  <2>1. UNCHANGED localVars /\ pc' = pc /\ post' = NoPost
    BY <1>1 DEF GetID, SetID, ModifPass, ValidPass, NotStored, PubKey, Reading
  <2> QED
    BY <1>0, <1>1, <2>1, ReadingKeepsType, NamesKept, PostKept DEF PostInv
<1>2. CASE \E chosen \in SeqOf(Lists, 2) : Encrypt(chosen)
  <2>1. post' = NoPost
    BY <1>2 DEF Encrypt, Reading
  <2> QED
    BY <1>0, <1>2, <2>1, ListsRead, PostKept DEF PostInv
<1>3. CASE ExtractNames \/ AddAuthor \/ ExtractPubKey \/ AddOwnKey
  <2>1. post' = post
    BY <1>3 DEF ExtractNames, AddAuthor, ExtractPubKey, AddOwnKey
  <2> QED
    BY <1>0, <1>3, <2>1, NamesAdded, AuthorAdded, FriendsKeyAdded, OwnKeyAdded, PostKept DEF PostInv
<1>4. CASE \E anonymous \in BOOLEAN : Seal(anonymous)
  BY <1>0, <1>4, PostSealed DEF PostInv
<1>5. CASE SealNothing \/ Dies
  <2>1. post' = post /\ pc' = "none" /\ Forget
    BY <1>5 DEF SealNothing, Dies, End
  <2> QED
    BY <1>0, <1>5, <2>1, ThreadKeepsType, Forgotten, PostKept DEF PostInv
<1>6. CASE Quit \/ HangUp \/ Connect
  <2>1. /\ post' = post /\ UNCHANGED localVars
        /\ pc \in {"none", "waiting"} /\ pc' \in {"none", "waiting"}
    BY <1>6 DEF Quit, HangUp, Connect, End, postVars
  <2> QED
    BY <1>0, <1>6, <2>1, ThreadKeepsType, NamesKept, PostKept DEF PostInv
<1>7. CASE Browser
  <2>1. post' = post /\ UNCHANGED localVars /\ pc' = pc
    BY <1>7 DEF Browser, Ask, SubmitID, Confirm, RemoveFriends, AddFriends, SetList, postVars
  <2> QED
    BY <1>0, <1>7, <2>1, BrowserKeepsType, NamesKept, PostKept DEF PostInv
<1>8. CASE UNCHANGED vars
  <2>1. post' = post /\ UNCHANGED localVars /\ pc' = pc
    BY <1>8 DEF vars, postVars
  <2>2. FCTypeOK'
    BY <1>8 DEF FCTypeOK, vars, accountVars, baseVars, postVars, localVars
  <2> QED
    BY <1>0, <2>1, <2>2, NamesKept, PostKept DEF PostInv
<1> QED
  BY <1>1, <1>2, <1>3, <1>4, <1>5, <1>6, <1>7, <1>8 DEF Next

LEMMA InitPost == Init => PostInv
<1> SUFFICES ASSUME Init PROVE PostInv
  OBVIOUS
<1>1. PostForItsReaders
  BY PostTyped DEF Init, PostForItsReaders
<1> QED
  BY <1>1 DEF Init, PostInv, NamesFound

\* Every variable has its type in every state (ProcessusSockSSL, Client).
THEOREM FaceCryptTypeCorrect == Spec => []FCTypeOK
<1>1. Init => FCTypeOK /\ PostInv
  BY InitTyped, InitPost
<1>2. FCTypeOK /\ PostInv /\ [Next]_vars => (FCTypeOK /\ PostInv)'
  BY PostStep
<1> QED
  BY <1>1, <1>2, PTL DEF Spec

\* A post is for the members of its lists and its author, once each, or has no
\* box (ProcessusSockSSL.extractNames, extractPubKeys, Client.encryptPubKeys).
THEOREM PostsAreForTheirReaders == Spec => []PostForItsReaders
<1>1. Init => FCTypeOK /\ PostInv
  BY InitTyped, InitPost
<1>2. FCTypeOK /\ PostInv /\ [Next]_vars => (FCTypeOK /\ PostInv)'
  BY PostStep
<1>3. PostInv => PostForItsReaders
  BY DEF PostInv
<1> QED
  BY <1>1, <1>2, <1>3, PTL DEF Spec

-----------------------------------------------------------------------------
(* The account *)

\* The parts that hold while nothing has failed.
Trusted ==
  /\ PasswordsAgree /\ FormFits
  /\ \A i \in DOMAIN inbox : LastValid(i) => Settles(i)

LEMMA AccountParts ==
  AccountInv <=> /\ Paired /\ FormOfCard
                 /\ (pc = "none" => inbox = <<>>)
                 /\ (~doubt => Trusted)
BY DEF AccountInv, Trusted

\* Nothing of the account moves, and the thread is there or is not, as before.
LEMMA AccountKept ==
  ASSUME AccountInv, UNCHANGED <<inbox, accountVars>>, pc' = "none" <=> pc = "none"
  PROVE  AccountInv'
<1>1. /\ inbox' = inbox /\ card' = card /\ facebook' = facebook /\ page' = page
      /\ doubt' = doubt
  BY DEF accountVars
<1>2. \A i, a : Is(i, a)' <=> Is(i, a)
  BY <1>1 DEF Is
<1>3. \A a : Waiting(a)' <=> Waiting(a)
  BY <1>1 DEF Waiting
<1>4. Paired' /\ FormOfCard'
  BY <1>1, <1>2, <1>3 DEF AccountInv, Paired, FormOfCard
<1>5. PasswordsAgree => PasswordsAgree'
  BY <1>1, <1>3 DEF PasswordsAgree
<1>6. FormFits => FormFits'
  BY <1>1, <1>3 DEF FormFits
<1>7. ASSUME NEW i \in DOMAIN inbox, LastValid(i) => Settles(i) PROVE (LastValid(i) => Settles(i))'
  BY <1>1, <1>2, <1>7 DEF LastValid, Settles
<1> QED
  BY <1>1, <1>4, <1>5, <1>6, <1>7 DEF AccountInv

\* The inbox after the oldest request is read.
LEMMA Shift ==
  ASSUME FCTypeOK, Paired, NEW action, Reading(action)
  PROVE  /\ \A i \in Nat : \A a : i >= 1 => (Is(i, a)' <=> Is(i + 1, a))
         /\ \A i \in Nat : i >= 1 /\ i \in DOMAIN inbox' =>
              inbox'[i] = inbox[i + 1] /\ i + 1 \in DOMAIN inbox
         /\ \A a : Waiting(a)' => Waiting(a)
         /\ \A a : Waiting(a) => Waiting(a)' \/ a = action
         /\ Is(1, action)
         /\ DOMAIN inbox \subseteq Nat \ {0} /\ DOMAIN inbox' \subseteq Nat \ {0}
         /\ Paired'
         /\ action = "setID" => Is(2, "validPass") /\ Is(1, "validPass")'
<1> DEFINE n == Len(inbox)
<1>1. /\ n \in Nat \ {0} /\ DOMAIN inbox = 1..n /\ DOMAIN inbox' = 1..n - 1
      /\ \A i \in 1..n - 1 : inbox'[i] = inbox[i + 1]
      /\ inbox[1].action = action
  BY ReadingTyped
<1>2. \A i \in Nat : \A a : i >= 1 => (Is(i, a)' <=> Is(i + 1, a))
  BY <1>1 DEF Is
<1>3. \A i \in Nat : i >= 1 /\ i \in DOMAIN inbox' =>
        inbox'[i] = inbox[i + 1] /\ i + 1 \in DOMAIN inbox
  BY <1>1
<1>4. \A a : Waiting(a)' => Waiting(a)
  <2> SUFFICES ASSUME NEW a, Waiting(a)' PROVE Waiting(a)
    OBVIOUS
  <2>1. PICK i \in 1..n - 1 : inbox'[i].action = a
    BY <1>1 DEF Waiting
  <2> QED
    BY <2>1, <1>1 DEF Waiting
<1>5. \A a : Waiting(a) => Waiting(a)' \/ a = action
  <2> SUFFICES ASSUME NEW a, Waiting(a), a # action PROVE Waiting(a)'
    OBVIOUS
  <2>1. PICK i \in 1..n : inbox[i].action = a
    BY <1>1 DEF Waiting
  <2>2. i - 1 \in 1..n - 1 /\ inbox'[i - 1] = inbox[i]
    BY <2>1, <1>1
  <2> QED
    BY <2>1, <2>2, <1>1 DEF Waiting
<1>6. Is(1, action)
  BY <1>1 DEF Is
<1>7. Paired'
  <2> SUFFICES ASSUME NEW i \in 1..n - 1, Is(i, "setID")' PROVE Is(i + 1, "validPass")'
    BY <1>1 DEF Paired
  <2>1. i \in Nat /\ i >= 1 /\ i + 1 \in 1..n /\ i + 1 >= 1
    BY <1>1
  <2>2. Is(i + 1, "setID")
    BY <2>1, <1>2
  <2>3. Is((i + 1) + 1, "validPass")
    BY <2>1, <2>2, <1>1 DEF Paired
  <2> QED
    BY <2>1, <2>3, <1>2
<1>8. action = "setID" => Is(2, "validPass") /\ Is(1, "validPass")'
  <2> SUFFICES ASSUME action = "setID" PROVE Is(2, "validPass") /\ Is(1, "validPass")'
    OBVIOUS
  <2>1. 1 \in DOMAIN inbox /\ 1 + 1 = 2
    BY <1>1
  <2>2. Is(2, "validPass")
    BY <2>1, <1>6 DEF Paired
  <2> QED
    BY <2>2, <2>1, <1>2
<1>9. DOMAIN inbox \subseteq Nat \ {0} /\ DOMAIN inbox' \subseteq Nat \ {0}
  BY <1>1
<1> QED
  BY <1>2, <1>3, <1>4, <1>5, <1>6, <1>7, <1>8, <1>9, Zenon

\* The last validation is the one behind it.
LEMMA LastShift ==
  ASSUME FCTypeOK, Paired, NEW action, Reading(action),
         NEW i \in DOMAIN inbox', LastValid(i)'
  PROVE  /\ i \in Nat /\ i >= 1 /\ i + 1 \in DOMAIN inbox
         /\ LastValid(i + 1)
<1>1. i \in Nat /\ i >= 1 /\ i + 1 \in DOMAIN inbox
  BY Shift
<1>2. Is(i + 1, "validPass")
  BY <1>1, Shift DEF LastValid
<1>3. ASSUME NEW j \in DOMAIN inbox, j > i + 1 PROVE ~Is(j, "validPass")
  <2>1. j - 1 \in Nat /\ j - 1 >= 1 /\ (j - 1) + 1 = j /\ j - 1 > i
    BY <1>1, <1>3, Shift
  <2>2. CASE Is(j - 1, "validPass")'
    <3>1. j - 1 \in DOMAIN inbox'
      BY <2>2 DEF Is
    <3> QED
      BY <2>1, <2>2, <3>1 DEF LastValid
  <2>3. CASE ~Is(j - 1, "validPass")'
    <3>1. Is(j - 1, "validPass")' <=> Is((j - 1) + 1, "validPass")
      BY <2>1, Shift
    <3> QED
      BY <2>1, <2>3, <3>1
  <2> QED
    BY <2>2, <2>3
<1> QED
  BY <1>1, <1>2, <1>3 DEF LastValid

\* What the last validation settles, it settles after the oldest request is
\* served: the password typed waits, or nothing does, or what did.
LEMMA SettlesShift ==
  ASSUME FCTypeOK, Paired, NEW action, Reading(action), UNCHANGED facebook,
         action = "setID" => card'.waiting = inbox[1].pass,
         action = "validPass" => card'.waiting = Empty,
         action \notin {"setID", "validPass", "modifPass"} => card'.waiting = card.waiting,
         NEW i \in DOMAIN inbox', LastValid(i)', Settles(i + 1)
  PROVE  Settles(i)'
<1>1. i \in Nat /\ i >= 1 /\ (i + 1) - 1 = i /\ i - 1 \in Nat /\ (i - 1) + 1 = i
  BY LastShift
<1>2. /\ \A j \in Nat : \A a : j >= 1 => (Is(j, a)' <=> Is(j + 1, a))
      /\ DOMAIN inbox \subseteq Nat \ {0} /\ DOMAIN inbox' \subseteq Nat \ {0}
      /\ Is(1, action)
  BY Shift
<1>3. ~Is(0, "setID")'
  BY <1>2 DEF Is
<1>4. CASE Is(i, "setID") /\ inbox[i].pass = facebook
  <2>1. CASE i = 1
    <3>1. action = "setID" /\ card'.waiting = facebook'
      BY <1>2, <1>4, <2>1 DEF Is
    <3>2. \A j \in DOMAIN inbox' : ~(j < i)
      BY <1>2, <2>1
    <3> QED
      BY <1>3, <2>1, <3>1, <3>2 DEF Settles
  <2>2. CASE i # 1
    <3>1. i - 1 >= 1 /\ Is(i - 1, "setID")'
      BY <1>1, <1>2, <1>4, <2>2
    <3>2. inbox'[i - 1] = inbox[i]
      BY <1>1, <3>1, Shift DEF Is
    <3> QED
      BY <1>4, <3>1, <3>2 DEF Settles
  <2> QED
    BY <2>1, <2>2
<1>5. CASE ~(Is(i, "setID") /\ inbox[i].pass = facebook)
  <2>1. /\ ~Is(i, "setID") /\ \A j \in DOMAIN inbox : j < i + 1 => ~Is(j, "modifPass")
        /\ \/ \E j \in DOMAIN inbox : j < i + 1 /\ Is(j, "validPass")
           \/ card.waiting \in {facebook, Empty}
    BY <1>1, <1>5 DEF Settles
  <2>2. action # "modifPass"
    <3>1. 1 \in DOMAIN inbox /\ 1 < i + 1
      BY <1>1, <1>2 DEF Is
    <3> QED
      BY <1>2, <2>1, <3>1 DEF Is
  <2>3. ~Is(i - 1, "setID")'
    <3>1. CASE i = 1
      BY <1>3, <3>1
    <3>2. CASE i # 1
      BY <1>1, <1>2, <2>1, <3>2
    <3> QED
      BY <3>1, <3>2
  <2>4. ASSUME NEW j \in DOMAIN inbox', j < i PROVE ~Is(j, "modifPass")'
    <3>1. j \in Nat /\ j >= 1 /\ j + 1 < i + 1 /\ j + 1 \in DOMAIN inbox
      BY <1>1, <1>2, <2>4, Shift
    <3> QED
      BY <1>2, <2>1, <3>1
  <2>5. \/ \E j \in DOMAIN inbox' : j < i /\ Is(j, "validPass")'
        \/ card'.waiting \in {facebook', Empty}
    <3>1. CASE action = "setID"
      <4>1. Is(1, "validPass")' /\ i # 1
        BY <1>2, <2>1, <3>1, Shift
      <4> QED
        BY <1>1, <4>1 DEF Is
    <3>2. CASE action = "validPass"
      BY <3>2
    <3>3. CASE action \notin {"setID", "validPass", "modifPass"}
      <4>1. CASE card.waiting \in {facebook, Empty}
        BY <3>3, <4>1
      <4>2. CASE \E j \in DOMAIN inbox : j < i + 1 /\ Is(j, "validPass")
        <5>1. PICK j \in DOMAIN inbox : j < i + 1 /\ Is(j, "validPass")
          BY <4>2
        <5>2. j # 1
          BY <1>2, <3>3, <5>1 DEF Is
        <5>3. j - 1 \in Nat /\ j - 1 >= 1 /\ (j - 1) + 1 = j /\ j - 1 < i
          BY <1>1, <1>2, <5>1, <5>2
        <5>4. Is(j - 1, "validPass")'
          BY <1>2, <5>1, <5>3
        <5> QED
          BY <5>3, <5>4 DEF Is
      <4> QED
        BY <2>1, <4>1, <4>2
    <3> QED
      BY <2>2, <3>1, <3>2, <3>3
  <2> QED
    BY <2>3, <2>4, <2>5 DEF Settles
<1> QED
  BY <1>4, <1>5

\* A request that leaves the card and the form as they are.
LEMMA ReadingKept ==
  ASSUME FCTypeOK, AccountInv, NEW action, Reading(action),
         action \notin {"setID", "validPass", "modifPass"},
         UNCHANGED <<card, facebook, doubt>>, page'.form = page.form, pc' # "none"
  PROVE  AccountInv'
<1>1. Paired /\ FormOfCard /\ (~doubt => Trusted) /\ pc = "waiting"
  BY AccountParts DEF Reading
<1>2. /\ \A a : Waiting(a)' => Waiting(a)
      /\ \A a : Waiting(a) => Waiting(a)' \/ a = action
      /\ Paired'
  BY <1>1, Shift
<1>3. FormOfCard'
  BY <1>1, <1>2 DEF FormOfCard
<1>4. ASSUME ~doubt PROVE Trusted'
  <2>1. PasswordsAgree' /\ FormFits'
    BY <1>1, <1>2, <1>4 DEF Trusted, PasswordsAgree, FormFits
  <2>2. ASSUME NEW i \in DOMAIN inbox', LastValid(i)' PROVE Settles(i)'
    <3>1. i + 1 \in DOMAIN inbox /\ LastValid(i + 1)
      BY <1>1, <2>2, LastShift
    <3>2. Settles(i + 1)
      BY <1>1, <1>4, <3>1 DEF Trusted
    <3> QED
      BY <1>1, <2>2, <3>2, SettlesShift
  <2> QED
    BY <2>1, <2>2 DEF Trusted
<1>5. (pc = "none" => inbox = <<>>)'
  OBVIOUS
<1>6. (~doubt => Trusted)'
  BY <1>4
<1> QED
  BY <1>2, <1>3, <1>5, <1>6 DEF AccountInv, Trusted

LEMMA LoginStored ==
  ASSUME FCTypeOK, AccountInv, SetID
  PROVE  AccountInv'
<1>1. /\ Paired /\ FormOfCard /\ (~doubt => Trusted) /\ pc = "waiting" /\ Reading("setID")
      /\ page' = page /\ facebook' = facebook /\ doubt' = doubt /\ pc' = pc
  BY AccountParts DEF SetID, Reading
<1>2. card'.password = card.password /\ card'.waiting = inbox[1].pass
  <2>1. inbox[1].pass \in Passwords /\ Head(inbox) = inbox[1] /\ card \in Cards
    BY <1>1, ReadingTyped DEF FCTypeOK
  <2> QED
    BY <2>1, CardStored DEF SetID
<1>3. /\ \A a : Waiting(a)' => Waiting(a)
      /\ Paired' /\ Waiting("validPass")'
  <2>1. (\A a : Waiting(a)' => Waiting(a)) /\ Paired' /\ Is(1, "validPass")'
    BY <1>1, Shift
  <2> QED
    BY <2>1 DEF Is, Waiting
<1>4. FormOfCard'
  BY <1>1, <1>2, <1>3 DEF FormOfCard
<1>5. PasswordsAgree' /\ FormFits'
  BY <1>3 DEF PasswordsAgree, FormFits
<1>6. ASSUME ~doubt, NEW i \in DOMAIN inbox', LastValid(i)' PROVE Settles(i)'
  <2>1. i + 1 \in DOMAIN inbox /\ LastValid(i + 1)
    BY <1>1, <1>6, LastShift
  <2>2. Settles(i + 1)
    BY <1>1, <1>6, <2>1 DEF Trusted
  <2> QED
    BY <1>1, <1>2, <1>6, <2>2, SettlesShift
<1> QED
  BY <1>1, <1>3, <1>4, <1>5, <1>6 DEF AccountInv

LEMMA PasswordChanged ==
  ASSUME FCTypeOK, AccountInv, ModifPass
  PROVE  AccountInv'
<1>1. /\ Paired /\ FormOfCard /\ (~doubt => Trusted) /\ pc = "waiting" /\ Reading("modifPass")
      /\ facebook' = facebook /\ doubt' = doubt /\ pc' = pc
  BY AccountParts DEF ModifPass, Reading
<1>2. card'.password = card.password /\ card'.waiting = last + 1
  <2>1. card \in Cards /\ last + 1 \in Passwords
    BY FaceCryptAssumption DEF ModifPass, FCTypeOK, Passwords, Empty
  <2> QED
    BY <2>1, CardWaits DEF ModifPass
<1>3. page'.form = [old |-> card.password, new |-> last + 1]
  <2>1. page \in [popup : BOOLEAN, form : Forms, key : KeyStates]
    BY DEF FCTypeOK
  <2> QED
    BY <2>1 DEF ModifPass
<1>4. /\ \A a : Waiting(a)' => Waiting(a)
      /\ \A a : Waiting(a) => Waiting(a)' \/ a = "modifPass"
      /\ Paired' /\ Is(1, "modifPass")
  BY <1>1, Shift
<1>5. card.password # Empty
  BY <1>1, <1>4 DEF FormOfCard, Is, Waiting
<1>6. FormOfCard'
  BY <1>2, <1>5 DEF FormOfCard
<1>7. FormFits'
  BY <1>2, <1>3 DEF FormFits
<1>8. ~doubt => PasswordsAgree'
  BY <1>1, <1>2, <1>4 DEF Trusted, PasswordsAgree
<1>9. ASSUME ~doubt, NEW i \in DOMAIN inbox', LastValid(i)' PROVE Settles(i)'
  <2>1. i + 1 \in DOMAIN inbox /\ LastValid(i + 1)
    BY <1>1, <1>9, LastShift
  <2>2. Settles(i + 1)
    BY <1>1, <1>9, <2>1 DEF Trusted
  <2> QED
    BY <1>1, <1>9, <2>2, SettlesShift
<1> QED
  BY <1>1, <1>4, <1>6, <1>7, <1>8, <1>9 DEF AccountInv

LEMMA PasswordValidated ==
  ASSUME FCTypeOK, AccountInv, ValidPass
  PROVE  AccountInv'
<1>1. /\ Paired /\ FormOfCard /\ (~doubt => Trusted) /\ pc = "waiting" /\ Reading("validPass")
      /\ page' = page /\ facebook' = facebook /\ pc' = pc
  BY AccountParts DEF ValidPass, Reading
<1>2. /\ card.waiting = Empty => card' = card
      /\ card.waiting # Empty => card'.password = card.waiting
      /\ card'.waiting = Empty
      /\ card.password # Empty => card'.password # Empty
  <2>1. card \in Cards
    BY DEF FCTypeOK
  <2> QED
    BY <2>1, CardValidated DEF ValidPass
<1>3. ~doubt' => ~doubt /\ card.waiting # Empty
  <2>1. card.waiting = Empty => ~Operation(1, IF card.waiting = Empty THEN 0 ELSE 1)
    BY DEF Operation
  <2>2. doubt' = (doubt \/ ~Operation(1, IF card.waiting = Empty THEN 0 ELSE 1))
    BY Zenon DEF ValidPass
  <2> QED
    BY <2>1, <2>2, Zenon
<1>4. /\ \A a : Waiting(a)' => Waiting(a)
      /\ \A a : Waiting(a) => Waiting(a)' \/ a = "validPass"
      /\ Paired' /\ Is(1, "validPass")
      /\ \A j \in Nat : \A a : j >= 1 => (Is(j, a)' <=> Is(j + 1, a))
      /\ DOMAIN inbox \subseteq Nat \ {0}
  BY <1>1, Shift
<1>5. FormOfCard'
  BY <1>1, <1>2, <1>4 DEF FormOfCard
<1>6. FormFits'
  BY <1>2 DEF FormFits
<1>7. ASSUME ~doubt', ~Waiting("validPass")' PROVE card'.password = facebook'
  <2>1. LastValid(1)
    <3>1. ASSUME NEW j \in DOMAIN inbox, j > 1, Is(j, "validPass") PROVE FALSE
      <4>1. j - 1 \in Nat /\ j - 1 >= 1 /\ (j - 1) + 1 = j
        BY <1>4, <3>1
      <4>2. Is(j - 1, "validPass")'
        BY <1>4, <3>1, <4>1
      <4> QED
        BY <1>7, <4>2 DEF Is, Waiting
    <3> QED
      BY <1>4, <3>1 DEF LastValid
  <2>2. Settles(1) /\ 1 - 1 = 0
    BY <1>1, <1>3, <1>4, <1>7, <2>1 DEF Trusted, Is
  <2>3. ~Is(0, "setID") /\ \A j \in DOMAIN inbox : ~(j < 1)
    BY <1>4 DEF Is
  <2>4. card.waiting \in {facebook, Empty}
    BY <2>2, <2>3 DEF Settles
  <2> QED
    BY <1>1, <1>2, <1>3, <1>7, <2>4
<1>8. ASSUME ~doubt', NEW i \in DOMAIN inbox', LastValid(i)' PROVE Settles(i)'
  <2>1. i + 1 \in DOMAIN inbox /\ LastValid(i + 1)
    BY <1>1, <1>8, LastShift
  <2>2. Settles(i + 1)
    BY <1>1, <1>3, <1>8, <2>1 DEF Trusted
  <2> QED
    BY <1>1, <1>2, <1>8, <2>2, SettlesShift
<1>9. ~doubt' => PasswordsAgree'
  BY <1>7 DEF PasswordsAgree
<1> QED
  BY <1>1, <1>4, <1>5, <1>6, <1>8, <1>9 DEF AccountInv

\* What was done of a refused request leaves a password where there was one;
\* and the password itself, when the request is not a validation.
LEMMA PartlyKeeps ==
  ASSUME FCTypeOK, inbox # <<>>, NEW c \in Partly
  PROVE  /\ card.password # Empty => c.password # Empty
         /\ Head(inbox).action # "validPass" => c.password = card.password
<1>1. inbox \in Seq(Requests) /\ card \in Cards
  BY DEF FCTypeOK
<1>2. Head(inbox) \in Requests
  BY <1>1, TailAt
<1>3. Head(inbox).pass \in Passwords
  BY <1>2 DEF Requests
<1>4. Login(card).password = card.password /\ Store(card).password = card.password
  BY <1>1, <1>3, CardStored
<1>5. Waits(card).password = card.password
  BY <1>1 DEF Waits, Cards
<1>6. card.password # Empty => Validated(card).password # Empty
  BY <1>1, CardValidated
<1> QED
  BY <1>4, <1>5, <1>6 DEF Partly

LEMMA RequestRefused ==
  ASSUME FCTypeOK, AccountInv, NotStored
  PROVE  AccountInv'
<1>1. PICK action : Reading(action)
  BY DEF NotStored
<1>2. /\ Paired /\ FormOfCard /\ pc = "waiting" /\ inbox # <<>> /\ card' \in Partly
      /\ page' = page /\ pc' = pc
  BY AccountParts DEF NotStored, Reading
<1>d. doubt'
  <2>1. ~Operation(1, 0)
    BY DEF Operation
  <2> QED
    BY <2>1, Zenon DEF NotStored
<1>3. Paired' /\ \A a : Waiting(a)' => Waiting(a)
  BY <1>1, <1>2, Shift
<1>4. FormOfCard'
  BY <1>2, <1>3, PartlyKeeps DEF FormOfCard
<1> QED
  BY <1>2, <1>d, <1>3, <1>4 DEF AccountInv

\* The thread ends: what it leaves in its socket shows in doubt.
LEMMA ThreadEnds ==
  ASSUME FCTypeOK, AccountInv, SealNothing \/ Dies \/ Quit
  PROVE  AccountInv'
<1>1. /\ Paired /\ FormOfCard /\ (~doubt => Trusted)
      /\ pc' = "none" /\ inbox' = <<>> /\ page' = page /\ facebook' = facebook
      /\ doubt' = (doubt \/ Waiting("setID") \/ Waiting("validPass"))
  BY AccountParts DEF SealNothing, Dies, Quit, End
<1>2. /\ card.password # Empty => card'.password # Empty
      /\ ~doubt' => card'.password = card.password
  <2>1. CASE SealNothing \/ Quit \/ (Dies /\ pc # "waiting")
    BY <2>1 DEF SealNothing, Quit, Dies
  <2>2. CASE Dies /\ pc = "waiting"
    <3>1. inbox # <<>> /\ card' \in Partly
      BY <2>2 DEF Dies
    <3>2. Head(inbox) = inbox[1] /\ 1 \in DOMAIN inbox
      BY <3>1 DEF FCTypeOK
    <3>3. ~doubt' => Head(inbox).action # "validPass"
      BY <1>1, <3>2 DEF Waiting
    <3> QED
      BY <3>1, <3>3, PartlyKeeps
  <2> QED
    BY <2>1, <2>2
<1>3. DOMAIN inbox' = {} /\ \A a : ~Waiting(a)'
  BY <1>1 DEF Waiting
<1>4. Paired' /\ FormOfCard' /\ FormFits'
  BY <1>1, <1>2, <1>3 DEF Paired, FormOfCard, FormFits
<1>5. ~doubt' => PasswordsAgree'
  BY <1>1, <1>2, <1>3 DEF Trusted, PasswordsAgree
<1> QED
  BY <1>1, <1>3, <1>4, <1>5 DEF AccountInv

LEMMA ThreadComesAndGoes ==
  ASSUME FCTypeOK, AccountInv, HangUp \/ Connect
  PROVE  AccountInv'
<1>1. /\ inbox = <<>> /\ inbox' = <<>> /\ Paired /\ FormOfCard /\ (~doubt => Trusted)
      /\ UNCHANGED <<card, facebook, doubt>>
  BY AccountParts DEF HangUp, Connect, accountVars
<1>2. page'.form \in {page.form, NoForm} /\ (pc' = "none" \/ page'.form = NoForm)
  <2>1. CASE HangUp
    BY <2>1 DEF HangUp, accountVars
  <2>2. CASE Connect
    BY <2>2, PageFields, PostTyped DEF Connect, FCTypeOK
  <2> QED
    BY <2>1, <2>2
<1>3. DOMAIN inbox' = {} /\ (\A a : ~Waiting(a)') /\ \A a : ~Waiting(a)
  BY <1>1 DEF Waiting
<1>4. Paired' /\ FormOfCard' /\ FormFits'
  BY <1>1, <1>2, <1>3 DEF Paired, FormOfCard, FormFits
<1>5. ~doubt => PasswordsAgree'
  BY <1>1, <1>3 DEF Trusted, PasswordsAgree
<1> QED
  BY <1>1, <1>3, <1>4, <1>5 DEF AccountInv

\* A request written alone is behind the others.
LEMMA BehindOne ==
  ASSUME FCTypeOK, Paired, NEW action \in Actions \ {"setID"},
         NEW n \in Nat, n = Len(inbox), inbox' = inbox \o <<Request(action)>>
  PROVE  /\ DOMAIN inbox = 1..n /\ DOMAIN inbox' = 1..n + 1
         /\ \A i \in 1..n : inbox'[i] = inbox[i]
         /\ \A i \in 1..n : \A a : Is(i, a)' <=> Is(i, a)
         /\ \A a : Is(n + 1, a)' <=> a = action
         /\ \A a : Waiting(a)' <=> Waiting(a) \/ a = action
         /\ Paired' /\ ~Is(n, "setID") /\ ~Is(0, "setID")
<1>1. inbox \in Seq(Requests) /\ Request(action) \in Requests /\ Request(action).action = action
  BY RequestTyped DEF FCTypeOK
<1>2. /\ n \in Nat /\ DOMAIN inbox = 1..n /\ DOMAIN inbox' = 1..n + 1
      /\ \A i \in 1..n : inbox'[i] = inbox[i]
      /\ inbox'[n + 1] = Request(action)
  BY <1>1, WithOne
<1>3. \A i \in 1..n : \A a : Is(i, a)' <=> Is(i, a)
  BY <1>2 DEF Is
<1>4. \A a : Is(n + 1, a)' <=> a = action
  BY <1>1, <1>2 DEF Is
<1>5. \A a : Waiting(a)' <=> Waiting(a) \/ a = action
  <2> SUFFICES ASSUME NEW a PROVE Waiting(a)' <=> Waiting(a) \/ a = action
    OBVIOUS
  <2>1. ASSUME Waiting(a)' PROVE Waiting(a) \/ a = action
    <3>1. PICK i \in 1..n + 1 : inbox'[i].action = a
      BY <1>2, <2>1 DEF Waiting
    <3>2. i \in 1..n \/ i = n + 1
      BY <1>2
    <3> QED
      BY <3>1, <3>2, <1>1, <1>2 DEF Waiting
  <2>2. ASSUME Waiting(a) \/ a = action PROVE Waiting(a)'
    <3>1. n + 1 \in 1..n + 1
      BY <1>2
    <3>2. \A i \in 1..n : i \in 1..n + 1
      BY <1>2
    <3> QED
      BY <2>2, <3>1, <3>2, <1>1, <1>2 DEF Waiting
  <2> QED
    BY <2>1, <2>2
<1>6. ASSUME NEW i \in 1..n, Is(i, "setID") PROVE i + 1 \in 1..n /\ Is(i + 1, "validPass")
  BY <1>2, <1>6 DEF Paired, Is
<1>7. ~Is(n, "setID") /\ ~Is(0, "setID")
  <2>1. ~(n + 1 \in 1..n) /\ (n \in DOMAIN inbox => n \in 1..n) /\ ~(0 \in 1..n)
    BY <1>2
  <2> QED
    BY <2>1, <1>2, <1>6 DEF Is
<1>8. Paired'
  <2> SUFFICES ASSUME NEW i \in 1..n + 1, Is(i, "setID")' PROVE Is(i + 1, "validPass")'
    BY <1>2 DEF Paired
  <2>1. i \in 1..n
    <3>1. i # n + 1
      BY <1>4
    <3> QED
      BY <1>2, <3>1
  <2>2. i + 1 \in 1..n /\ Is(i + 1, "validPass")
    BY <1>3, <1>6, <2>1
  <2> QED
    BY <1>3, <2>2
<1> QED
  BY <1>2, <1>3, <1>4, <1>5, <1>7, <1>8

LEMMA Asked ==
  ASSUME FCTypeOK, AccountInv, NEW action \in Actions, Ask(action)
  PROVE  AccountInv'
<1> PICK n \in Nat : n = Len(inbox)
  BY DEF FCTypeOK
<1>1. /\ Paired /\ FormOfCard /\ (~doubt => Trusted) /\ pc # "none" /\ pc' = pc
      /\ UNCHANGED accountVars
      /\ action \in {"getID", "pubKey", "encrypt", "quit"} \/ (action = "modifPass" /\ LoggedIn)
  BY AccountParts DEF Ask
<1>2. card' = card /\ facebook' = facebook /\ page' = page /\ doubt' = doubt
  BY <1>1 DEF accountVars
<1>3. inbox' = inbox \o <<Request(action)>>
  BY <1>1 DEF Ask, Written
<1>4. action # "setID" /\ action # "validPass"
  BY <1>1
<1>5. /\ n \in Nat /\ DOMAIN inbox = 1..n /\ DOMAIN inbox' = 1..n + 1
      /\ \A i \in 1..n : inbox'[i] = inbox[i]
      /\ \A i \in 1..n : \A a : Is(i, a)' <=> Is(i, a)
      /\ \A a : Is(n + 1, a)' <=> a = action
      /\ \A a : Waiting(a)' <=> Waiting(a) \/ a = action
      /\ Paired' /\ ~Is(0, "setID")
  BY <1>1, <1>3, <1>4, BehindOne
<1>6. FormOfCard'
  BY <1>1, <1>2, <1>5 DEF FormOfCard, LoggedIn
<1>7. ASSUME ~doubt PROVE PasswordsAgree' /\ FormFits'
  BY <1>1, <1>2, <1>5, <1>7 DEF Trusted, PasswordsAgree, FormFits
<1>8. ASSUME ~doubt, NEW i \in DOMAIN inbox', LastValid(i)' PROVE Settles(i)'
  <2>1. i \in 1..n
    <3>1. Is(i, "validPass")'
      BY <1>8 DEF LastValid
    <3>2. i # n + 1
      BY <1>4, <1>5, <3>1
    <3> QED
      BY <1>5, <3>2
  <2>2. \A j \in 1..n : j \in 1..n + 1
    BY <1>5
  <2>3. LastValid(i)
    BY <1>5, <1>8, <2>1, <2>2 DEF LastValid
  <2>4. Settles(i)
    BY <1>1, <1>5, <1>8, <2>1, <2>3 DEF Trusted
  <2>5. i - 1 \in 1..n \/ i - 1 = 0
    BY <1>5, <2>1
  <2>6. /\ Is(i - 1, "setID")' <=> Is(i - 1, "setID")
        /\ Is(i - 1, "setID") => inbox'[i - 1] = inbox[i - 1]
    <3>1. CASE i - 1 = 0
      <4>1. ~Is(0, "setID")'
        BY <1>5 DEF Is
      <4> QED
        BY <3>1, <4>1, <1>5
    <3>2. CASE i - 1 \in 1..n
      BY <3>2, <1>5
    <3> QED
      BY <2>5, <3>1, <3>2
  <2>7. \A j \in DOMAIN inbox' : j < i => j \in 1..n
    BY <1>5, <2>1
  <2>8. CASE Is(i - 1, "setID") /\ inbox[i - 1].pass = facebook
    BY <1>2, <2>6, <2>8 DEF Settles
  <2>9. CASE ~(Is(i - 1, "setID") /\ inbox[i - 1].pass = facebook)
    <3>1. /\ ~Is(i - 1, "setID") /\ \A j \in DOMAIN inbox : j < i => ~Is(j, "modifPass")
          /\ \/ \E j \in DOMAIN inbox : j < i /\ Is(j, "validPass")
             \/ card.waiting \in {facebook, Empty}
      BY <2>4, <2>9 DEF Settles
    <3>2. ~Is(i - 1, "setID")' /\ \A j \in DOMAIN inbox' : j < i => ~Is(j, "modifPass")'
      BY <1>5, <2>6, <2>7, <3>1
    <3>3. \/ \E j \in DOMAIN inbox' : j < i /\ Is(j, "validPass")'
          \/ card'.waiting \in {facebook', Empty}
      BY <1>2, <1>5, <2>2, <3>1
    <3> QED
      BY <3>2, <3>3 DEF Settles
  <2> QED
    BY <2>8, <2>9
<1> QED
  BY <1>1, <1>2, <1>5, <1>6, <1>7, <1>8 DEF AccountInv

LEMMA Confirmed ==
  ASSUME FCTypeOK, AccountInv, Confirm
  PROVE  AccountInv'
<1> PICK n \in Nat : n = Len(inbox)
  BY DEF FCTypeOK
<1>1. /\ Paired /\ FormOfCard /\ (~doubt => Trusted) /\ (pc = "none" => inbox = <<>>)
      /\ page.form # NoForm /\ ~Waiting("modifPass")
      /\ card' = card /\ pc' = pc
      /\ facebook' = IF page.form.old = facebook THEN page.form.new ELSE facebook
  BY AccountParts DEF Confirm
<1>2. page'.form = NoForm
  BY PageFields, PostTyped DEF Confirm, FCTypeOK
<1>3. ~doubt' => ~doubt /\ pc # "none"
  BY Zenon DEF Confirm
<1>4. FormFits'
  BY <1>2 DEF FormFits
<1>5. CASE pc = "none"
  <2>1. inbox' = <<>> /\ doubt'
    BY <1>1, <1>3, <1>5 DEF Confirm, Written
  <2>2. DOMAIN inbox' = {} /\ \A a : ~Waiting(a)'
    BY <2>1 DEF Waiting
  <2>3. Paired' /\ FormOfCard'
    BY <1>2, <2>2 DEF Paired, FormOfCard
  <2> QED
    BY <2>1, <2>3 DEF AccountInv
<1>6. CASE pc # "none"
  <2>1. inbox' = inbox \o <<Request("validPass")>>
    BY <1>6 DEF Confirm, Written
  <2>2. /\ n \in Nat /\ DOMAIN inbox = 1..n /\ DOMAIN inbox' = 1..n + 1
        /\ \A i \in 1..n : inbox'[i] = inbox[i]
        /\ \A i \in 1..n : \A a : Is(i, a)' <=> Is(i, a)
        /\ \A a : Is(n + 1, a)' <=> a = "validPass"
        /\ \A a : Waiting(a)' <=> Waiting(a) \/ a = "validPass"
        /\ Paired' /\ ~Is(n, "setID") /\ ~Is(0, "setID")
    BY <1>1, <2>1, BehindOne DEF Actions
  <2>3. FormOfCard' /\ PasswordsAgree'
    BY <1>1, <1>2, <2>2 DEF FormOfCard, PasswordsAgree
  <2>4. ASSUME ~doubt, NEW i \in DOMAIN inbox', LastValid(i)' PROVE Settles(i)'
    <3>1. i = n + 1
      <4>1. n + 1 \in DOMAIN inbox' /\ Is(n + 1, "validPass")'
        BY <2>2
      <4>2. ~(n + 1 > i)
        BY <2>4, <4>1 DEF LastValid
      <4> QED
        BY <2>2, <4>2
    <3>2. i - 1 = n /\ \A j \in DOMAIN inbox' : j < i => j \in 1..n
      BY <2>2, <3>1
    <3>3. ~Is(i - 1, "setID")'
      <4>1. n = 0 \/ n \in 1..n
        BY <2>2
      <4>2. ~Is(0, "setID")'
        BY <2>2 DEF Is
      <4> QED
        BY <2>2, <3>2, <4>1, <4>2
    <3>4. ASSUME NEW j \in DOMAIN inbox', j < i PROVE ~Is(j, "modifPass")'
      BY <1>1, <2>2, <3>2, <3>4 DEF Is, Waiting
    <3>5. \/ \E j \in DOMAIN inbox' : j < i /\ Is(j, "validPass")'
          \/ card'.waiting \in {facebook', Empty}
      <4>1. CASE Waiting("validPass")
        <5>1. PICK j \in 1..n : inbox[j].action = "validPass"
          BY <2>2, <4>1 DEF Waiting
        <5>2. j \in 1..n + 1 /\ j < i /\ Is(j, "validPass")'
          BY <2>2, <3>1, <5>1 DEF Is
        <5> QED
          BY <2>2, <5>2
      <4>2. CASE ~Waiting("validPass")
        <5>1. card.password = facebook
          BY <1>1, <2>4, <4>2 DEF Trusted, FormOfCard, PasswordsAgree
        <5>2. card.waiting = Empty \/ page.form = [old |-> card.password, new |-> card.waiting]
          BY <1>1, <1>6, <2>4, <4>2 DEF Trusted, FormFits
        <5> QED
          BY <1>1, <5>1, <5>2
      <4> QED
        BY <4>1, <4>2
    <3> QED
      BY <3>3, <3>4, <3>5 DEF Settles
  <2> QED
    BY <1>1, <1>3, <1>4, <1>6, <2>2, <2>3, <2>4 DEF AccountInv
<1> QED
  BY <1>5, <1>6

\* The password typed is the account's, and its validation follows it.
LEMMA Submitted ==
  ASSUME FCTypeOK, AccountInv, SubmitID
  PROVE  AccountInv'
<1>1. /\ Paired /\ FormOfCard /\ (~doubt => Trusted) /\ (pc = "none" => inbox = <<>>)
      /\ card' = card /\ pc' = pc /\ facebook' = facebook
  BY AccountParts DEF SubmitID
<1>2. page'.form = page.form
  BY PageFields, PostTyped DEF SubmitID, FCTypeOK
<1>3. ~doubt' => ~doubt /\ pc # "none"
  BY Zenon DEF SubmitID
<1>4. CASE pc = "none"
  <2>1. inbox' = <<>> /\ doubt' /\ inbox = <<>>
    BY <1>1, <1>3, <1>4 DEF SubmitID, Written
  <2>2. DOMAIN inbox' = {} /\ \A a : ~Waiting(a)'
    BY <2>1 DEF Waiting
  <2>3. Paired' /\ FormOfCard'
    BY <1>1, <1>2, <2>2 DEF Paired, FormOfCard
  <2> QED
    BY <2>1, <2>3 DEF AccountInv
<1>5. CASE pc # "none"
  <2> PICK n \in Nat : n = Len(inbox)
    BY DEF FCTypeOK
  <2>1. inbox' = inbox \o <<SetIDRequest(facebook), Request("validPass")>>
    BY <1>5 DEF SubmitID, Written
  <2>2. /\ inbox \in Seq(Requests) /\ SetIDRequest(facebook) \in Requests
        /\ Request("validPass") \in Requests
        /\ SetIDRequest(facebook).action = "setID" /\ SetIDRequest(facebook).pass = facebook
        /\ Request("validPass").action = "validPass"
    BY RequestTyped DEF FCTypeOK, Actions
  <2>3. /\ DOMAIN inbox = 1..n /\ DOMAIN inbox' = 1..n + 2
        /\ \A i \in 1..n : inbox'[i] = inbox[i]
        /\ inbox'[n + 1] = SetIDRequest(facebook) /\ inbox'[n + 2] = Request("validPass")
    BY <2>1, <2>2, WithTwo
  <2>4. \A i \in 1..n : \A a : Is(i, a)' <=> Is(i, a)
    BY <2>3 DEF Is
  <2>5. /\ \A a : Is(n + 1, a)' <=> a = "setID"
        /\ \A a : Is(n + 2, a)' <=> a = "validPass"
    BY <2>2, <2>3 DEF Is
  <2>6. \A i \in 1..n + 2 : i \in 1..n \/ i = n + 1 \/ i = n + 2
    OBVIOUS
  <2>7. Paired'
    <3> SUFFICES ASSUME NEW i \in 1..n + 2, Is(i, "setID")' PROVE Is(i + 1, "validPass")'
      BY <2>3 DEF Paired
    <3>1. CASE i \in 1..n
      <4>1. Is(i + 1, "validPass")
        BY <1>1, <2>3, <2>4, <3>1 DEF Paired
      <4>2. i + 1 \in 1..n
        BY <2>3, <4>1 DEF Is
      <4> QED
        BY <2>4, <4>1, <4>2
    <3>2. CASE i = n + 1
      <4>1. i + 1 = n + 2
        BY <3>2
      <4> QED
        BY <2>5, <4>1
    <3>3. i # n + 2
      BY <2>5
    <3> QED
      BY <2>6, <3>1, <3>2, <3>3
  <2>8. Waiting("validPass")' /\ (Waiting("modifPass")' => Waiting("modifPass"))
    <3>1. n + 2 \in 1..n + 2
      OBVIOUS
    <3>2. Waiting("validPass")'
      BY <2>2, <2>3, <3>1 DEF Waiting
    <3>3. ASSUME NEW i \in 1..n + 2, inbox'[i].action = "modifPass" PROVE Waiting("modifPass")
      <4>1. i \in 1..n
        BY <2>2, <2>3, <2>6, <3>3
      <4> QED
        BY <2>3, <3>3, <4>1 DEF Waiting
    <3> QED
      BY <2>3, <3>2, <3>3 DEF Waiting
  <2>9. FormOfCard' /\ FormFits' /\ PasswordsAgree'
    BY <1>1, <1>2, <2>8 DEF FormOfCard, FormFits, PasswordsAgree
  <2>10. ASSUME NEW i \in DOMAIN inbox', LastValid(i)' PROVE Settles(i)'
    <3>1. n + 2 \in DOMAIN inbox' /\ Is(n + 2, "validPass")'
      BY <2>3, <2>5
    <3>2. ~(n + 2 > i)
      BY <2>10, <3>1 DEF LastValid
    <3>3. i - 1 = n + 1
      BY <2>3, <3>2
    <3>4. Is(i - 1, "setID")' /\ inbox'[i - 1].pass = facebook
      BY <2>2, <2>3, <2>5, <3>3
    <3> QED
      BY <1>1, <3>4 DEF Settles
  <2> QED
    BY <1>1, <1>5, <2>7, <2>9, <2>10 DEF AccountInv
<1> QED
  BY <1>4, <1>5

LEMMA InitAccount == Init => AccountInv
<1> SUFFICES ASSUME Init PROVE AccountInv
  OBVIOUS
<1>1. inbox = <<>> /\ page.form = NoForm /\ facebook = 1 /\ card.password \in {Empty, 1}
  BY DEF Init
<1>2. DOMAIN inbox = {} /\ \A a : ~Waiting(a)
  BY <1>1 DEF Waiting
<1> QED
  BY <1>1, <1>2 DEF AccountInv, Paired, FormOfCard, FormFits, PasswordsAgree

LEMMA AccountStep ==
  ASSUME FCTypeOK, AccountInv, [Next]_vars
  PROVE  AccountInv'
<1>1. CASE GetID
  <2>1. Reading("getID") /\ UNCHANGED <<card, facebook, doubt>> /\ pc' = pc /\ pc' # "none"
    BY <1>1 DEF GetID, Reading
  <2>2. page'.form = page.form
    BY <1>1, PageFields, PostTyped DEF GetID, FCTypeOK
  <2> QED
    BY <2>1, <2>2, ReadingKept
<1>2. CASE PubKey
  <2>1. Reading("pubKey") /\ UNCHANGED <<card, facebook, doubt>> /\ pc' = pc /\ pc' # "none"
    BY <1>2 DEF PubKey, Reading
  <2>2. page'.form = page.form
    BY <1>2, PageKey DEF PubKey, FCTypeOK, KeyStates
  <2> QED
    BY <2>1, <2>2, ReadingKept
<1>3. CASE \E chosen \in SeqOf(Lists, 2) : Encrypt(chosen)
  <2>1. Reading("encrypt") /\ UNCHANGED <<card, facebook, doubt, page>> /\ pc' # "none"
    BY <1>3 DEF Encrypt, accountVars
  <2> QED
    BY <2>1, ReadingKept
<1>4. CASE SetID \/ ModifPass \/ ValidPass \/ NotStored
  BY <1>4, LoginStored, PasswordChanged, PasswordValidated, RequestRefused
<1>5. CASE ExtractNames \/ AddAuthor \/ ExtractPubKey \/ AddOwnKey
           \/ \E anonymous \in BOOLEAN : Seal(anonymous)
  <2>1. UNCHANGED <<inbox, accountVars>> /\ pc' # "none" /\ pc # "none"
    BY <1>5 DEF ExtractNames, AddAuthor, ExtractPubKey, AddOwnKey, Seal
  <2> QED
    BY <2>1, AccountKept
<1>6. CASE SealNothing \/ Dies \/ Quit
  BY <1>6, ThreadEnds
<1>7. CASE HangUp \/ Connect
  BY <1>7, ThreadComesAndGoes
<1>8. CASE Browser
  <2>1. CASE \E action \in Actions : Ask(action)
    BY <2>1, Asked
  <2>2. CASE SubmitID
    BY <2>2, Submitted
  <2>3. CASE Confirm
    BY <2>3, Confirmed
  <2>4. CASE RemoveFriends \/ AddFriends \/ \E l \in Lists : SetList(l)
    <3>1. UNCHANGED <<inbox, accountVars>> /\ pc' = pc
      BY <2>4 DEF RemoveFriends, AddFriends, SetList
    <3> QED
      BY <3>1, AccountKept
  <2> QED
    BY <1>8, <2>1, <2>2, <2>3, <2>4 DEF Browser
<1>9. CASE UNCHANGED vars
  BY <1>9, AccountKept DEF vars
<1> QED
  BY <1>1, <1>2, <1>3, <1>4, <1>5, <1>6, <1>7, <1>8, <1>9 DEF Next

\* While no answer but "true" came, and none is missing, the card's password is
\* the account's (Client.requestSetID, requestModifPass, requestValidPass).
THEOREM PasswordsDoAgree == Spec => []PasswordsAgree
<1>1. Init => FCTypeOK /\ PostInv /\ AccountInv
  BY InitTyped, InitPost, InitAccount
<1>2. FCTypeOK /\ PostInv /\ AccountInv /\ [Next]_vars => (FCTypeOK /\ PostInv /\ AccountInv)'
  BY PostStep, AccountStep
<1>3. AccountInv => PasswordsAgree
  BY DEF AccountInv, PasswordsAgree
<1> QED
  BY <1>1, <1>2, <1>3, PTL DEF Spec
=============================================================================
