------------------------------ MODULE FaceCrypt ------------------------------
(***************************************************************************)
(* What a thread of FaceCrypt does for the account and the posts of its    *)
(* user: the loop of ProcessusSockSSL for the actions "getID", "setID",    *)
(* "modifPass", "validPass", "pubKey" and "encrypt" of the browser         *)
(* extension, and Client's requests to SoftCardServer.                     *)
(*                                                                         *)
(* The card keeps the password in force and the one that waits to be       *)
(* validated; SoftCardServer answers a request, or an error of one byte    *)
(* after any part of it was done, or not at all.  The extension writes its *)
(* requests without waiting for the answers; an answer acts on its pages   *)
(* as soon as it is sent.  The extension and the thread share the database *)
(* of friends.                                                             *)
(***************************************************************************)
EXTENDS Naturals, SequencesExt  \* and FiniteSets, Functions

CONSTANTS Friends, Lists,   \* the people and the lists of the database
          Me, Nobody,       \* the user; the login of a new card
          MaxPasswords,     \* bound: the passwords of the account's life
          MaxWaiting,       \* bound: requests written and not read yet
          MaxFaults,        \* bound: requests the card does not serve
          MaxEdits          \* bound: changes of the database

VARIABLES
  pc,        \* where the thread is; "none" when no thread reads the socket
  inbox,     \* the requests of the browser, oldest first
  card,      \* the login, the password and the password that waits
  facebook,  \* the password of the account
  page,      \* what the answers have put on the pages
  doubt,     \* for the properties: an answer was not "true", or is missing
  last,      \* the last password made
  friends, lists,  \* the database: the state of each key, who is in a list
  todo, names, keys,  \* encrypt: the lists to read, the readers, their keys
  asked,     \* for the properties: who was in the lists of the post
  post,      \* the post of the last answer
  faults, edits

accountVars == <<card, facebook, page, doubt, last>>
baseVars == <<friends, lists, edits>>
localVars == <<todo, names, keys, asked>>
postVars == <<localVars, post>>
vars == <<pc, inbox, accountVars, baseVars, postVars, faults>>

Empty == 0            \* no password
Passwords == Empty..MaxPasswords
NoForm == [old |-> Empty, new |-> Empty]
NoPost == [boxes |-> <<>>, text |-> FALSE, readers |-> {}]
Actions == {"getID", "setID", "modifPass", "validPass", "pubKey", "encrypt", "quit"}

\* A request; "setID" comes with the password the user has typed.
Request(action) == [action |-> action, pass |-> Empty]
SetIDRequest(password) == [action |-> "setID", pass |-> password]
Waiting(action) == \E i \in DOMAIN inbox : inbox[i].action = action

\* A friend's key in the database: none, one that is no key, or the friend's.
KeyStates == {"none", "unusable", "good"}

ASSUME FaceCryptAssumption ==
  /\ IsFiniteSet(Friends) /\ Friends \cap (KeyStates \cup {Me, Nobody}) = {}
  /\ {Me, Nobody} \cap KeyStates = {} /\ Me # Nobody
  /\ MaxPasswords \in Nat \ {0} /\ MaxWaiting \in Nat
  /\ MaxFaults \in Nat /\ MaxEdits \in Nat

\* The card is new, or has been used; the account has its first password.
Init ==
  /\ card \in {[login |-> Nobody, password |-> Empty, waiting |-> Empty],
               [login |-> Me, password |-> 1, waiting |-> Empty]}
  /\ facebook = 1 /\ last = 1 /\ doubt = FALSE
  /\ pc = "none" /\ inbox = <<>>
  /\ page = [popup |-> FALSE, form |-> NoForm, key |-> "none"]
  /\ friends = [f \in Friends |-> "none"] /\ lists = [l \in Lists |-> {}]
  /\ names = <<>> /\ keys = <<>> /\ asked = {} /\ post = NoPost /\ todo = <<>>
  /\ faults = 0 /\ edits = 0

Reading(action) ==
  /\ pc = "waiting" /\ inbox # <<>> /\ Head(inbox).action = action
  /\ inbox' = Tail(inbox) /\ post' = NoPost

Fault == faults < MaxFaults /\ faults' = faults + 1

\* The thread ends; what was written to its socket is not read any more.
End ==
  /\ pc' = "none" /\ inbox' = <<>>
  /\ doubt' = (doubt \/ Waiting("setID") \/ Waiting("validPass"))

(***************************************************************************)
(* The account                                                             *)
(***************************************************************************)
\* RETRIEVE_CRED, for the login page: the popup asks for the IDs when nothing
\* follows the separator.
GetID ==
  /\ Reading("getID")
  /\ page' = [page EXCEPT !.popup = card.password = Empty]
  /\ UNCHANGED <<pc, card, facebook, doubt, last, baseVars, localVars, faults>>

\* STORE_CREDENTIALS: the login, then the password, which waits.
Login(c) == [c EXCEPT !.login = Me]
Store(c) == [Login(c) EXCEPT !.waiting = Head(inbox).pass]

SetID ==
  /\ Reading("setID")
  /\ card' = Store(card)
  /\ UNCHANGED <<pc, facebook, page, doubt, last, baseVars, localVars, faults>>

\* RESET_PWD: a new password waits, and fills the form with the old one.
Waits(c) == [c EXCEPT !.waiting = last + 1]

ModifPass ==
  /\ Reading("modifPass") /\ last < MaxPasswords
  /\ last' = last + 1 /\ card' = Waits(card)
  /\ page' = [page EXCEPT !.form = [old |-> card.password, new |-> last + 1]]
  /\ UNCHANGED <<pc, facebook, doubt, baseVars, localVars, faults>>

\* VALIDATE_PWD: what waits is in force; the card says no when nothing waits.
Validated(c) ==
  IF c.waiting = Empty THEN c ELSE [c EXCEPT !.password = c.waiting, !.waiting = Empty]

\* The answer is "true" for a single byte that is 1.
\* Mutant: for any single byte.
OperationOfOneByte(length, byte) == length = 1
Operation(length, byte) == length = 1 /\ byte = 1

ValidPass ==
  /\ Reading("validPass")
  /\ card' = Validated(card)
  /\ doubt' = (doubt \/ ~Operation(1, IF card.waiting = Empty THEN 0 ELSE 1))
  /\ UNCHANGED <<pc, facebook, page, last, baseVars, localVars, faults>>

\* What SoftCardServer may have done of a request it does not serve.
Partly ==
  {card} \cup CASE Head(inbox).action = "setID" -> {Login(card), Store(card)}
                [] Head(inbox).action = "modifPass" -> {Waits(card)}
                [] Head(inbox).action = "validPass" -> {Validated(card)}
                [] OTHER -> {}

\* An error for setID or validPass is answered "false"; so is a validation
\* that SoftCard started over when it was done, and the card then refused.
NotStored ==
  /\ Reading("setID") \/ Reading("validPass")
  /\ doubt' = (doubt \/ ~Operation(1, 0))
  /\ Fault /\ card' \in Partly
  /\ UNCHANGED <<pc, facebook, page, last, baseVars, localVars>>

\* GET_KEY for the profile; an error of one byte is published like a key.
PubKey ==
  /\ Reading("pubKey")
  /\ \/ page' = [page EXCEPT !.key = "good"] /\ UNCHANGED faults
     \/ page' = [page EXCEPT !.key = "unusable"] /\ Fault
  /\ UNCHANGED <<pc, card, facebook, doubt, last, baseVars, localVars>>

(***************************************************************************)
(* The posts                                                               *)
(***************************************************************************)
\* The variables of an action are its own.
Forget == todo' = <<>> /\ names' = <<>> /\ keys' = <<>> /\ asked' = {}

\* The database is the one of the card's login.
Members(l) == IF card.login = Me THEN lists[l] ELSE {}

Encrypt(chosen) ==
  /\ Reading("encrypt")
  /\ pc' = "listing" /\ todo' = chosen
  /\ UNCHANGED <<accountVars, baseVars, names, keys, asked, faults>>

\* extractNames, list by list: a name is not added twice.
\* Mutant: it is.
NewNamesAll(members) == SetToSeq(members)
NewNames(members) == SetToSeq(members \ Range(names))

ExtractNames ==
  /\ pc = "listing" /\ todo # <<>>
  /\ names' = names \o NewNames(Members(Head(todo)))
  /\ asked' = asked \cup Members(Head(todo))
  /\ todo' = Tail(todo)
  /\ UNCHANGED <<pc, inbox, accountVars, baseVars, keys, post, faults>>

AddAuthor ==
  /\ pc = "listing" /\ todo = <<>>
  /\ names' = Append(names, card.login) /\ pc' = "keying"
  /\ UNCHANGED <<inbox, accountVars, baseVars, todo, keys, asked, post, faults>>

\* extractPubKeys, friend by friend; the last name is the author's, whose key
\* is asked of the card.
ExtractPubKey ==
  /\ pc = "keying" /\ Len(keys) < Len(names) - 1
  /\ LET friend == names[Len(keys) + 1] IN
     keys' = Append(keys, IF friends[friend] = "good" THEN friend ELSE friends[friend])
  /\ UNCHANGED <<pc, inbox, accountVars, baseVars, todo, names, asked, post, faults>>

AddOwnKey ==
  /\ pc = "keying" /\ Len(keys) = Len(names) - 1
  /\ \/ keys' = Append(keys, Me) /\ UNCHANGED faults
     \/ keys' = Append(keys, "unusable") /\ Fault
  /\ pc' = "sealing"
  /\ UNCHANGED <<inbox, accountVars, baseVars, todo, names, asked, post>>

\* The keys before which encryptPubKeys stops, and what it has when it does
\* not: a box for each key, with the name of its reader or without.
Unfit == {i \in 1..Len(keys) : keys[i] \in KeyStates}
Boxes(anonymous) ==
  [i \in 1..Len(keys) |-> [name |-> IF anonymous THEN Nobody ELSE names[i], key |-> keys[i]]]

\* requestEncrypt: no box is kept when a key is refused, and the post is sent
\* with its text alone.  Without a message key the text is missing.
Seal(anonymous) ==
  /\ pc = "sealing"
  /\ Unfit # {} => keys[Min(Unfit)] # "none"
  /\ \E text \in BOOLEAN :
       /\ IF text THEN UNCHANGED faults ELSE Fault
       /\ post' = [boxes |-> IF Unfit = {} THEN Boxes(anonymous) ELSE <<>>,
                   text |-> text, readers |-> asked]
  /\ pc' = "waiting" /\ Forget
  /\ UNCHANGED <<inbox, accountVars, baseVars>>

\* The key of a friend who is not in the database is null: an exception.
SealNothing ==
  /\ pc = "sealing" /\ Unfit # {} /\ keys[Min(Unfit)] = "none"
  /\ End /\ Forget
  /\ UNCHANGED <<card, facebook, page, last, baseVars, post, faults>>

(***************************************************************************)
(* The thread and its browser                                              *)
(***************************************************************************)
\* An error where a login is expected makes an array of negative length; an
\* answer that does not come is null; the database may not open.
Dies ==
  /\ pc # "none" /\ Fault /\ End /\ Forget
  /\ IF pc = "waiting" THEN inbox # <<>> /\ card' \in Partly ELSE UNCHANGED card
  /\ last' = IF card'.waiting = last + 1 THEN last + 1 ELSE last
  /\ last' <= MaxPasswords
  /\ UNCHANGED <<facebook, page, baseVars, post>>

Quit ==
  /\ pc = "waiting" /\ inbox # <<>> /\ Head(inbox).action = "quit"
  /\ End
  /\ UNCHANGED <<card, facebook, page, last, baseVars, postVars, faults>>

\* The end of the connection: the thread goes on without it.
HangUp ==
  /\ pc = "waiting" /\ inbox = <<>>
  /\ pc' = "none"
  /\ UNCHANGED <<inbox, accountVars, baseVars, postVars, faults>>

\* A browser starts, and its thread with it.
Connect ==
  /\ pc = "none"
  /\ pc' = "waiting" /\ page' = [page EXCEPT !.popup = FALSE, !.form = NoForm]
  /\ UNCHANGED <<inbox, card, facebook, doubt, last, baseVars, postVars, faults>>

Written(requests) ==
  /\ Len(inbox) + Len(requests) <= MaxWaiting
  /\ inbox' = IF pc = "none" THEN inbox ELSE inbox \o requests

\* The user changes the password only when the card has logged him in.
LoggedIn == card.login = Me /\ card.password # Empty

Ask(action) ==
  /\ action \in {"getID", "pubKey", "encrypt", "quit"} \/ (action = "modifPass" /\ LoggedIn)
  /\ pc # "none" /\ Written(<<Request(action)>>)
  /\ UNCHANGED <<pc, accountVars, baseVars, postVars, faults>>

SubmitID ==
  /\ page.popup /\ Written(<<SetIDRequest(facebook), Request("validPass")>>)
  /\ page' = [page EXCEPT !.popup = FALSE]
  /\ doubt' = (doubt \/ pc = "none")
  /\ UNCHANGED <<pc, card, facebook, last, baseVars, postVars, faults>>

\* The user waits for the form.  The account takes the new password with the
\* right old one; the extension does not look.
Confirm ==
  /\ page.form # NoForm /\ ~Waiting("modifPass")
  /\ Written(<<Request("validPass")>>)
  /\ facebook' = IF page.form.old = facebook THEN page.form.new ELSE facebook
  /\ page' = [page EXCEPT !.form = NoForm]
  /\ doubt' = (doubt \/ pc = "none")
  /\ UNCHANGED <<pc, card, last, baseVars, postVars, faults>>

Edit == edits < MaxEdits /\ edits' = edits + 1

\* The friends are read again: all are removed, and with them what the lists
\* hold, and those found come back.
RemoveFriends ==
  /\ Edit
  /\ friends' = [f \in Friends |-> "none"] /\ lists' = [l \in Lists |-> {}]
  /\ UNCHANGED <<pc, inbox, accountVars, postVars, faults>>

AddFriends ==
  /\ Edit /\ \A f \in Friends : friends[f] = "none"
  /\ friends' \in [Friends -> KeyStates]
  /\ UNCHANGED <<pc, inbox, accountVars, lists, postVars, faults>>

SetList(l) ==
  /\ Edit
  /\ \E members \in SUBSET {f \in Friends : friends[f] # "none"} :
       lists' = [lists EXCEPT ![l] = members]
  /\ UNCHANGED <<pc, inbox, accountVars, friends, postVars, faults>>

Browser ==
  \/ \E action \in Actions : Ask(action)
  \/ SubmitID \/ Confirm \/ RemoveFriends \/ AddFriends
  \/ \E l \in Lists : SetList(l)

Next ==
  \/ GetID \/ SetID \/ ModifPass \/ ValidPass \/ NotStored \/ PubKey
  \/ \E chosen \in SeqOf(Lists, 2) : Encrypt(chosen)
  \/ ExtractNames \/ AddAuthor \/ ExtractPubKey \/ AddOwnKey
  \/ \E anonymous \in BOOLEAN : Seal(anonymous)
  \/ SealNothing \/ Dies \/ Quit \/ HangUp \/ Connect \/ Browser

Spec == Init /\ [][Next]_vars

-----------------------------------------------------------------------------
\* While every "setID" and "validPass" has been answered "true", the card's
\* password is the account's: a loss shows in an answer, or in a missing one
\* (Client.requestValidPass, requestModifPass, requestSetID).
PasswordsAgree ==
  ~doubt /\ ~Waiting("validPass") /\ card.password # Empty
    => card.password = facebook

\* A post is for the members of the lists it was made for and its author, once
\* each, every box with its reader's key; or it has no box at all
\* (ProcessusSockSSL.extractNames, extractPubKeys, Client.encryptPubKeys).
PostForItsReaders ==
  post # NoPost /\ post.boxes # <<>> =>
    /\ {post.boxes[i].key : i \in DOMAIN post.boxes} = post.readers \cup {Me}
    /\ \A i \in DOMAIN post.boxes : LET box == post.boxes[i] IN
         /\ box.name \in Friends => box.name = box.key
         /\ \A j \in DOMAIN post.boxes : post.boxes[j].key = box.key => j = i
=============================================================================
