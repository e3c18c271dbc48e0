-------------------------- MODULE CardConnection --------------------------
(***************************************************************************)
(* The PC/SC plugin of the GlobalPlatform library: a context, a connection *)
(* to a card, and OPGP_PL_send_APDU, which turns one command into the      *)
(* exchanges the protocol of the card asks for.  Under T=0 the card may    *)
(* ask for another length (6C), announce data to be fetched (61, 9F), or   *)
(* answer 9000 before the data is fetched.                                 *)
(*                                                                         *)
(* Amounts of data are 0..Most, Most being the 256 bytes a length of zero  *)
(* stands for.                                                             *)
(***************************************************************************)
EXTENDS CardManager

CONSTANT Most, MaxFaults

ASSUME MostAssumption == Most \in Nat \ {0} /\ MaxFaults \in Nat

VARIABLES
  context,   \* "none", "open"
  handle,    \* the handle in cardInfo: "none", "open", "dead" (the card was reset), "stale" (its context released)
  xfer,      \* the command OPGP_PL_send_APDU is busy with
  pending,   \* card: data to be fetched, the status after it, whether it has named a length
  faults     \* exchanges that failed and resets by others so far

connVars == <<context, handle, xfer, pending, faults>>

Idle == [at |-> "idle"]
Nothing == <<"none", 0>>
NothingPending == [data |-> 0, sw |-> Nothing, told |-> 0]

ConnInit == context = "none" /\ handle = "none" /\ xfer = Idle /\ pending = NothingPending /\ faults = 0

\* A command on its way: le as OPGP_PL_send_APDU keeps it, get whether the last
\* exchange was a GET RESPONSE, sw the last status.  ran is the status the card
\* has executed the command with, heard the session it has then.
Begin(apdu) ==
  [at |-> "first", apdu |-> apdu, le |-> apdu.le, get |-> FALSE, sw |-> Nothing,
   ran |-> Nothing, heard |-> NoSession]

-----------------------------------------------------------------------------
(* The card's end of an exchange *)

Ok == <<"9000", 0>>
Wrong(n) == <<"6C", n>>
More(n) == <<"61", n>>
Less(n) == <<"9F", n>>
T0 == card.kind.protocol = "T0"

\* GET RESPONSE.  A card with nothing to be fetched refuses it: the class is
\* unknown to it, or it says anything else, of which 6D00 is one.
NoClass == <<"6E00", 0>>
NoInstruction == <<"6D00", 0>>
Fetch(p) ==
  IF pending.data = 0 THEN {[sw |-> s, pending |-> pending] : s \in {NoClass, NoInstruction}}
  ELSE {[sw |-> IF pending.data > p THEN More(pending.data - p) ELSE pending.sw,
         pending |-> [pending EXCEPT !.data = IF @ > p THEN @ - p ELSE 0]]}
       \cup When(pending.data # p /\ pending.told = 0,
                 [sw |-> Wrong(pending.data), pending |-> [pending EXCEPT !.told = pending.data]])

Left(n, sw) == [data |-> n, sw |-> sw, told |-> 0]
Named(n) == [data |-> 0, sw |-> Nothing, told |-> n]

\* Case 4 commands that always have an answer: under T=0 it is to be fetched.
Answering == {"init_update", "get_status"}

\* How a card may tell, in its first answer, that the command ended with sw.
Tell(sw, ins, case, p) ==
  When(~(T0 /\ case = 4 /\ ins \in Answering /\ sw \in {Ok, <<"6310", 0>>}),
       [sw |-> sw, pending |-> NothingPending])
  \cup (IF sw \notin {Ok, <<"6310", 0>>} \/ pending.told # 0 THEN {}
        ELSE IF case = 3 THEN {[sw |-> More(n), pending |-> Left(n, sw)] : n \in 1..Most}
        ELSE IF case = 2 /\ T0
        THEN {[sw |-> More(n), pending |-> Left(n, sw)] : n \in 1..Most \ {p}}
        ELSE IF case = 4 /\ T0
        THEN {[sw |-> s, pending |-> Left(n, sw)] : s \in UNION {{More(n), Less(n), sw} : n \in 1..Most}, n \in 1..Most}
        ELSE {})

\* The command itself; under T=0 a case 2 command may be aborted, once, because
\* of its length.
Run(a, p) ==
  (UNION {{[sw |-> t.sw, pending |-> t.pending, card |-> r.card, ran |-> r.sw] : t \in Tell(r.sw, a.ins, a.case, p)} :
            r \in Execute(a)})
  \cup {[sw |-> Wrong(n), pending |-> Named(n), card |-> card, ran |-> Nothing] :
          n \in IF T0 /\ a.case = 2 /\ pending.told = 0 THEN 1..Most \ {p} ELSE {}}

-----------------------------------------------------------------------------
(* SCardTransmit *)

\* What the plugin makes of an exchange is in xfer: z is what it makes of the
\* answer r.  An exchange fails before or after the card has done its part, for
\* a fault of the line, and always on a handle whose card has been reset.
Failed ==
  /\ handle # "open" \/ faults < MaxFaults
  /\ faults' = IF handle # "open" THEN faults ELSE faults + 1
  /\ xfer' = [xfer EXCEPT !.at = "failed"]
  /\ UNCHANGED <<card, pending, context, handle>>

Answered(r, z, get) ==
  /\ handle = "open" /\ UNCHANGED <<context, handle>>
  /\ card' = r.card /\ pending' = r.pending
  /\ LET x == [z EXCEPT !.get = get, !.ran = r.ran, !.heard = IF get THEN xfer.heard ELSE r.card.session] IN
     \/ xfer' = x /\ UNCHANGED faults
     \/ faults < MaxFaults /\ faults' = faults + 1 /\ xfer' = [x EXCEPT !.at = "failed"]

\* GET RESPONSE runs no command.
FetchedSet(p) == {[sw |-> f.sw, pending |-> f.pending, card |-> card, ran |-> xfer.ran] : f \in Fetch(p)}

-----------------------------------------------------------------------------
(* OPGP_PL_send_APDU: one action per exchange *)

\* Whether the loop over the status goes on; a 61 that is left is fetched once.
LoopsOn == {"61", "6C"} \cup (IF xfer.apdu.case = 4 THEN {"9F"} ELSE {})
Ending(sw) == [xfer EXCEPT !.sw = sw, !.at = IF sw[1] = "61" THEN "tail" ELSE "done"]
Looping(sw) == IF sw[1] \in LoopsOn THEN [xfer EXCEPT !.sw = sw, !.at = "loop"] ELSE Ending(sw)

\* Under T=1 the first exchange is the only one, unless there is a 61.
FirstAfter(sw) ==
  CASE T0 /\ xfer.apdu.case = 2 -> Looping(sw)
    [] T0 /\ xfer.apdu.case = 4 -> IF sw[1] \in {"61", "9000", "9F"}
                                   THEN [xfer EXCEPT !.sw = sw, !.at = "get"] ELSE Looping(sw)
    [] OTHER -> Ending(sw)
First ==
  /\ xfer.at = "first"
  /\ Failed \/ \E r \in Run(xfer.apdu, xfer.le) : Answered(r, FirstAfter(r.sw), FALSE)

\* A case 4 command that is through: GET RESPONSE asks for what is there, of
\* what is wanted.  To a card that does not know the class of GET RESPONSE
\* there is nothing more to say: its first answer is restored.
Wanted == IF xfer.sw # Ok /\ xfer.sw[2] < xfer.le THEN xfer.sw[2] ELSE xfer.le
Restored(sw) == IF sw = NoClass THEN xfer.sw ELSE sw

\* Mutant: the answer to GET RESPONSE is the answer to the command.
GetResponseOnly ==
  /\ xfer.at = "get"
  /\ Failed \/ \E r \in FetchedSet(Wanted) : Answered(r, [Looping(r.sw) EXCEPT !.le = Wanted], TRUE)

GetResponse ==
  /\ xfer.at = "get"
  /\ Failed \/ \E r \in FetchedSet(Wanted) : Answered(r, [Looping(Restored(r.sw)) EXCEPT !.le = Wanted], TRUE)

\* 6C: the same again, with the length the card names; what is more than was
\* wanted is cut off.
AgainAfter(sw) ==
  IF xfer.le < xfer.sw[2] THEN Ending(sw) ELSE [Looping(sw) EXCEPT !.le = xfer.sw[2]]
AskAgain ==
  /\ xfer.at = "loop" /\ xfer.sw[1] = "6C"
  /\ \/ Failed
     \/ \E r \in IF xfer.get THEN FetchedSet(xfer.sw[2]) ELSE Run(xfer.apdu, xfer.sw[2]) :
          Answered(r, AgainAfter(r.sw), xfer.get)

\* 61 or 9F: the rest of the data.
FetchMore ==
  /\ xfer.at = "loop" /\ xfer.sw[1] # "6C"
  /\ Failed \/ \E r \in FetchedSet(xfer.sw[2]) : Answered(r, [Looping(r.sw) EXCEPT !.le = xfer.sw[2]], TRUE)

\* A command without an answer that has one.
FetchAnswer ==
  /\ xfer.at = "tail"
  /\ Failed \/ \E r \in FetchedSet(xfer.sw[2]) : Answered(r, [xfer EXCEPT !.sw = r.sw, !.at = "done"], TRUE)

SendAPDU == First \/ GetResponse \/ AskAgain \/ FetchMore \/ FetchAnswer

-----------------------------------------------------------------------------
(* The connection *)

\* Another program resets the card: pcscd refuses every command on our handle
\* from then on.
ResetByOther ==
  /\ faults < MaxFaults
  /\ faults' = faults + 1
  /\ card' = Reset(card) /\ pending' = NothingPending
  /\ handle' = IF handle = "open" THEN "dead" ELSE handle
  /\ UNCHANGED <<context, xfer>>

\* OPGP_PL_establish_context; an earlier context is released first, and pcscd
\* resets the card of a connection it still has.
DropHandle ==
  /\ handle' = IF handle = "none" THEN "none" ELSE "stale"
  /\ card' = IF handle = "open" THEN Reset(card) ELSE card
EstablishContext == context' = "open" /\ DropHandle
ReleaseContext == context' = "none" /\ DropHandle

\* OPGP_PL_card_connect: in shared mode, of a card that keeps its state.  A
\* handle there was before is left to the context.
CardConnect == handle' = "open" /\ UNCHANGED <<context, card>>

\* OPGP_PL_card_disconnect resets the card.
CardDisconnect ==
  /\ handle' = "none"
  /\ card' = IF handle = "open" THEN Reset(card) ELSE card
  /\ UNCHANGED context
=============================================================================
