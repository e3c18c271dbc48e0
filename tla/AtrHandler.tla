----------------------------- MODULE AtrHandler -----------------------------
(***************************************************************************)
(* What pcscd reads in a card's answer to reset (atrhandler.c) and how it  *)
(* chooses the protocol of a connection (prothandler.c).                   *)
(*                                                                         *)
(* An ATR is a sequence of bytes.  A set of protocols stands for the       *)
(* bit mask of SCARD_PROTOCOL_* values.                                    *)
(***************************************************************************)
EXTENDS Integers, Sequences

MAX_ATR_SIZE == 33

UNDEFINED == "UNDEFINED"

Bit(byte, k) == (byte \div 2^k) % 2

\* cardAtr is an array of MAX_ATR_SIZE bytes; what follows the ATR in it is
\* taken to be zero, as after the memset of a reader's state.
Byte(atr, p) == IF p < Len(atr) THEN atr[p + 1] ELSE 0

ProtocolOf(T) == CASE T = 0 -> {"T0"} [] T = 1 -> {"T1"} [] T = 15 -> {"T15"} [] OTHER -> {}

\* Before the loop: T0 has been read.
AtrStart(atr) ==
  [i |-> 1, p |-> 2, Y1i |-> Byte(atr, 1) \div 16,
   available |-> {}, current |-> UNDEFINED, more |-> TRUE, ok |-> TRUE]

AtrError(s) == [s EXCEPT !.more = FALSE, !.ok = FALSE]

\* The protocol of a TDi: the first one says which protocol is current, and
\* only T=0 and T=1 can be.
ReadTD(s, TDi) ==
  LET T == TDi % 16
      next == [s EXCEPT !.Y1i = TDi \div 16, !.available = @ \cup ProtocolOf(T)]
  IN  IF s.current # UNDEFINED THEN next
      ELSE IF T \in {0, 1} THEN [next EXCEPT !.current = IF T = 0 THEN "T0" ELSE "T1"]
      ELSE AtrError([s EXCEPT !.Y1i = TDi \div 16])

\* Mutant: the first TA is taken for TA2.
ReadTA1(s, TAi) ==
  IF ~s.ok \/ s.i # 1 THEN s
  ELSE IF TAi % 16 \in {0, 1}
       THEN [s EXCEPT !.available = ProtocolOf(TAi % 16),
                      !.current = IF TAi % 16 = 0 THEN "T0" ELSE "T1"]
       ELSE AtrError(s)

\* TA2 puts the card in its specific mode: one protocol and no other.
ReadTA2(s, TAi) ==
  IF ~s.ok \/ s.i # 2 THEN s
  ELSE IF TAi % 16 \in {0, 1}
       THEN [s EXCEPT !.available = ProtocolOf(TAi % 16),
                      !.current = IF TAi % 16 = 0 THEN "T0" ELSE "T1"]
       ELSE AtrError(s)

\* One round of the loop: the interface bytes TAi to TDi that Y1i announces.
InterfaceBytes(atr, s) ==
  LET has(k) == Bit(s.Y1i, k) = 1
      pD == s.p + Bit(s.Y1i, 0) + Bit(s.Y1i, 1) + Bit(s.Y1i, 2)
      read == [s EXCEPT !.p = pD + Bit(s.Y1i, 3)]
      afterTD == IF has(3) THEN ReadTD(read, Byte(atr, pD)) ELSE [read EXCEPT !.Y1i = 0]
      afterTA == IF has(0) THEN ReadTA2(afterTD, Byte(atr, s.p)) ELSE afterTD
  IN  IF ~afterTA.ok THEN afterTA
      ELSE IF afterTA.p > MAX_ATR_SIZE THEN AtrError(afterTA)
      ELSE [afterTA EXCEPT !.i = @ + 1, !.more = (afterTA.Y1i # 0)]

\* Every round but the last reads a byte, so MAX_ATR_SIZE rounds are enough.
AtrRounds(atr) ==
  LET round[n \in 0..MAX_ATR_SIZE] ==
        IF n = 0 THEN AtrStart(atr)
        ELSE LET s == round[n - 1] IN IF s.more THEN InterfaceBytes(atr, s) ELSE s
  IN  round[MAX_ATR_SIZE]

\* The two masks the function leaves, and its result.  Nobody reads the
\* result; "set" is FALSE when the masks have not been written at all.
ATRDecodeAtr(atr) ==
  IF Len(atr) < 2
  THEN [set |-> FALSE, ok |-> FALSE, available |-> {}, current |-> UNDEFINED]
  ELSE IF atr[1] \notin {63, 59}
  THEN [set |-> TRUE, ok |-> FALSE, available |-> {}, current |-> UNDEFINED]
  ELSE LET s == AtrRounds(atr)
           none == s.ok /\ s.current = UNDEFINED
       IN  [set |-> TRUE, ok |-> s.ok,
            available |-> IF none THEN s.available \cup {"T0"} ELSE s.available,
            current |-> IF none THEN "T0" ELSE s.current]

\* PHSetProtocol: T=1 first, then T=0, among what the caller wants and the
\* card has; pts is what the driver answers to IFDSetPTS.
PPS_FAILED == "PPS_FAILED"
WRONG_ARGUMENT == "WRONG_ARGUMENT"

ChosenProtocol(preferred, available) ==
  IF "T1" \in preferred \cap available THEN "T1"
  ELSE IF "T0" \in preferred \cap available THEN "T0"
  ELSE WRONG_ARGUMENT

PHSetProtocol(preferred, available, default, pts) ==
  LET chosen == ChosenProtocol(preferred, available)
  IN  IF chosen = WRONG_ARGUMENT THEN WRONG_ARGUMENT
      ELSE CASE pts = "SUCCESS" -> chosen
             [] pts = "NOT_SUPPORTED" -> default
             [] OTHER -> PPS_FAILED
=============================================================================
