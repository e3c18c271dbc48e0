------------------------- MODULE MCResourceManager -------------------------
(***************************************************************************)
(* Small readers for TLC: two applications, and a card that offers both    *)
(* protocols.                                                              *)
(***************************************************************************)
EXTENDS ResourceManager, TLC

\* TS, T0 with TD1, TD1 = T=0 with TD2, TD2 = T=1, no more.
BothProtocols == <<59, 128, 128, 1>>

MCAtrs == {BothProtocols}
MCPreferences == {{"T0", "T1"}}
Symmetry == Permutations(Clients) \cup Permutations(Handles)

\* stale is only looked at until the calls have overlapped.
MCView == <<readerVars, threadVars, statusVars, slotVars, overlapped, txn,
            IF overlapped THEN {} ELSE stale>>

\* Once calls have overlapped, a reader that fails and a lock taken twice are
\* not followed any further, and no new card comes.
MCConstraint == overlapped => dwCurrentState # "UNKNOWN" /\ LockCount <= 1
MCNoNewCard == overlapped => inserted' \in {inserted, NoAtr}
-----------------------------------------------------------------------------
(***************************************************************************)
(* The reading of an ATR, on every ATR made of a few telling bytes: T=0,   *)
(* T=1, another protocol, T=15, with and without TAi and TDi to follow.    *)
(***************************************************************************)
AtrBytes == {0, 1, 2, 144, 129, 143}
AtrSamples == UNION {[1..n -> AtrBytes] : n \in 1..5}

\* Positions of T0 and of the TDi, each announced by the one before.
TDi(atr) ==
  LET high(p) == Byte(atr, p) \div 16
      follow[p \in 1..40] ==
        {p} \cup IF Bit(high(p), 3) = 1
                THEN follow[p + Cardinality({k \in 0..3 : Bit(high(p), k) = 1})] ELSE {}
  IN  follow[1]

\* What ISO 7816-3 says of an ATR that the code accepts: the card offers the
\* protocols of its TDi and starts with the one of TD1, or T=0; TA2 imposes
\* one.  In the specific mode the code may add what TD3 and others say.
ReadAsISO(atr, d) ==
  LET TDs == TDi(atr) \ {1}
      TD1 == CHOOSE p \in TDs : \A q \in TDs : p <= q
      specific == TDs # {} /\ Bit(Byte(atr, TD1) \div 16, 0) = 1
      offered == IF TDs = {} THEN {"T0"} ELSE UNION {ProtocolOf(Byte(atr, p) % 16) : p \in TDs}
      first == IF specific THEN Byte(atr, TD1 + 1) ELSE IF TDs = {} THEN 0 ELSE Byte(atr, TD1)
  IN  d.ok =>
        /\ d.available \ {"T15"} # {}
        /\ ProtocolOf(first % 16) = {d.current} /\ d.current \in d.available
        /\ IF specific THEN d.available \subseteq offered \cup {d.current} ELSE d.available = offered

\* ATRDecodeAtr, from which SCardConnect takes the protocols of a card, reads
\* every ATR as ISO 7816-3 does.  Looked at once, when the reader starts.
AtrReadAsISO ==
  readerState = "NONE" /\ (\A c \in Clients : ~hContext[c] /\ pc[c] = "free") =>
    \A bytes \in AtrSamples : ReadAsISO(<<59>> \o bytes, ATRDecodeAtr(<<59>> \o bytes))
=============================================================================
