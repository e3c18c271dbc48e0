------------------------------ MODULE OwnerPIN ------------------------------
(***************************************************************************)
(* javacard.framework.OwnerPIN, the PIN object of the Java Card library.   *)
(* It is not part of the repository: its operations are modelled from how  *)
(* PIN.java calls them (check, update, resetAndUnblock, isValidated,       *)
(* getTriesRemaining).  A PIN object is a record; an operation returns the *)
(* record it leaves.  The value and the try counter survive a loss of      *)
(* power, the validated flag does not.                                     *)
(***************************************************************************)
EXTENDS Integers

CONSTANT MaxTries  \* the try limit given to the constructor

ASSUME MaxTriesAssumption == MaxTries \in 1..127

PinObjects(values) ==
  [value: values, tries: 0..MaxTries, validated: BOOLEAN]

PinObject(code, n, b) == [value |-> code, tries |-> n, validated |-> b]

NewPin(code) == PinObject(code, MaxTries, FALSE)

\* A blocked PIN matches nothing.
Matches(p, code) == p.tries > 0 /\ p.value = code

Check(p, code) ==
  IF Matches(p, code) THEN PinObject(p.value, MaxTries, TRUE)
  ELSE PinObject(p.value, IF p.tries = 0 THEN 0 ELSE p.tries - 1, FALSE)

ResetAndUnblock(p) == PinObject(p.value, MaxTries, FALSE)

Update(p, code) == PinObject(code, MaxTries, FALSE)

PowerUp(p) == PinObject(p.value, p.tries, FALSE)
=============================================================================
