------------------------------ MODULE GPShell ------------------------------
(***************************************************************************)
(* GPShell: the interpreter of the installation scripts, the library       *)
(* functions it calls, and the card at the other end.  A script is a       *)
(* sequence of commands; a command is carried out by sending APDUs, each   *)
(* wrapped by the secure channel of the platform mode it is sent in.       *)
(* What ends a script is a failure, and some failures do not.              *)
(*                                                                         *)
(* belief is what one knows of the card from what the shell reported.      *)
(***************************************************************************)
EXTENDS CardConnection

CONSTANTS
  Levels,        \* security levels open_sc asks for
  RawCases,      \* cases of the APDUs send_apdu sends
  RawLengths,    \* and bytes of data in those of cases 3 and 4
  MaxElements,   \* answers get_status has room for: 64 of one application each
  MaxCommands,   \* commands of all scripts that take APDUs
  MaxScripts

ASSUME ShellAssumption ==
  /\ Levels \subseteq {0} \cup MacLevels
  /\ RawCases \subseteq 1..4 /\ RawLengths \subseteq 1..256
  /\ MaxElements \in Nat /\ MaxCommands \in Nat /\ MaxScripts \in Nat

VARIABLES
  mode,          \* platform_mode
  specVersion,   \* of cardInfo, the mode there was when the card was connected
  secInfo,       \* securityInfo201 and securityInfo211
  selectedAID,
  script,        \* "read", "busy", "ended", "crashed"
  command,       \* what is being carried out, and how far it is
  read, scripts, \* commands that take APDUs, and scripts, so far
  belief,        \* what is on the card, as far as reported
  unsure,        \* what a failed command may have changed
  lost,          \* the session of the last authenticated command the card did not get
  disturbed      \* a fault during this command

shellVars == <<mode, specVersion, secInfo, selectedAID>>
history == <<belief, unsure, lost, disturbed>>
vars == <<card, connVars, shellVars, script, command, read, scripts, history>>

Modes == {201, 211}
NoInfo == [scp |-> 0, impl |-> "none", key |-> NULL, number |-> 0, level |-> 0, chain |-> 0]
None == <<"none", 0>>

Command(op, arg, level, sc, case, lc, le, todo) ==
  [op |-> op, arg |-> arg, level |-> level, sc |-> sc, case |-> case, lc |-> lc, le |-> le, todo |-> todo,
   n |-> 0, scp |-> 0, impl |-> "none"]
Simple(op, arg, todo) == Command(op, arg, 0, TRUE, 4, 0, Most, todo)

-----------------------------------------------------------------------------
(* The commands of a script and the APDUs they take *)

FileCommands(f) ==
  {Simple("load", File(f), <<"load">>),
   Simple("install", File(f), <<"install_for_load", "load", "install_for_install">>),
   Simple("install_for_load", File(f), <<"install_for_load">>),
   Simple("install_for_install", File(f), <<"install_for_install">>),
   Simple("delete", File(f), <<"delete">>),
   Simple("delete", App(f), <<"delete">>)}

\* The key and the level of open_sc; in mode 211 the protocol is asked for.
OpenCommands ==
  {Command("open_sc", Key(k), l, FALSE, 4, 0, Most,
           IF mode = 211 THEN <<"card_data", "init_update", "ext_auth">> ELSE <<"init_update", "ext_auth">>) :
     k \in Keys, l \in Levels}

SendCommands ==
  {Command(op, None, 0, sc, form[1], form[2], le, <<"raw">>) :
     op \in {"send_apdu", "send_apdu_nostop"}, sc \in BOOLEAN, le \in {1, Most},
     form \in ((RawCases \cap {1, 2}) \X {0}) \cup ((RawCases \cap {3, 4}) \X RawLengths)}

Commands ==
  (UNION {FileCommands(f) : f \in Files}) \cup OpenCommands \cup SendCommands
  \cup {Simple("select", <<"domain", d>>, <<"select">>) : d \in {"isd", "app"}}
  \cup {Simple("put_sc_key", Key(k), <<"put_key">>) : k \in Keys}
  \cup {Simple("delete_key", None, <<"delete_key">>), Simple("get_data", None, <<"get_data">>),
        Simple("get_status", None, <<"get_status">>)}

DataLength(c, ins) ==
  CASE ins = "raw" -> c.lc
    [] ins = "install_for_load" -> 51
    [] ins = "install_for_install" -> 110
    [] ins = "put_key" -> 67
    [] ins = "delete" -> 18
    [] ins = "delete_key" -> 6
    [] ins \in {"select", "ext_auth"} -> 16
    [] ins = "init_update" -> 8
    [] ins = "get_status" -> 2
    [] OTHER -> 0

\* Only SELECT, EXTERNAL AUTHENTICATE and a LOAD that is not the last have no
\* Le; there is no data to GET DATA.
CaseOf(c, ins) ==
  CASE ins = "raw" -> c.case
    [] ins \in {"select", "ext_auth"} -> 3
    [] ins \in {"get_data", "card_data"} -> 2
    [] ins = "load" /\ ~LoadBlock(c.arg[2], c.n).last -> 3
    [] OTHER -> 4

\* A session no information is left of: the challenge is random.
FreshNumber ==
  CHOOSE n \in 1..5 : n \notin {secInfo[m].number : m \in Modes} \cup {card.session.number, lost}

\* The security domain of a load is the application selected last, even if the
\* card has been reset since.
Apdu(c, ins) ==
  LET b == LoadBlock(c.arg[2], c.n) IN
  [ins |-> ins, case |-> CaseOf(c, ins), le |-> IF CaseOf(c, ins) \in {2, 4} THEN c.le ELSE 0,
   lc |-> CASE ins = "load" -> b.lc
            [] CaseOf(c, ins) \in {1, 2} -> 0
            [] OTHER -> DataLength(c, ins),
   arg |-> CASE ins = "init_update" -> <<"number", FreshNumber>>
             [] ins = "ext_auth" -> <<"level", c.level>>
             [] OTHER -> c.arg,
   sd |-> IF selectedAID = NULL THEN "isd" ELSE selectedAID,
   related |-> mode = 211,
   number |-> IF ins = "load" THEN b.number ELSE 0,
   count |-> IF ins = "load" THEN b.count ELSE 0,
   last |-> ins = "load" /\ b.last,
   mac |-> NULL, scp |-> 0, level |-> 0]

-----------------------------------------------------------------------------
(* OPGP_send_APDU *)

Secured(ins, c) == IF ins = "raw" THEN c.sc ELSE ins \notin {"select", "card_data", "init_update", "ext_auth"}

\* wrap_command: a code after the data, and what had none has data now.
Wrapped(a, info) ==
  [a EXCEPT !.mac = Mac(info.impl, MacKey(info.impl), info.key, info.number, info.chain),
            !.case = IF @ \in {1, 2} THEN @ + 2 ELSE @,
            !.scp = info.scp, !.level = info.level]

\* Mutant: EXTERNAL AUTHENTICATE goes on with the chain of the last session.
AuthenticatingOn(a, info) ==
  [a EXCEPT !.mac = Mac(info.impl, MacKey(info.impl), info.key, info.number, info.chain)]

\* mutual_authentication: the cryptogram and the code of EXTERNAL AUTHENTICATE,
\* on a chain that starts anew.
Authenticating(a, info) ==
  [a EXCEPT !.mac = Mac(info.impl, MacKey(info.impl), info.key, info.number, 0)]

\* OP201_mutual_authentication works on a structure of its own, which nobody
\* has initialised, and copies it whatever comes of it; the other one writes to
\* the information of its caller.
Leftovers(info) == {info, [info EXCEPT !.key = NULL, !.number = 0]}
Opened(c, info) ==
  IF mode = 201
  THEN {[i EXCEPT !.level = l] : i \in Leftovers(info), l \in {0} \cup MacLevels}
  ELSE {[info EXCEPT !.scp = c.scp, !.impl = c.impl]}

\* Mutant: the code of EXTERNAL AUTHENTICATE is not kept for the next command.
InfoAfterForgotten(ins, c, info) ==
  IF ins = "init_update" THEN Opened(c, info)
  ELSE IF ins = "ext_auth" THEN {[info EXCEPT !.level = c.level]}
  ELSE IF Secured(ins, c) /\ info.level \in MacLevels THEN {[info EXCEPT !.chain = (@ + 1) % ChainLength]}
  ELSE {info}

\* What the information may be when the command is ready to be sent: the chain
\* has gone on.
InfoAfter(ins, c, info) ==
  IF ins = "init_update" THEN Opened(c, info)
  ELSE IF ins = "ext_auth" THEN {[info EXCEPT !.level = c.level, !.chain = 1 % ChainLength]}
  ELSE IF Secured(ins, c) /\ info.level \in MacLevels THEN {[info EXCEPT !.chain = (@ + 1) % ChainLength]}
  ELSE {info}

\* The command there is to send, and what it is wrapped with: in mode 201 a copy
\* that says SCP01.
Raw == Apdu(command, Head(command.todo))
Info == [secInfo[mode] EXCEPT !.scp = IF mode = 201 THEN 1 ELSE @, !.impl = IF mode = 201 THEN "i05" ELSE @]
Protects == Secured(Head(command.todo), command) /\ Info.level \in MacLevels

-----------------------------------------------------------------------------
(* What is known of the card *)

Touched(c) ==
  CASE c.op \in {"load", "install_for_load"} -> {c.arg}
    [] c.op = "install" -> {c.arg, App(c.arg[2])}
    [] c.op = "install_for_install" -> {App(c.arg[2])}
    [] c.op = "delete" -> Related([arg |-> c.arg, related |-> mode = 211])
    [] c.op \in {"put_sc_key", "delete_key"} -> KeyItems
    [] OTHER -> {}

Reported(c) ==
  CASE c.op = "load" -> belief \cup {c.arg}
    [] c.op \in {"install", "install_for_install"} -> belief \cup Touched(c)
    [] c.op = "put_sc_key" -> (belief \ KeyItems) \cup {c.arg}
    [] c.op \in {"delete", "delete_key"} -> belief \ Touched(c)
    [] OTHER -> belief

-----------------------------------------------------------------------------
(* handleCommands *)

Busy == script = "busy"

\* Mutant: open_sc does not end the script when it fails.
GoesOnClosed == {"delete", "delete_key", "send_apdu_nostop", "open_sc"}
\* Commands that do not end the script when they fail.
GoesOn == {"delete", "delete_key", "send_apdu_nostop"}

Fail ==
  /\ script' = IF command.op \in GoesOn THEN "read" ELSE "ended"
  /\ command' = IF command.op \in GoesOn THEN NULL ELSE command
  /\ unsure' = unsure \cup Touched(command)
  /\ UNCHANGED belief

Succeed ==
  /\ script' = "read" /\ command' = NULL
  /\ belief' = Reported(command)
  /\ unsure' = IF command.op = "install_for_load" THEN unsure ELSE unsure \ Touched(command)

\* A line of the script that takes no APDU.
NextLine == script = "read" /\ UNCHANGED read
Done == script' = "read" /\ UNCHANGED <<xfer, pending, faults, command, scripts, history>>

EstablishCommand ==
  /\ NextLine /\ EstablishContext /\ Done
  /\ UNCHANGED shellVars
ReleaseCommand ==
  /\ NextLine /\ ReleaseContext /\ Done
  /\ UNCHANGED shellVars
ConnectCommand ==
  /\ NextLine /\ context = "open" /\ CardConnect /\ Done
  /\ specVersion' = mode
  /\ UNCHANGED <<mode, secInfo, selectedAID>>
DisconnectCommand ==
  /\ NextLine /\ context = "open" /\ handle \in {"open", "dead"} /\ CardDisconnect /\ Done
  /\ UNCHANGED shellVars
\* An option or a file that cannot be read, no reader, no card, or nothing to
\* disconnect.
LineFails ==
  /\ NextLine
  /\ script' = "ended"
  /\ UNCHANGED <<card, connVars, shellVars, command, scripts, history>>
ModeCommand ==
  /\ NextLine /\ Done
  /\ mode' \in Modes \ {mode}
  /\ UNCHANGED <<card, context, handle, specVersion, secInfo, selectedAID>>

\* A line that takes APDUs.
BeginCommand ==
  /\ script = "read" /\ read < MaxCommands /\ read' = read + 1
  /\ command' \in Commands
  /\ script' = "busy"
  /\ disturbed' = FALSE
  /\ UNCHANGED <<card, connVars, shellVars, scripts, belief, unsure, lost>>

\* A file too large is refused by load_from_buffer, before its first block, and
\* by wrap_command what is too long to be wrapped.
Unwrapped ==
  \/ Head(command.todo) = "load" /\ command.n = 0 /\ TooBig(command.arg[2])
  \/ Protects /\ TooLong(Info.level, Raw.case, Raw.lc)
\* What is refused when it has its code: there is no room for it encrypted, or
\* the plugin has no card.
Unsent ==
  \/ Protects /\ NoRoom(Info.scp, Info.level, Raw.case, Raw.lc)
  \/ context = "open" /\ handle = "none"

\* The information goes on, whether the command is sent or not.
Wrap == \E i \in InfoAfter(Head(command.todo), command, Info) : secInfo' = [secInfo EXCEPT ![mode] = i]

\* The session a command was protected for, if it is the one the card has open.
Misses(a, number) == a /\ card.session.st = "open" /\ card.session.number = number

RefuseSend ==
  /\ Busy /\ xfer = Idle
  /\ \/ Unwrapped /\ UNCHANGED <<secInfo, lost>>
     \/ /\ ~Unwrapped /\ Unsent /\ Wrap
        /\ lost' = IF Misses(Protects, Info.number) THEN Info.number ELSE lost
  /\ Fail
  /\ UNCHANGED <<card, connVars, mode, specVersion, selectedAID, read, scripts, disturbed>>

\* Without a context there is no function to call: card_connect, card_disconnect
\* and every APDU jump to nowhere.  What is too long for the buffer is encrypted
\* all the same, over what is next to it.
Crash ==
  /\ script' = "crashed"
  /\ UNCHANGED <<card, connVars, shellVars, command, read, scripts, belief, lost, disturbed>>
CallNothing == script = "read" /\ context = "none" /\ Crash /\ UNCHANGED unsure
SendNothing ==
  /\ Busy /\ xfer = Idle /\ ~Unwrapped
  /\ \/ context = "none" /\ ~Unsent
     \/ Protects /\ Overruns(Info.scp, Info.level, Raw.lc)
  /\ Crash
  /\ unsure' = unsure \cup Touched(command)

\* OPGP_send_APDU wraps the command and hands it to the plugin.
Send ==
  /\ Busy /\ xfer = Idle /\ ~Unwrapped /\ ~Unsent /\ context = "open"
  /\ xfer' = Begin(CASE Head(command.todo) = "ext_auth" -> Authenticating(Raw, Info)
                     [] Protects -> Wrapped(Raw, Info)
                     [] OTHER -> Raw)
  /\ Wrap
  /\ UNCHANGED <<card, context, handle, pending, faults, mode, specVersion, selectedAID,
                 script, command, read, scripts, history>>

\* Mutant: the chain is put back when a command could not be sent.
ExchangePutBack ==
  /\ Busy /\ xfer # Idle /\ SendAPDU
  /\ disturbed' = (disturbed \/ faults' # faults)
  /\ LET gap == /\ xfer'.at = "failed" /\ xfer'.ran = Nothing
                /\ Misses(xfer.apdu.mac # NULL, xfer.apdu.mac.number) IN
     /\ lost' = IF gap THEN card.session.number ELSE lost
     /\ secInfo' = IF gap THEN [secInfo EXCEPT ![mode].chain = xfer.apdu.mac.previous] ELSE secInfo
  /\ UNCHANGED <<mode, specVersion, selectedAID, script, command, read, scripts, belief, unsure>>

\* The plugin at work.
Exchange ==
  /\ Busy /\ xfer # Idle /\ SendAPDU
  /\ disturbed' = (disturbed \/ faults' # faults)
  /\ lost' = IF xfer'.at = "failed" /\ xfer'.ran = Nothing /\ Misses(xfer.apdu.mac # NULL, xfer.apdu.mac.number)
             THEN card.session.number ELSE lost
  /\ UNCHANGED <<shellVars, script, command, read, scripts, belief, unsure>>

\* The status of an APDU: send_apdu reports whatever it is, get_status goes on
\* while there is more, and to anybody else all but 9000 is an error.
Reply == xfer.at \in {"done", "failed"}
StatusOkAlways == xfer.at = "done"  \* Mutant: any status will do.
StatusOk == xfer.at = "done" /\ (xfer.sw = Ok \/ command.op \in {"send_apdu", "send_apdu_nostop"})
MoreStatus == xfer.at = "done" /\ command.op = "get_status" /\ xfer.sw = <<"6310", 0>>

\* The answer to INITIALIZE UPDATE: that of SCP03 has another length, the
\* protocol it reports must be the one asked for, which must be one there are
\* session keys for, and its cryptogram must be theirs.
Protocol == IF mode = 201 THEN <<1, "i05">> ELSE <<command.scp, command.impl>>
Consistent ==
  /\ card.kind.scp # 3
  /\ specVersion = 211 => Protocol[1] = card.kind.scp
  /\ Supported(Protocol[1], Protocol[2])
Challenged == [secInfo[mode] EXCEPT !.key = command.arg[2], !.number = xfer.heard.number]
CryptogramVerified == Protocol[1] = card.kind.scp /\ command.arg[2] = xfer.heard.key
CardRefused ==
  CASE command.todo = <<>> -> FALSE
    [] Head(command.todo) = "init_update" /\ StatusOk -> ~Consistent \/ ~CryptogramVerified
    [] MoreStatus -> command.n = MaxElements
    [] OTHER -> ~StatusOk

\* What is left of the command, and how far it is with it.
Advanced ==
  LET ins == Head(command.todo) IN
  CASE MoreStatus -> [command EXCEPT !.n = @ + 1]
    [] ins = "load" /\ ~xfer.apdu.last -> [command EXCEPT !.n = @ + 1]
    [] ins = "card_data" -> [command EXCEPT !.todo = <<"init_update", "ext_auth">>,
                                            !.scp = card.kind.scp, !.impl = card.kind.impl]
    [] OTHER -> [command EXCEPT !.todo = Tail(@), !.n = 0]

Return ==
  /\ Busy /\ xfer # Idle /\ Reply
  /\ xfer' = Idle /\ pending' = NothingPending
  /\ secInfo' = IF Head(command.todo) = "init_update" /\ StatusOk /\ Consistent
                THEN [secInfo EXCEPT ![mode] = Challenged] ELSE secInfo
  /\ IF CardRefused THEN Fail /\ UNCHANGED selectedAID
     ELSE IF Advanced.todo # <<>>
     THEN command' = Advanced /\ UNCHANGED <<script, belief, unsure, selectedAID>>
     ELSE /\ Succeed
          /\ selectedAID' = IF command.op = "select" THEN command.arg[2] ELSE selectedAID
  /\ UNCHANGED <<card, context, handle, faults, mode, specVersion, read, scripts, lost, disturbed>>

Interrupted ==
  /\ handle = "open" /\ script \in {"read", "busy"} /\ ResetByOther
  /\ disturbed' = TRUE
  /\ UNCHANGED <<shellVars, script, command, read, scripts, belief, unsure, lost>>

\* The end of the file, or of a script that failed: nothing is released, pcscd
\* resets the card when the process is gone.  Another script follows, by
\* another process, on the same card.
NextScript ==
  /\ ~Busy /\ scripts < MaxScripts
  /\ scripts' = scripts + 1
  /\ script' = "read" /\ command' = NULL
  /\ mode' = 201 /\ specVersion' = 0 /\ selectedAID' = NULL
  /\ secInfo' = [m \in Modes |-> NoInfo]
  /\ context' = "none" /\ handle' = "none"
  /\ card' = IF handle = "open" THEN Reset(card) ELSE card
  /\ xfer' = Idle /\ pending' = NothingPending
  /\ lost' = 0
  /\ UNCHANGED <<read, faults, belief, unsure, disturbed>>

Init ==
  /\ CardInit /\ ConnInit
  /\ mode = 201 /\ specVersion = 0 /\ selectedAID = NULL
  /\ secInfo = [m \in Modes |-> NoInfo]
  /\ script = "read" /\ command = NULL /\ read = 0 /\ scripts = 1
  /\ belief = card.registry /\ unsure = {} /\ lost = 0 /\ disturbed = FALSE

ShellStep == RefuseSend \/ SendNothing \/ Send \/ Exchange \/ Return
Next ==
  \/ EstablishCommand \/ ReleaseCommand \/ ConnectCommand \/ DisconnectCommand \/ LineFails
  \/ ModeCommand \/ BeginCommand \/ CallNothing
  \/ ShellStep
  \/ Interrupted \/ NextScript

Spec == Init /\ [][Next]_vars

-----------------------------------------------------------------------------
(* Properties *)

Infos == [scp : 0..3, impl : {"none"} \cup BaseKeyImpls \cup ThreeKeyImpls, key : Keys \cup {NULL},
          number : 0..5, level : {0} \cup MacLevels, chain : 0..ChainLength - 1]

\* The state of the shell, of its secure channels and of the card has its type.
GPTypeOK ==
  /\ mode \in Modes /\ specVersion \in Modes \cup {0} /\ selectedAID \in {NULL, "isd", "app"}
  /\ secInfo \in [Modes -> Infos]
  /\ script \in {"read", "busy", "ended", "crashed"} /\ (script = "read" => command = NULL)
  /\ context \in {"none", "open"} /\ handle \in {"none", "open", "dead", "stale"}
  /\ card.registry \subseteq Items /\ belief \subseteq Items /\ unsure \subseteq Items
  /\ xfer = Idle \/ xfer.at \in {"first", "get", "loop", "tail", "done", "failed"}

\* What the shell has reported is so: between two commands the card holds what
\* the commands that succeeded put on it, and nothing else but what a command
\* that failed may have changed.  A load that breaks off, a status lost in the
\* exchanges of T=0 or a key put on the card and reported wrongly would show.
BeliefHolds == ~Busy => \A i \in Items \ unsure : i \in card.registry <=> i \in belief

\* A secure channel that is open on the card is one the script can go on with:
\* where it goes on, the information of some mode has the keys of the card, its
\* level and its place in the chain, unless a command was wrapped for it that
\* the card missed.  An open_sc that fails leaves the information of its mode
\* half written or, in mode 201, overwritten with anything, and the card may
\* still have the channel of before: that is why it must end the script.
SessionAgrees ==
  LET s == card.session IN
  (script = "read" /\ s.st = "open" /\ lost # s.number) =>
     \E m \in Modes : /\ secInfo[m].key = s.key /\ secInfo[m].number = s.number /\ secInfo[m].level = s.level
                      /\ s.level \in MacLevels => secInfo[m].chain = s.chain

\* A command the card did not get, lost on its way or refused when it had its
\* code, cannot go unnoticed: nothing more is accepted in that session, because
\* the chain of the library has gone on without it.
NoGap ==
  [][(card.session.st = "open" /\ card.session.number = lost /\ card'.session.number = lost)
       => card'.session.chain = card.session.chain]_vars

\* The secure channel opens when it should: with a key the card holds, in the
\* mode and protocol of the card, and nothing in the way, mutual authentication
\* does not fail; the implementations with a base key are the exception, and
\* those the library does not know.
RightKeyOpens ==
  (script = "ended" /\ command # NULL /\ command.op = "open_sc" /\ handle = "open" /\ ~disturbed) =>
     \/ Head(command.todo) = "card_data"
     \/ command.arg \notin card.registry \/ card.selected # "isd"
     \/ mode = 201 /\ <<card.kind.scp, card.kind.impl>> # <<1, "i05">>
     \/ card.kind.impl \in BaseKeyImpls
     \/ ~Supported(card.kind.scp, card.kind.impl)

\* What is sent fits where it goes: the blocks of a load file are numbered
\* without a gap, the space declared for it is enough, and what is said to be
\* left is what has not been sent; and the byte in a protected command says the
\* length of its data, padding and code included.  What the library sends of its
\* own leaves room for them in 255 bytes; what send_apdu is given may need 256,
\* which it says with a zero.
LoadFits ==
  /\ (Busy /\ xfer # Idle /\ xfer.apdu.ins = "load") =>
       LET size == command.arg[2] IN
       /\ xfer.apdu.number = command.n
       /\ CodeSpace(size) >= size
       /\ SentBefore(size, command.n) < size
  /\ (xfer # Idle /\ xfer.apdu.mac # NULL) =>
       LET a == xfer.apdu
           length == WrappedLength(a.scp, a.level, a.lc) IN
       /\ SaidBy(WrappedLc(a.scp, a.level, a.lc)) = length
       /\ length = 256 => a.ins = "raw"

\* What the card has executed is reported as executed, and nothing else is,
\* however it hands out the answer.  There is one way to be told otherwise: a
\* card that says 9000 to a command that has no answer, and refuses GET RESPONSE
\* with anything but 6E00.
ExecutedIsReported ==
  (xfer # Idle /\ xfer.at = "done") =>
     \/ xfer.sw = xfer.ran
     \/ /\ T0 /\ xfer.apdu.case = 4 /\ xfer.apdu.ins \notin Answering
        /\ xfer.ran = Ok /\ xfer.sw = NoInstruction
=============================================================================
