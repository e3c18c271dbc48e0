---------------------------- MODULE CardManager ----------------------------
(***************************************************************************)
(* The card the GlobalPlatform library talks to, as far as the library     *)
(* relies on it: the issuer security domain, one secure channel, the       *)
(* registry of load files, applications and key sets, and a load under     *)
(* way.  The card is not part of the repository: what it does is what the  *)
(* library expects, with every refusal the library has to live with.       *)
(*                                                                         *)
(* An APDU is [ins, case, le, lc, arg, sd, related, number, count, last,   *)
(* mac]; a command without a code has mac = NULL.  There is one package    *)
(* per size of load file, with one application in it, and one key set.     *)
(***************************************************************************)
EXTENDS SecureMessaging, FiniteSets

CONSTANTS
  CardKinds,   \* the cards there are: [scp, impl, protocol]
  Keys,        \* what the key set may hold
  FirstKey,    \* what the card is delivered with
  Files        \* sizes of the load files

VARIABLE card

ASSUME CardAssumption ==
  /\ CardKinds \subseteq [scp : 1..3, impl : BaseKeyImpls \cup ThreeKeyImpls, protocol : {"T0", "T1"}]
  /\ FirstKey \in Keys /\ NULL \notin Keys
  /\ Files \subseteq Nat \ {0}

\* The codes there are: none of them is no code.
Macs == [impl : BaseKeyImpls \cup ThreeKeyImpls \cup {"none"}, kind : {"mac", "dek"}, key : Keys \cup {NULL},
         number : 0..5, previous : 0..ChainLength - 1]
ASSUME MacAssumption == NULL \notin Macs

NoSession == [st |-> "none", number |-> 0, key |-> NULL, level |-> 0, chain |-> 0]
File(f) == <<"file", f>>
App(f) == <<"app", f>>
Key(k) == <<"key", k>>
Items == {File(f) : f \in Files} \cup {App(f) : f \in Files} \cup {Key(k) : k \in Keys}

CardInit ==
  \E kind \in CardKinds :
    card = [kind |-> kind, selected |-> "isd", session |-> NoSession,
            registry |-> {Key(FirstKey)}, loading |-> NULL]

\* A reset loses everything but the registry.
Reset(c) == [c EXCEPT !.selected = "isd", !.session = NoSession, !.loading = NULL]

-----------------------------------------------------------------------------
(* Commands *)

Answer(sw, c) == [sw |-> <<sw, 0>>, card |-> c]
When(P, c) == IF P THEN {c} ELSE {}

\* A new application or domain ends the secure channel.
Select(a) == {Answer("9000", [Reset(card) EXCEPT !.selected = a.arg[2]])}

\* The session keys come from the challenge: they are the keys of no session
\* before.
InitializeUpdate(a) ==
  LET held == {k \in Keys : Key(k) \in card.registry} IN
  IF card.selected = "isd" /\ held # {}
  THEN {Answer("9000", [card EXCEPT !.session =
          [st |-> "init", number |-> a.arg[2], key |-> k, level |-> 0, chain |-> 0]]) : k \in held}
  ELSE {Answer("6A88", card)}

ExternalAuthenticate(a) ==
  LET s == card.session IN
  IF s.st = "init" /\ a.mac = Mac(card.kind.impl, "mac", s.key, s.number, 0)
  THEN {Answer("9000", [card EXCEPT !.session.st = "open", !.session.level = a.arg[2],
                                    !.session.chain = IF a.arg[2] \in MacLevels THEN 1 % ChainLength ELSE 0])}
  ELSE {Answer("6982", [card EXCEPT !.session = NoSession])}

\* A command of the security level agreed on, its code the next of the chain;
\* zero is not the length of any data to the card.
Authentic(a) ==
  LET s == card.session IN
  /\ s.st = "open"
  /\ a.mac # NULL => WrappedLc(a.scp, a.level, a.lc) # 0
  /\ a.mac = IF s.level \in MacLevels THEN Mac(card.kind.impl, "mac", s.key, s.number, s.chain) ELSE NULL

\* The card after the code of a command is accepted.
Accepted ==
  IF card.session.level \in MacLevels
  THEN [card EXCEPT !.session.chain = (@ + 1) % ChainLength] ELSE card

\* What a content management command does, where it is not refused; every one
\* of them but LOAD ends a load under way.
InstallForLoad(a, c) ==
  When(a.sd = "isd" /\ a.arg \notin c.registry,
       [c EXCEPT !.loading = [file |-> a.arg[2], next |-> 0, got |-> 0]])
Load(a, c) ==
  When(/\ c.loading # NULL /\ c.loading.file = a.arg[2]
       /\ c.loading.next = a.number /\ WellFormed(a.arg[2])
       /\ a.last <=> c.loading.got + a.count = a.arg[2],
       IF a.last THEN [c EXCEPT !.loading = NULL, !.registry = @ \cup {a.arg}]
       ELSE [c EXCEPT !.loading.next = @ + 1, !.loading.got = @ + a.count])
InstallForInstall(a, c) ==
  When(a.arg \in c.registry /\ App(a.arg[2]) \notin c.registry,
       [c EXCEPT !.registry = @ \cup {App(a.arg[2])}])
\* GP211_delete_application asks for what belongs to the file too.
Related(a) == IF a.related /\ a.arg[1] = "file" THEN {a.arg, App(a.arg[2])} ELSE {a.arg}
Delete(a, c) ==
  When(/\ a.arg \in c.registry
       /\ a.arg[1] = "file" => App(a.arg[2]) \in Related(a) \/ App(a.arg[2]) \notin c.registry,
       [c EXCEPT !.registry = @ \ Related(a)])
KeyItems == {Key(k) : k \in Keys}
PutKey(a, c) == {[c EXCEPT !.registry = (@ \ KeyItems) \cup {a.arg}]}
DeleteKey(a, c) == When(KeyItems \cap c.registry # {}, [c EXCEPT !.registry = @ \ KeyItems])

Content(a, c) ==
  LET free == [c EXCEPT !.loading = NULL] IN
  CASE a.ins = "install_for_load"    -> InstallForLoad(a, free)
    [] a.ins = "load"                -> Load(a, c)
    [] a.ins = "install_for_install" -> InstallForInstall(a, free)
    [] a.ins = "delete"              -> Delete(a, free)
    [] a.ins = "put_key"             -> PutKey(a, free)
    [] a.ins = "delete_key"          -> DeleteKey(a, free)
    [] OTHER                         -> {}
ContentCommands == {"install_for_load", "load", "install_for_install", "delete", "put_key", "delete_key"}

\* A command of the security domain that is selected: a content management
\* command may always be refused, for lack of memory or of a right.
Managed(a) ==
  IF card.selected # "isd" \/ ~Authentic(a) THEN {Answer("6982", [card EXCEPT !.session = NoSession])}
  ELSE IF a.ins \in ContentCommands
       THEN {Answer("6985", [Accepted EXCEPT !.loading = NULL])} \cup {Answer("9000", c) : c \in Content(a, Accepted)}
       ELSE {Answer("9000", Accepted)} \cup When(a.ins = "get_status", Answer("6310", Accepted))

\* Everything a card may make of a command.
Execute(a) ==
  CASE a.ins = "select"      -> Select(a)
    [] a.ins = "card_data"   -> {Answer("9000", card), Answer("6A88", card)}
    [] a.ins = "init_update" -> InitializeUpdate(a)
    [] a.ins = "ext_auth"    -> ExternalAuthenticate(a)
    [] OTHER                 -> Managed(a)
=============================================================================
