--------------------------- MODULE GPShellProofs ---------------------------
(***************************************************************************)
(* Proofs about the interpreter of the installation scripts.  First the    *)
(* types, and what the card may make of a command.  Then the exchanges of  *)
(* the plugin: whatever the card hands out piece by piece, the status      *)
(* reported is the one it executed the command with.  On that rest what is *)
(* known of the registry, the place of both ends in the chain of codes,    *)
(* and the opening of the secure channel.                                  *)
(***************************************************************************)
EXTENDS GPShell, TLAPS

-----------------------------------------------------------------------------
(* Types *)

Impls == BaseKeyImpls \cup ThreeKeyImpls
Kinds == [scp : 1..3, impl : Impls, protocol : {"T0", "T1"}]
SomeLevels == {0} \cup MacLevels
Chain == 0..ChainLength - 1
Sessions == [st : {"none", "init", "open"}, number : 0..5, key : Keys \cup {NULL}, level : SomeLevels, chain : Chain]
Loads == [file : Files, next : Nat, got : Nat]
Cards == [kind : Kinds, selected : {"isd", "app"}, session : Sessions, registry : SUBSET Items,
          loading : Loads \cup {NULL}]

FileItems == {File(f) : f \in Files}
AppItems == {App(f) : f \in Files}
Domains == {<<"domain", d>> : d \in {"isd", "app"}}
Numbers == {<<"number", n>> : n \in 1..5}
LevelArgs == {<<"level", l>> : l \in SomeLevels}
Args == Items \cup Domains \cup Numbers \cup LevelArgs \cup {None}

Ins == {"select", "card_data", "init_update", "ext_auth", "raw", "get_data", "get_status"} \cup ContentCommands
InsArgs(ins) ==
  CASE ins \in {"install_for_load", "load", "install_for_install"} -> FileItems
    [] ins = "delete" -> FileItems \cup AppItems
    [] ins = "put_key" -> KeyItems
    [] ins = "select" -> Domains
    [] ins = "init_update" -> Numbers
    [] ins = "ext_auth" -> LevelArgs
    [] OTHER -> Args
ApduRecords ==
  [ins : Ins, case : 1..4, le : 0..Most, lc : Nat, arg : Args, sd : {"isd", "app"}, related : BOOLEAN,
   number : Nat, count : Nat, last : BOOLEAN, mac : Macs \cup {NULL}, scp : 0..3, level : SomeLevels]
Apdus ==
  {a \in ApduRecords : /\ a.arg \in InsArgs(a.ins)
                       /\ a.mac # NULL => a.case \in {3, 4}
                       /\ a.ins = "ext_auth" => a.case = 3}

Ops == {"load", "install", "install_for_load", "install_for_install", "delete", "open_sc", "send_apdu",
        "send_apdu_nostop", "select", "put_sc_key", "delete_key", "get_data", "get_status"}
OpArgs(op) ==
  CASE op \in {"load", "install", "install_for_load", "install_for_install"} -> FileItems
    [] op = "delete" -> FileItems \cup AppItems
    [] op \in {"open_sc", "put_sc_key"} -> KeyItems
    [] op = "select" -> Domains
    [] OTHER -> {None}
Stages(op) ==
  CASE op = "install" -> {<<"install_for_load", "load", "install_for_install">>,
                          <<"load", "install_for_install">>, <<"install_for_install">>}
    [] op = "open_sc" -> {<<"card_data", "init_update", "ext_auth">>, <<"init_update", "ext_auth">>, <<"ext_auth">>}
    [] op \in {"send_apdu", "send_apdu_nostop"} -> {<<"raw">>}
    [] op = "put_sc_key" -> {<<"put_key">>}
    [] OTHER -> {<<op>>}
CommandRecords ==
  [op : Ops, arg : Args, level : SomeLevels, sc : BOOLEAN, case : 1..4, lc : 0..256, le : 0..Most,
   todo : UNION {Stages(op) : op \in Ops}, n : Nat, scp : 0..3, impl : Impls \cup {"none"}]
CommandSet ==
  {c \in CommandRecords : /\ c.arg \in OpArgs(c.op) /\ c.todo \in Stages(c.op)
                          /\ c.op = "open_sc" => c.level \in Levels}

Statuses == {<<w, 0>> : w \in {"9000", "6310", "6A88", "6982", "6985"}}
Told == {<<w, n>> : w \in {"61", "6C", "9F"}, n \in 1..Most}
Words == Statuses \cup Told \cup {NoClass, NoInstruction, Nothing}
Pendings == [data : 0..Most, sw : Statuses \cup {Nothing}, told : 0..Most]
Xfers ==
  [at : {"first", "get", "loop", "tail", "done", "failed"}, apdu : Apdus, le : 0..Most, get : BOOLEAN,
   sw : Words, ran : Statuses \cup {Nothing}, heard : Sessions]

CardTypes == card \in Cards
ConnTypes ==
  /\ context \in {"none", "open"} /\ handle \in {"none", "open", "dead", "stale"}
  /\ xfer \in Xfers \cup {Idle} /\ pending \in Pendings /\ faults \in 0..MaxFaults
ShellTypes ==
  /\ mode \in Modes /\ specVersion \in Modes \cup {0} /\ selectedAID \in {NULL, "isd", "app"}
  /\ secInfo \in [Modes -> Infos]
ScriptTypes ==
  /\ script \in {"read", "busy", "ended", "crashed"}
  /\ Busy => command \in CommandSet /\ read > 0
  /\ script = "read" => command = NULL
  /\ command \in CommandSet \cup {NULL}
  /\ xfer # Idle => Busy
  /\ read \in 0..MaxCommands
HistoryTypes ==
  /\ belief \in SUBSET Items /\ unsure \in SUBSET Items /\ lost \in 0..5 /\ disturbed \in BOOLEAN
Types == CardTypes /\ ConnTypes /\ ShellTypes /\ ScriptTypes /\ HistoryTypes

-----------------------------------------------------------------------------
(* The invariants *)

\* What is sent is what the command is at.
Sent ==
  xfer # Idle =>
    LET a == xfer.apdu IN
    /\ context = "open" /\ a.ins = Head(command.todo)
    /\ a.ins \notin {"init_update", "ext_auth"} => a.arg = command.arg
    /\ a.ins = "ext_auth" => a.arg = <<"level", command.level>>
    /\ a.ins \in {"select", "card_data", "init_update"} => a.mac = NULL
    /\ a.related <=> mode = 211
    /\ a.ins = "load" => LET b == LoadBlock(command.arg[2], command.n) IN
                         a.last = b.last /\ a.number = b.number

\* What was executed and had no answer, and GET RESPONSE was refused.
Unanswered ==
  /\ T0 /\ xfer.apdu.case = 4 /\ xfer.apdu.ins \notin Answering
  /\ xfer.ran = Ok
\* How far an exchange is with what the card has.
ExchangeAt ==
  CASE xfer.at = "first" -> /\ xfer.ran = Nothing /\ ~xfer.get
                            /\ handle = "open" => pending = NothingPending
    [] xfer.at \in {"get", "loop", "tail"} /\ handle = "open" ->
         \/ /\ pending.data > 0 /\ pending.sw = xfer.ran /\ xfer.ran \in {Ok, <<"6310", 0>>}
            /\ pending.sw # Nothing
            /\ CASE xfer.at = "get" -> T0 /\ xfer.apdu.case = 4
                 [] xfer.at = "loop" -> xfer.sw[2] = pending.data /\ (xfer.sw[1] = "6C" => xfer.get)
                 [] OTHER -> xfer.sw = More(pending.data)
         \/ xfer.at = "get" /\ pending.data = 0 /\ xfer.sw = Ok /\ Unanswered
         \/ /\ xfer.at = "loop" /\ xfer.sw = Wrong(pending.told) /\ ~xfer.get
            /\ xfer.apdu.case = 2 /\ xfer.ran = Nothing /\ pending.data = 0
    [] xfer.at = "done" -> xfer.ran # Nothing /\ (xfer.sw = xfer.ran \/ (Unanswered /\ xfer.sw = NoInstruction))
    [] OTHER -> TRUE
ExchangeInv ==
  /\ xfer # Idle => ExchangeAt
  /\ xfer = Idle => pending = NothingPending
  /\ xfer # Idle /\ xfer.at \in {"get", "loop", "tail"} /\ xfer.apdu.mac # NULL => xfer.ran # Nothing

\* What a load has sent, and that the file was not refused.
LoadInv ==
  (Busy /\ Head(command.todo) = "load" /\ (command.n > 0 \/ xfer # Idle)) =>
    LET size == command.arg[2] IN ~TooBig(size) /\ SentBefore(size, command.n) < size

LengthInv ==
  (xfer # Idle /\ xfer.apdu.mac # NULL) =>
    LET a == xfer.apdu
        length == WrappedLength(a.scp, a.level, a.lc) IN
    SaidBy(WrappedLc(a.scp, a.level, a.lc)) = length /\ (length = 256 => a.ins = "raw")

\* What the command under way may have changed.
Differs == IF Busy /\ context = "open" /\ command.op # "install_for_load" THEN Touched(command) ELSE {}
RegistryAgrees == \A i \in Items \ (unsure \cup Differs) : i \in card.registry <=> i \in belief
\* What is on the card when a command has been executed.
Effect(a, registry) ==
  CASE a.ins = "load" -> a.last => a.arg \in registry
    [] a.ins = "install_for_install" -> a.arg \in registry /\ App(a.arg[2]) \in registry
    [] a.ins = "delete" -> Related(a) \cap registry = {}
    [] a.ins = "put_key" -> registry \cap KeyItems = {a.arg}
    [] a.ins = "delete_key" -> registry \cap KeyItems = {}
    [] OTHER -> TRUE
Executed ==
  /\ xfer # Idle /\ xfer.ran = Ok => Effect(xfer.apdu, card.registry)
  /\ Busy /\ command.op = "install" /\ command.todo = <<"install_for_install">> => command.arg \in card.registry
OneKey == \A i, j \in KeyItems \cap card.registry : i = j
RegistryInv == RegistryAgrees /\ Executed /\ OneKey

\* The session of the card and what the library knows of it.
Numbered ==
  /\ card.session.st = "none" => card.session = NoSession
  /\ card.session.st # "none" => card.session.number \in 1..5
  /\ handle # "open" => card.session.st = "none"
  /\ card.session.st = "init" => lost # card.session.number
  /\ secInfo[201].number = secInfo[211].number => secInfo[201].number = 0
\* An INITIALIZE UPDATE that is on its way, or has been executed.
Challenge ==
  (xfer # Idle /\ xfer.apdu.ins = "init_update") =>
    LET n == xfer.apdu.arg[2] IN
    /\ n # lost /\ (\A m \in Modes : secInfo[m].number # n)
    /\ xfer.at = "first" => card.session.number # n
    /\ xfer.ran = Ok => xfer.heard.number = n /\ card.session.st # "open"
\* EXTERNAL AUTHENTICATE is for a session that is not open yet.
Authentication ==
  (Busy /\ Head(command.todo) = "ext_auth" /\ (xfer = Idle \/ xfer.at = "first")) => card.session.st # "open"
Flying == xfer.at = "first" /\ xfer.apdu.mac # NULL /\ xfer.apdu.mac.number = card.session.number
Flight == IF Flying THEN 1 ELSE 0
\* A command that fails has missed one at most; this one has not failed yet.
Failing == xfer # Idle /\ xfer.at = "failed"
Hopeful == IF Busy /\ ~Failing THEN 1 ELSE 0
Ahead(m) ==
  \E g \in 0..(read - Hopeful) :
    /\ g = 0 <=> lost # card.session.number
    /\ secInfo[m].chain = (card.session.chain + g + Flight) % ChainLength
    /\ Flying => xfer.apdu.mac.previous = (card.session.chain + g) % ChainLength
\* In mode 201 an INITIALIZE UPDATE on its way leaves nothing of what was known.
Forgets == Busy /\ xfer # Idle /\ xfer.apdu.ins = "init_update"
Known ==
  (card.session.st = "open" /\ (script = "read" \/ Busy) /\ ~Forgets) =>
    \E m \in Modes : /\ secInfo[m].key = card.session.key /\ secInfo[m].number = card.session.number
                     /\ secInfo[m].level = card.session.level
                     /\ card.session.level \in MacLevels => Ahead(m)
                     /\ card.session.level \notin MacLevels => lost # card.session.number /\ ~Flying
\* What authenticates is computed from what the library knows.
Proof ==
  (xfer # Idle /\ xfer.apdu.ins = "ext_auth" /\ xfer.at = "first") =>
    /\ xfer.apdu.mac = Mac(secInfo[mode].impl, MacKey(secInfo[mode].impl), secInfo[mode].key, secInfo[mode].number, 0)
    /\ secInfo[mode].level = command.level /\ secInfo[mode].chain = 1 % ChainLength
SessionInv == Numbered /\ Challenge /\ Authentication /\ Known /\ Proof

\* The opening of a secure channel nothing gets in the way of.
Undisturbed == Busy /\ command.op = "open_sc" /\ handle = "open" /\ ~disturbed
Spoken == (mode = 211 /\ Head(command.todo) # "card_data") => command.scp = card.kind.scp /\ command.impl = card.kind.impl
KeyTold ==
  (xfer # Idle /\ xfer.apdu.ins = "init_update" /\ xfer.ran # Nothing) =>
    /\ xfer.ran = Ok => /\ card.session.st = "init" /\ card.session.number = xfer.heard.number
                        /\ card.session.key = xfer.heard.key /\ Key(xfer.heard.key) \in card.registry
    /\ xfer.ran # Ok => card.selected # "isd" \/ KeyItems \cap card.registry = {}
Excused == card.kind.impl \in BaseKeyImpls \/ (mode = 201 /\ <<card.kind.scp, card.kind.impl>> # <<1, "i05">>)
Prepared ==
  /\ card.session.st = "init" /\ card.session.key = secInfo[mode].key /\ card.session.number = secInfo[mode].number
  /\ secInfo[mode].impl = Protocol[2]
Authenticates ==
  Head(command.todo) = "ext_auth" =>
    /\ xfer # Idle => xfer.apdu.mac # NULL
    /\ xfer = Idle \/ xfer.ran = Nothing => Prepared
    /\ xfer # Idle /\ xfer.ran # Nothing => xfer.ran = Ok \/ Excused
Announced == (Head(command.todo) = "init_update" /\ xfer # Idle) => secInfo[mode].impl = Protocol[2]
Opening == Undisturbed => Spoken /\ Announced /\ (xfer # Idle => xfer.at # "failed") /\ KeyTold /\ Authenticates
OpeningInv == Opening /\ RightKeyOpens


-----------------------------------------------------------------------------
(* Helpers *)

LEMMA ModTwo ==
  ASSUME NEW d \in Nat \ {0}, NEW x \in 0..(2 * d - 1)
  PROVE  x % d = IF x < d THEN x ELSE x - d
OBVIOUS

LEMMA ModIn ==
  ASSUME NEW d \in Nat \ {0}, NEW x \in Int
  PROVE  x % d \in 0..d - 1
OBVIOUS

LEMMA ModSmall ==
  ASSUME NEW d \in Nat \ {0}, NEW x \in Nat, x < d
  PROVE  x % d = x
OBVIOUS

\* What is left of a list of commands.
LEMMA One == \A a : Head(<<a>>) = a /\ Tail(<<a>>) = <<>>
OBVIOUS

LEMMA Two == \A a, b : Head(<<a, b>>) = a /\ Tail(<<a, b>>) = <<b>>
OBVIOUS

LEMMA Three == \A a, b, c : Head(<<a, b, c>>) = a /\ Tail(<<a, b, c>>) = <<b, c>>
OBVIOUS

LEMMA ItemParts == FileItems \subseteq Items /\ AppItems \subseteq Items /\ KeyItems \subseteq Items
BY DEF FileItems, AppItems, KeyItems, Items

-----------------------------------------------------------------------------
(* The card *)

LEMMA NoSessionType == NoSession \in Sessions
BY ChainAssumption DEF NoSession, Sessions, SomeLevels, Chain

LEMMA ResetType ==
  ASSUME NEW c \in Cards
  PROVE  /\ Reset(c) \in Cards /\ Reset(c).kind = c.kind /\ Reset(c).registry = c.registry
         /\ Reset(c).session = NoSession /\ Reset(c).selected = "isd"
BY NoSessionType DEF Cards, Reset

LEMMA CardInitType == CardInit => CardTypes /\ card.session = NoSession /\ card.registry = {Key(FirstKey)}
<1> SUFFICES ASSUME CardInit PROVE CardTypes /\ card.session = NoSession /\ card.registry = {Key(FirstKey)}
  OBVIOUS
<1>1. PICK kind \in CardKinds :
        card = [kind |-> kind, selected |-> "isd", session |-> NoSession,
                registry |-> {Key(FirstKey)}, loading |-> NULL]
  BY DEF CardInit
<1>2. kind \in Kinds
  BY CardAssumption DEF Kinds, Impls
<1>3. Key(FirstKey) \in Items
  BY CardAssumption DEF Items
<1> QED
  BY <1>1, <1>2, <1>3, NoSessionType DEF CardTypes, Cards

LEMMA CountType ==
  ASSUME NEW size \in Nat \ {0}, NEW k \in Nat
  PROVE  /\ SentBefore(size, k) \in Nat /\ Count(size, k) \in Nat /\ HeaderLength(size) \in 4..7
         /\ Count(size, k) <= BlockSize
         /\ Count(size, k) + (IF k = 0 THEN HeaderLength(size) ELSE 0) <= BlockSize
<1>1. HeaderLength(size) \in 4..7 /\ BlockSize \in 131..239
  BY BlocksAssumption DEF HeaderLength
<1>2. k # 0 => k * BlockSize \in Nat /\ k * BlockSize >= BlockSize
  BY <1>1
<1>3. SentBefore(size, k) \in Nat /\ SentBefore(size, k) <= size
  BY <1>1, <1>2 DEF SentBefore, Least
<1> QED
  BY <1>1, <1>3 DEF Count, Least

LEMMA BlockType ==
  ASSUME NEW size \in Nat \ {0}, NEW k \in Nat
  PROVE  LET b == LoadBlock(size, k) IN
         b.number \in Nat /\ b.lc \in 0..BlockSize /\ b.count \in Nat /\ b.last \in BOOLEAN
<1>1. MaxBlocks \in Nat \ {0} /\ BlockSize \in Nat
  BY BlocksAssumption
<1>2. k % MaxBlocks \in Nat
  BY <1>1
<1>3. /\ Count(size, k) \in Nat
      /\ Count(size, k) + (IF k = 0 THEN HeaderLength(size) ELSE 0) \in 0..BlockSize
  <2>0. HeaderLength(size) \in Nat
    BY DEF HeaderLength
  <2>1. /\ Count(size, k) \in Nat
        /\ Count(size, k) + (IF k = 0 THEN HeaderLength(size) ELSE 0) <= BlockSize
    BY CountType
  <2>2. CASE k = 0
    BY <1>1, <2>0, <2>1, <2>2
  <2>3. CASE k # 0
    BY <1>1, <2>1, <2>3
  <2> QED
    BY <2>2, <2>3
<1> QED
  BY <1>2, <1>3 DEF LoadBlock

\* What a content management command changes.
Changed(a, c, d) ==
  CASE a.ins = "load" -> d.registry = IF a.last THEN c.registry \cup {a.arg} ELSE c.registry
    [] a.ins = "install_for_install" -> a.arg \in c.registry /\ d.registry = c.registry \cup {App(a.arg[2])}
    [] a.ins = "delete" -> d.registry = c.registry \ Related(a)
    [] a.ins = "put_key" -> d.registry = (c.registry \ KeyItems) \cup {a.arg}
    [] a.ins = "delete_key" -> d.registry = c.registry \ KeyItems
    [] OTHER -> d.registry = c.registry

LEMMA ContentTypes ==
  ASSUME NEW a \in Apdus, NEW c \in Cards, NEW d \in Content(a, c)
  PROVE  /\ d \in Cards /\ d.kind = c.kind /\ d.selected = c.selected /\ d.session = c.session
         /\ Changed(a, c, d)
<1> DEFINE free == [c EXCEPT !.loading = NULL]
<1>1. /\ free \in Cards /\ free.kind = c.kind /\ free.selected = c.selected /\ free.session = c.session
      /\ free.registry = c.registry
  BY DEF Cards
<1>2. a.ins \in Ins /\ a.arg \in InsArgs(a.ins) /\ a.last \in BOOLEAN /\ a.number \in Nat /\ a.count \in Nat
  BY DEF Apdus, ApduRecords
<1>a. d \in (CASE a.ins = "install_for_load"    -> InstallForLoad(a, free)
    [] a.ins = "load"                -> Load(a, c)
    [] a.ins = "install_for_install" -> InstallForInstall(a, free)
    [] a.ins = "delete"              -> Delete(a, free)
    [] a.ins = "put_key"             -> PutKey(a, free)
    [] a.ins = "delete_key"          -> DeleteKey(a, free)
    [] OTHER                         -> {})
  BY DEF Content
<1> HIDE DEF free
<1>f. ASSUME a.arg \in FileItems PROVE a.arg[2] \in Files /\ a.arg \in Items /\ App(a.arg[2]) \in Items
  BY <1>f DEF FileItems, File, Items
<1>3. CASE a.ins = "install_for_load"
  <2>1. d = [free EXCEPT !.loading = [file |-> a.arg[2], next |-> 0, got |-> 0]]
    BY <1>3, <1>a DEF InstallForLoad, When
  <2>2. [file |-> a.arg[2], next |-> 0, got |-> 0] \in Loads
    BY <1>2, <1>3, <1>f DEF InsArgs, Loads
  <2> QED
    BY <1>1, <1>3, <2>1, <2>2 DEF Cards, Changed
<1>4. CASE a.ins = "load"
  <2>1. /\ c.loading # NULL
        /\ d = IF a.last THEN [c EXCEPT !.loading = NULL, !.registry = @ \cup {a.arg}]
               ELSE [c EXCEPT !.loading.next = @ + 1, !.loading.got = @ + a.count]
    BY <1>4, <1>a DEF Load, When
  <2>2. c.loading \in Loads /\ a.arg \in Items
    BY <1>2, <1>4, <1>f, <2>1 DEF Cards, InsArgs
  <2>3. CASE a.last
    BY <1>4, <2>1, <2>2, <2>3 DEF Cards, Changed
  <2>4. CASE ~a.last
    <3>1. [[c.loading EXCEPT !.next = @ + 1] EXCEPT !.got = @ + a.count] \in Loads
      <4>1. [c.loading EXCEPT !.next = @ + 1] \in Loads
        BY <2>2 DEF Loads
      <4>2. \A l \in Loads : [l EXCEPT !.got = @ + a.count] \in Loads
        BY <1>2 DEF Loads
      <4> QED
        BY <4>1, <4>2
    <3>2. d = [c EXCEPT !.loading = [[c.loading EXCEPT !.next = @ + 1] EXCEPT !.got = @ + a.count]]
      BY <2>1, <2>4 DEF Cards
    <3> QED
      BY <1>4, <2>4, <3>1, <3>2 DEF Cards, Changed
  <2> QED
    BY <1>2, <2>3, <2>4
<1>5. CASE a.ins = "install_for_install"
  <2>1. a.arg \in free.registry /\ d = [free EXCEPT !.registry = @ \cup {App(a.arg[2])}]
    BY <1>5, <1>a DEF InstallForInstall, When
  <2>2. App(a.arg[2]) \in Items
    BY <1>2, <1>5, <1>f DEF InsArgs
  <2> QED
    BY <1>1, <1>5, <2>1, <2>2 DEF Cards, Changed
<1>6. CASE a.ins = "delete"
  <2>1. d = [free EXCEPT !.registry = @ \ Related(a)]
    BY <1>6, <1>a DEF Delete, When
  <2> QED
    BY <1>1, <1>6, <2>1 DEF Cards, Changed
<1>7. CASE a.ins = "put_key"
  <2>1. d = [free EXCEPT !.registry = (@ \ KeyItems) \cup {a.arg}]
    BY <1>7, <1>a DEF PutKey
  <2>2. a.arg \in Items
    BY <1>2, <1>7, ItemParts DEF InsArgs
  <2> QED
    BY <1>1, <1>7, <2>1, <2>2 DEF Cards, Changed
<1>8. CASE a.ins = "delete_key"
  <2>1. d = [free EXCEPT !.registry = @ \ KeyItems]
    BY <1>8, <1>a DEF DeleteKey, When
  <2> QED
    BY <1>1, <1>8, <2>1 DEF Cards, Changed
<1> QED
  BY <1>a, <1>3, <1>4, <1>5, <1>6, <1>7, <1>8

\* What the code of a command does to the session.
SessionAfter(a, r) ==
  LET s == card.session
      t == r.card.session IN
  \/ t = NoSession
  \/ /\ a.ins = "card_data" \/ (a.ins = "init_update" /\ r.sw # Ok)
     /\ t = s
  \/ /\ a.ins = "init_update" /\ r.sw = Ok
     /\ t.st = "init" /\ t.number = a.arg[2] /\ Key(t.key) \in card.registry
  \/ /\ a.ins = "ext_auth" /\ r.sw = Ok
     /\ s.st = "init" /\ a.mac = Mac(card.kind.impl, "mac", s.key, s.number, 0)
     /\ t.st = "open" /\ t.key = s.key /\ t.number = s.number /\ t.level = a.arg[2]
     /\ t.level \in MacLevels => t.chain = 1 % ChainLength
  \/ /\ a.ins \notin {"select", "card_data", "init_update", "ext_auth"} /\ Authentic(a)
     /\ t = Accepted.session

LEMMA AcceptedType ==
  ASSUME CardTypes
  PROVE  /\ Accepted \in Cards /\ Accepted.kind = card.kind /\ Accepted.selected = card.selected
         /\ Accepted.registry = card.registry
         /\ Accepted.session \in Sessions
         /\ Accepted.session.st = card.session.st /\ Accepted.session.key = card.session.key
         /\ Accepted.session.number = card.session.number /\ Accepted.session.level = card.session.level
         /\ Accepted.session.chain = IF card.session.level \in MacLevels THEN (card.session.chain + 1) % ChainLength
                                     ELSE card.session.chain
<1>1. card \in Cards /\ card.session \in Sessions /\ card.session.chain \in Chain
  BY DEF CardTypes, Cards, Sessions
<1>2. (card.session.chain + 1) % ChainLength \in Chain
  <2>1. card.session.chain + 1 \in Int
    BY <1>1, ChainAssumption DEF Chain
  <2>2. (card.session.chain + 1) % ChainLength \in 0..ChainLength - 1
    BY <2>1, ChainAssumption, ModIn
  <2> QED
    BY <2>2 DEF Chain
<1> DEFINE s == [card.session EXCEPT !.chain = (@ + 1) % ChainLength]
<1>3. /\ s \in Sessions /\ s.st = card.session.st /\ s.key = card.session.key
      /\ s.number = card.session.number /\ s.level = card.session.level
      /\ s.chain = (card.session.chain + 1) % ChainLength
  BY <1>1, <1>2 DEF Sessions
<1>4. [card EXCEPT !.session.chain = (@ + 1) % ChainLength] = [card EXCEPT !.session = s]
  BY <1>1 DEF Cards
<1> HIDE DEF s
<1>5. CASE card.session.level \in MacLevels
  <2>1. Accepted = [card EXCEPT !.session = s]
    BY <1>4, <1>5 DEF Accepted
  <2> QED
    BY <1>1, <1>3, <1>5, <2>1 DEF Cards
<1>6. CASE card.session.level \notin MacLevels
  <2>1. Accepted = card
    BY <1>6 DEF Accepted
  <2> QED
    BY <1>1, <1>6, <2>1 DEF Cards
<1> QED
  BY <1>5, <1>6

\* What a card makes of a command.
Summary(a, r) ==
  /\ r.card \in Cards /\ r.card.kind = card.kind /\ r.sw \in Statuses
  /\ IF r.sw = Ok /\ a.ins \in ContentCommands THEN Changed(a, card, r.card)
     ELSE r.card.registry = card.registry
  /\ a.ins # "select" => r.card.selected = card.selected
  /\ SessionAfter(a, r)

LEMMA SelectSummary ==
  ASSUME CardTypes, NEW a \in Apdus, NEW r \in Select(a), a.ins = "select"
  PROVE  Summary(a, r)
<1>1. a.arg[2] \in {"isd", "app"}
  BY DEF Apdus, InsArgs, Domains, ContentCommands
<1>2. r.sw = Ok /\ r.card = [Reset(card) EXCEPT !.selected = a.arg[2]]
  BY DEF Select, Answer, Ok
<1>3. /\ r.card \in Cards /\ r.card.kind = card.kind /\ r.card.registry = card.registry
      /\ r.card.session = NoSession
  BY <1>1, <1>2, ResetType DEF CardTypes, Cards
<1> QED
  BY <1>2, <1>3 DEF Summary, SessionAfter, Statuses, Ok, ContentCommands

LEMMA InitializeSummary ==
  ASSUME CardTypes, NEW a \in Apdus, NEW r \in InitializeUpdate(a), a.ins = "init_update"
  PROVE  /\ Summary(a, r)
         /\ r.card.selected = card.selected /\ r.card.registry = card.registry
         /\ r.sw = Ok => r.card.session.st = "init"
         /\ r.sw # Ok => card.selected # "isd" \/ KeyItems \cap card.registry = {}
<1> DEFINE held == {k \in Keys : Key(k) \in card.registry}
<1>1. a.arg[2] \in 1..5
  BY DEF Apdus, InsArgs, Numbers, ContentCommands
<1>2. CASE card.selected = "isd" /\ held # {}
  <2>1. PICK k \in held : r = Answer("9000", [card EXCEPT !.session =
                              [st |-> "init", number |-> a.arg[2], key |-> k, level |-> 0, chain |-> 0]])
    BY <1>2 DEF InitializeUpdate
  <2> DEFINE s == [st |-> "init", number |-> a.arg[2], key |-> k, level |-> 0, chain |-> 0]
  <2>2. s \in Sessions
    BY <1>1, ChainAssumption DEF Sessions, SomeLevels, Chain
  <2>3. s.st = "init" /\ s.number = a.arg[2] /\ s.key = k
    OBVIOUS
  <2>4. r.sw = Ok /\ r.card = [card EXCEPT !.session = s]
    BY <2>1 DEF Answer, Ok
  <2> HIDE DEF s
  <2>5. /\ r.card \in Cards /\ r.card.kind = card.kind /\ r.card.registry = card.registry
        /\ r.card.session = s /\ r.card.selected = card.selected
    BY <2>2, <2>4 DEF CardTypes, Cards
  <2> QED
    BY <2>3, <2>4, <2>5 DEF Summary, SessionAfter, Statuses, Ok, ContentCommands
<1>3. CASE ~(card.selected = "isd" /\ held # {})
  <2>1. r = Answer("6A88", card)
    BY <1>3 DEF InitializeUpdate
  <2>2. r.sw = <<"6A88", 0>> /\ r.card = card
    BY <2>1 DEF Answer
  <2>3. card.selected # "isd" \/ KeyItems \cap card.registry = {}
    BY <1>3 DEF KeyItems
  <2> QED
    BY <2>2, <2>3 DEF Summary, SessionAfter, Statuses, Ok, ContentCommands, CardTypes
<1> QED
  BY <1>2, <1>3

LEMMA AuthenticateSummary ==
  ASSUME CardTypes, NEW a \in Apdus, NEW r \in ExternalAuthenticate(a), a.ins = "ext_auth"
  PROVE  /\ Summary(a, r)
         /\ r.sw # Ok => ~(card.session.st = "init" /\ a.mac = Mac(card.kind.impl, "mac", card.session.key, card.session.number, 0))
<1>0. card \in Cards /\ card.session \in Sessions
  BY DEF CardTypes, Cards
<1>1. a.arg[2] \in SomeLevels
  BY DEF Apdus, InsArgs, LevelArgs, ContentCommands
<1> DEFINE s == card.session
           right == s.st = "init" /\ a.mac = Mac(card.kind.impl, "mac", s.key, s.number, 0)
           c == IF a.arg[2] \in MacLevels THEN 1 % ChainLength ELSE 0
           t == [[[s EXCEPT !.st = "open"] EXCEPT !.level = a.arg[2]] EXCEPT !.chain = c]
<1>2. c \in Chain
  <2>1. 1 % ChainLength \in Chain /\ 0 \in Chain
    BY ChainAssumption, ModIn DEF Chain
  <2> QED
    BY <2>1
<1>3. CASE right
  <2>1. r.sw = Ok /\ r.card = [card EXCEPT !.session.st = "open", !.session.level = a.arg[2], !.session.chain = c]
    BY <1>3 DEF ExternalAuthenticate, Answer, Ok
  <2> HIDE DEF c
  <2>2. /\ t \in Sessions /\ t.st = "open" /\ t.level = a.arg[2] /\ t.chain = c
        /\ t.key = s.key /\ t.number = s.number
    <3>1. [s EXCEPT !.st = "open"] \in Sessions
      BY <1>0 DEF Sessions
    <3>2. [[s EXCEPT !.st = "open"] EXCEPT !.level = a.arg[2]] \in Sessions
      BY <1>1, <3>1 DEF Sessions
    <3> QED
      BY <1>0, <1>1, <1>2, <3>1, <3>2 DEF Sessions
  <2>3. r.card = [card EXCEPT !.session = t]
    BY <1>0, <2>1 DEF Cards
  <2> HIDE DEF t
  <2>4. /\ r.card \in Cards /\ r.card.kind = card.kind /\ r.card.registry = card.registry
        /\ r.card.session = t /\ r.card.selected = card.selected
    BY <1>0, <2>2, <2>3 DEF Cards
  <2>5. SessionAfter(a, r)
    BY <1>3, <2>1, <2>2, <2>4 DEF SessionAfter, c
  <2> QED
    BY <2>1, <2>4, <2>5 DEF Summary, Statuses, Ok, ContentCommands
<1>4. CASE ~right
  <2>1. r.sw = <<"6982", 0>> /\ r.card = [card EXCEPT !.session = NoSession]
    BY <1>4 DEF ExternalAuthenticate, Answer
  <2>2. /\ r.card \in Cards /\ r.card.kind = card.kind /\ r.card.registry = card.registry
        /\ r.card.session = NoSession /\ r.card.selected = card.selected
    BY <1>0, <2>1, NoSessionType DEF Cards
  <2> QED
    BY <1>4, <2>1, <2>2 DEF Summary, SessionAfter, Statuses, Ok, ContentCommands
<1> QED
  BY <1>3, <1>4

LEMMA ManagedSummary ==
  ASSUME CardTypes, NEW a \in Apdus, NEW r \in Managed(a),
         a.ins \notin {"select", "card_data", "init_update", "ext_auth"}
  PROVE  Summary(a, r)
<1>0. card \in Cards
  BY DEF CardTypes
<1>1. CASE card.selected # "isd" \/ ~Authentic(a)
  <2>1. r.sw = <<"6982", 0>> /\ r.card = [card EXCEPT !.session = NoSession]
    BY <1>1 DEF Managed, Answer
  <2>2. /\ r.card \in Cards /\ r.card.kind = card.kind /\ r.card.registry = card.registry
        /\ r.card.session = NoSession /\ r.card.selected = card.selected
    BY <1>0, <2>1, NoSessionType DEF Cards
  <2> QED
    BY <2>1, <2>2 DEF Summary, SessionAfter, Statuses, Ok
<1>2. CASE ~(card.selected # "isd" \/ ~Authentic(a)) /\ a.ins \in ContentCommands
  <2>1. \/ r = Answer("6985", [Accepted EXCEPT !.loading = NULL])
        \/ \E c \in Content(a, Accepted) : r = Answer("9000", c)
    BY <1>2 DEF Managed
  <2>2. CASE r = Answer("6985", [Accepted EXCEPT !.loading = NULL])
    <3>1. r.sw = <<"6985", 0>> /\ r.card = [Accepted EXCEPT !.loading = NULL]
      BY <2>2 DEF Answer
    <3>2. /\ r.card \in Cards /\ r.card.kind = card.kind /\ r.card.registry = card.registry
          /\ r.card.session = Accepted.session /\ r.card.selected = card.selected
      BY <3>1, AcceptedType DEF Cards
    <3> QED
      BY <1>2, <3>1, <3>2 DEF Summary, SessionAfter, Statuses, Ok
  <2>3. CASE \E c \in Content(a, Accepted) : r = Answer("9000", c)
    <3>1. PICK c \in Content(a, Accepted) : r = Answer("9000", c)
      BY <2>3
    <3>2. r.sw = Ok /\ r.card = c
      BY <3>1 DEF Answer, Ok
    <3>3. /\ c \in Cards /\ c.kind = card.kind /\ c.selected = card.selected /\ c.session = Accepted.session
          /\ Changed(a, Accepted, c)
      BY ContentTypes, AcceptedType
    <3>4. Changed(a, card, c)
      BY <3>3, AcceptedType DEF Changed
    <3> QED
      BY <1>2, <3>2, <3>3, <3>4 DEF Summary, SessionAfter, Statuses, Ok
  <2> QED
    BY <2>1, <2>2, <2>3
<1>3. CASE ~(card.selected # "isd" \/ ~Authentic(a)) /\ a.ins \notin ContentCommands
  <2>1. r = Answer("9000", Accepted) \/ r = Answer("6310", Accepted)
    BY <1>3 DEF Managed, When
  <2>2. r.sw \in Statuses /\ r.card = Accepted
    BY <2>1 DEF Answer, Statuses
  <2> QED
    BY <1>3, <2>2, AcceptedType DEF Summary, SessionAfter
<1> QED
  BY <1>1, <1>2, <1>3

LEMMA ExecuteSummary ==
  ASSUME CardTypes, NEW a \in Apdus, NEW r \in Execute(a)
  PROVE  Summary(a, r)
<1>1. CASE a.ins = "card_data"
  <2>1. r \in {Answer("9000", card), Answer("6A88", card)}
    BY <1>1 DEF Execute
  <2>2. r.sw \in Statuses /\ r.card = card
    BY <2>1 DEF Answer, Statuses
  <2> QED
    BY <1>1, <2>2 DEF Summary, SessionAfter, CardTypes, ContentCommands
<1>2. CASE a.ins = "select"
  BY <1>2, SelectSummary DEF Execute
<1>3. CASE a.ins = "init_update"
  BY <1>3, InitializeSummary DEF Execute
<1>4. CASE a.ins = "ext_auth"
  BY <1>4, AuthenticateSummary DEF Execute
<1>5. CASE a.ins \notin {"select", "card_data", "init_update", "ext_auth"}
  BY <1>5, ManagedSummary DEF Execute
<1> QED
  BY <1>1, <1>2, <1>3, <1>4, <1>5

-----------------------------------------------------------------------------
(* The exchanges of the plugin *)

Exchanged ==
  /\ xfer' \in Xfers /\ card' \in Cards /\ pending' \in Pendings /\ faults' \in 0..MaxFaults
  /\ faults' \in {faults, faults + 1}
  /\ context' = context /\ handle' = handle /\ card'.kind = card.kind
  /\ xfer'.apdu = xfer.apdu /\ xfer'.at # "first"
  /\ handle = "open" /\ xfer'.at = "failed" => faults' = faults + 1
  /\ \/ card' = card /\ xfer'.ran = xfer.ran /\ xfer'.heard = xfer.heard
        /\ (xfer'.at = "failed" \/ xfer.at # "first")
     \/ card' = card /\ xfer.apdu.case = 2 /\ xfer.ran = Nothing /\ xfer'.ran = Nothing
     \/ /\ xfer.ran = Nothing /\ handle = "open"
        /\ \E e \in Execute(xfer.apdu) : card' = e.card /\ xfer'.ran = e.sw /\ xfer'.heard = e.card.session
  /\ ExchangeInv'

LEMMA StatusWords ==
  /\ Statuses \subseteq Words /\ Told \subseteq Words /\ Ok \in Statuses /\ <<"6310", 0>> \in Statuses
  /\ NoClass \in Words /\ NoInstruction \in Words /\ Nothing \in Words
  /\ NoInstruction[1] \notin {"61", "6C", "9F"} /\ NoInstruction # NoClass /\ NoInstruction # Ok
  /\ \A s \in Statuses : /\ s[1] \notin {"61", "6C", "9F"} /\ s # Nothing /\ s # NoClass
                         /\ s # NoInstruction
  /\ \A n \in 1..Most : More(n) \in Told /\ Wrong(n) \in Told /\ Less(n) \in Told
  /\ \A n : More(n)[1] = "61" /\ More(n)[2] = n /\ Wrong(n)[1] = "6C" /\ Wrong(n)[2] = n
            /\ Less(n)[1] = "9F" /\ Less(n)[2] = n
BY DEF Statuses, Words, Told, Ok, Nothing, NoClass, NoInstruction, More, Wrong, Less

LEMMA NoPending ==
  NothingPending \in Pendings /\ NothingPending.data = 0 /\ NothingPending.told = 0 /\ NothingPending.sw = Nothing
BY MostAssumption DEF NothingPending, Pendings

LEMMA LeftType ==
  ASSUME NEW n \in 1..Most, NEW s \in Statuses
  PROVE  Left(n, s) \in Pendings /\ Left(n, s).data = n /\ Left(n, s).sw = s
BY MostAssumption DEF Left, Pendings

LEMMA NamedType ==
  ASSUME NEW n \in 1..Most
  PROVE  Named(n) \in Pendings /\ Named(n).data = 0 /\ Named(n).told = n
BY MostAssumption DEF Named, Pendings

\* GET RESPONSE.
LEMMA FetchCases ==
  ASSUME pending \in Pendings, NEW p \in 0..Most, NEW f \in Fetch(p)
  PROVE  /\ f.pending \in Pendings /\ f.sw \in Words
         /\ \/ pending.data = 0 /\ f.sw \in {NoClass, NoInstruction} /\ f.pending = pending
            \/ /\ pending.data > p /\ f.sw = More(pending.data - p)
               /\ f.pending.data = pending.data - p /\ f.pending.sw = pending.sw
            \/ pending.data > 0 /\ pending.data <= p /\ f.sw = pending.sw
            \/ /\ pending.data > 0 /\ pending.data # p /\ f.sw = Wrong(pending.data)
               /\ f.pending.data = pending.data /\ f.pending.sw = pending.sw
<1>0. pending.data \in 0..Most /\ pending.sw \in Statuses \cup {Nothing} /\ Most \in Nat
  BY MostAssumption DEF Pendings
<1>1. CASE pending.data = 0
  <2>1. f.sw \in {NoClass, NoInstruction} /\ f.pending = pending
    BY <1>1 DEF Fetch
  <2> QED
    BY <1>1, <2>1, StatusWords
<1>2. CASE pending.data # 0
  <2>1. \/ f = [sw |-> IF pending.data > p THEN More(pending.data - p) ELSE pending.sw,
                pending |-> [pending EXCEPT !.data = IF @ > p THEN @ - p ELSE 0]]
        \/ pending.data # p /\ f = [sw |-> Wrong(pending.data), pending |-> [pending EXCEPT !.told = pending.data]]
    BY <1>2 DEF Fetch, When
  <2>2. CASE f = [sw |-> IF pending.data > p THEN More(pending.data - p) ELSE pending.sw,
                  pending |-> [pending EXCEPT !.data = IF @ > p THEN @ - p ELSE 0]]
    <3>1. CASE pending.data > p
      <4>1. f.sw = More(pending.data - p) /\ f.pending = [pending EXCEPT !.data = pending.data - p]
        BY <2>2, <3>1 DEF Pendings
      <4>2. pending.data - p \in 1..Most
        BY <1>0, <3>1
      <4>3. f.pending \in Pendings /\ f.pending.data = pending.data - p /\ f.pending.sw = pending.sw
        BY <1>0, <4>1, <4>2 DEF Pendings
      <4> QED
        BY <3>1, <4>1, <4>2, <4>3, StatusWords
    <3>2. CASE ~(pending.data > p)
      <4>1. f.sw = pending.sw /\ f.pending = [pending EXCEPT !.data = 0]
        BY <2>2, <3>2 DEF Pendings
      <4>2. f.pending \in Pendings
        BY <1>0, <4>1 DEF Pendings
      <4>3. pending.data > 0 /\ pending.data <= p
        BY <1>0, <1>2, <3>2
      <4> QED
        BY <1>0, <4>1, <4>2, <4>3, StatusWords
    <3> QED
      BY <3>1, <3>2
  <2>3. CASE pending.data # p /\ f = [sw |-> Wrong(pending.data), pending |-> [pending EXCEPT !.told = pending.data]]
    <3>1. pending.data \in 1..Most
      BY <1>0, <1>2
    <3>2. f.sw = Wrong(pending.data) /\ f.pending = [pending EXCEPT !.told = pending.data]
      BY <2>3
    <3>3. f.pending \in Pendings /\ f.pending.data = pending.data /\ f.pending.sw = pending.sw
      BY <1>0, <3>2 DEF Pendings
    <3> QED
      BY <2>3, <3>1, <3>2, <3>3, StatusWords
  <2> QED
    BY <2>1, <2>2, <2>3
<1> QED
  BY <1>1, <1>2

\* How the card tells what it has done.
Telling(t, sw, ins, case) ==
  \/ /\ t.sw = sw /\ t.pending = NothingPending
     /\ ~(T0 /\ case = 4 /\ ins \in Answering /\ sw \in {Ok, <<"6310", 0>>})
  \/ /\ sw \in {Ok, <<"6310", 0>>} /\ pending.told = 0
     /\ \E n \in 1..Most :
          /\ t.pending = Left(n, sw)
          /\ \/ case = 3 /\ t.sw = More(n)
             \/ case = 2 /\ T0 /\ t.sw = More(n)
             \/ case = 4 /\ T0 /\ (t.sw = sw \/ \E k \in 1..Most : t.sw \in {More(k), Less(k)})

LEMMA TellCases ==
  ASSUME NEW sw, NEW ins, NEW case, NEW p, NEW t \in Tell(sw, ins, case, p)
  PROVE  Telling(t, sw, ins, case)
<1> DEFINE Plain == [sw |-> sw, pending |-> NothingPending]
           Fetched == T0 /\ case = 4 /\ ins \in Answering /\ sw \in {Ok, <<"6310", 0>>}
<1>1. \/ t = Plain /\ ~Fetched
      \/ t \in (IF sw \notin {Ok, <<"6310", 0>>} \/ pending.told # 0 THEN {}
        ELSE IF case = 3 THEN {[sw |-> More(n), pending |-> Left(n, sw)] : n \in 1..Most}
        ELSE IF case = 2 /\ T0
        THEN {[sw |-> More(n), pending |-> Left(n, sw)] : n \in 1..Most \ {p}}
        ELSE IF case = 4 /\ T0
        THEN {[sw |-> s, pending |-> Left(n, sw)] : s \in UNION {{More(n), Less(n), sw} : n \in 1..Most}, n \in 1..Most}
        ELSE {})
  BY DEF Tell, When
<1>2. CASE t = Plain /\ ~Fetched
  BY <1>2 DEF Telling
<1>3. CASE ~(t = Plain /\ ~Fetched)
  <2>1. sw \in {Ok, <<"6310", 0>>} /\ pending.told = 0
    BY <1>1, <1>3
  <2>2. CASE case = 3
    BY <1>1, <1>3, <2>1, <2>2 DEF Telling
  <2>3. CASE case = 2 /\ T0
    BY <1>1, <1>3, <2>1, <2>3 DEF Telling
  <2>4. CASE case = 4 /\ T0
    <3>1. PICK s \in UNION {{More(n), Less(n), sw} : n \in 1..Most}, n \in 1..Most :
            t = [sw |-> s, pending |-> Left(n, sw)]
      BY <1>1, <1>3, <2>1, <2>4
    <3>2. t.sw = s /\ t.pending = Left(n, sw)
      BY <3>1
    <3>3. s = sw \/ \E k \in 1..Most : s \in {More(k), Less(k)}
      OBVIOUS
    <3> QED
      BY <2>1, <2>4, <3>2, <3>3 DEF Telling
  <2> QED
    BY <1>1, <1>3, <2>1, <2>2, <2>3, <2>4
<1> QED
  BY <1>2, <1>3

\* The command itself.
LEMMA RunCases ==
  ASSUME NEW a, NEW p, NEW x \in Run(a, p)
  PROVE  \/ \E e \in Execute(a) : x.card = e.card /\ x.ran = e.sw /\ Telling(x, e.sw, a.ins, a.case)
         \/ /\ T0 /\ a.case = 2 /\ pending.told = 0 /\ x.card = card /\ x.ran = Nothing
            /\ \E n \in 1..Most : x.sw = Wrong(n) /\ x.pending = Named(n)
<1> DEFINE A == UNION {{[sw |-> t.sw, pending |-> t.pending, card |-> r.card, ran |-> r.sw] :
                          t \in Tell(r.sw, a.ins, a.case, p)} : r \in Execute(a)}
           B == {[sw |-> Wrong(n), pending |-> Named(n), card |-> card, ran |-> Nothing] :
                   n \in IF T0 /\ a.case = 2 /\ pending.told = 0 THEN 1..Most \ {p} ELSE {}}
<1>0. x \in A \cup B
  BY Zenon DEF Run
<1>1. CASE x \in A
  <2>1. PICK e \in Execute(a) :
          x \in {[sw |-> t.sw, pending |-> t.pending, card |-> e.card, ran |-> e.sw] : t \in Tell(e.sw, a.ins, a.case, p)}
    BY <1>1
  <2>2. PICK t \in Tell(e.sw, a.ins, a.case, p) : x = [sw |-> t.sw, pending |-> t.pending, card |-> e.card, ran |-> e.sw]
    BY <2>1
  <2>3. Telling(t, e.sw, a.ins, a.case)
    BY TellCases
  <2>4. x.sw = t.sw /\ x.pending = t.pending /\ x.card = e.card /\ x.ran = e.sw
    BY <2>2
  <2>5. Telling(x, e.sw, a.ins, a.case)
    BY <2>3, <2>4 DEF Telling
  <2> QED
    BY <2>4, <2>5
<1>2. CASE x \in B
  <2>1. T0 /\ a.case = 2 /\ pending.told = 0
    BY <1>2
  <2>2. PICK n \in 1..Most : x = [sw |-> Wrong(n), pending |-> Named(n), card |-> card, ran |-> Nothing]
    BY <1>2, <2>1
  <2> QED
    BY <2>1, <2>2
<1> HIDE DEF A, B
<1> QED
  BY <1>0, <1>1, <1>2

\* What is kept of an exchange.
LEMMA Completed ==
  ASSUME xfer \in Xfers, faults \in 0..MaxFaults, NEW z \in Xfers, NEW get \in BOOLEAN, NEW r,
         r.card \in Cards, r.ran \in Statuses \cup {Nothing}, Answered(r, z, get)
  PROVE  /\ xfer' \in Xfers /\ card' = r.card /\ pending' = r.pending /\ handle = "open"
         /\ context' = context /\ handle' = handle
         /\ xfer'.apdu = z.apdu /\ xfer'.sw = z.sw /\ xfer'.le = z.le /\ xfer'.get = get /\ xfer'.ran = r.ran
         /\ xfer'.heard = IF get THEN xfer.heard ELSE r.card.session
         /\ faults' \in 0..MaxFaults
         /\ (xfer'.at = z.at /\ faults' = faults) \/ (xfer'.at = "failed" /\ faults' = faults + 1)
<1> DEFINE h == IF get THEN xfer.heard ELSE r.card.session
           x == [z EXCEPT !.get = get, !.ran = r.ran, !.heard = h]
<1>1. h \in Sessions
  BY DEF Xfers, Cards
<1> HIDE DEF h
<1>2. /\ x \in Xfers /\ x.apdu = z.apdu /\ x.sw = z.sw /\ x.le = z.le /\ x.get = get /\ x.ran = r.ran
      /\ x.heard = h /\ x.at = z.at
  BY <1>1 DEF Xfers
<1>3. \/ xfer' = x /\ UNCHANGED faults
      \/ faults < MaxFaults /\ faults' = faults + 1 /\ xfer' = [x EXCEPT !.at = "failed"]
  BY DEF Answered, h
<1> HIDE DEF x
<1>4. CASE xfer' = x /\ UNCHANGED faults
  BY <1>2, <1>4 DEF Answered, h
<1>5. CASE faults < MaxFaults /\ faults' = faults + 1 /\ xfer' = [x EXCEPT !.at = "failed"]
  <2>1. /\ xfer' \in Xfers /\ xfer'.apdu = z.apdu /\ xfer'.sw = z.sw /\ xfer'.le = z.le
        /\ xfer'.get = get /\ xfer'.ran = r.ran /\ xfer'.heard = h /\ xfer'.at = "failed"
    BY <1>2, <1>5 DEF Xfers
  <2>2. faults' \in 0..MaxFaults
    BY <1>5, MostAssumption
  <2> QED
    BY <1>5, <2>1, <2>2 DEF Answered, h
<1> QED
  BY <1>3, <1>4, <1>5

LEMMA FailedStep ==
  ASSUME Types, xfer \in Xfers, ExchangeInv, Failed
  PROVE  Exchanged
<1>1. faults \in 0..MaxFaults /\ card \in Cards /\ pending \in Pendings
  BY DEF Types, CardTypes, ConnTypes
<1>2. /\ xfer' \in Xfers /\ xfer'.apdu = xfer.apdu /\ xfer'.at = "failed"
      /\ xfer'.ran = xfer.ran /\ xfer'.heard = xfer.heard
  BY DEF Failed, Xfers
<1>3. faults' \in 0..MaxFaults /\ faults' \in {faults, faults + 1} /\ (handle = "open" => faults' = faults + 1)
  BY <1>1, MostAssumption DEF Failed
<1>4. ExchangeInv'
  BY <1>2 DEF ExchangeInv, ExchangeAt, Idle
<1> QED
  BY <1>1, <1>2, <1>3, <1>4 DEF Failed, Exchanged

\* Where the loop over the status goes.
NextAt(sw) == IF sw[1] \in LoopsOn THEN "loop" ELSE IF sw[1] = "61" THEN "tail" ELSE "done"
LEMMA LoopingFields ==
  ASSUME xfer \in Xfers, NEW sw \in Words
  PROVE  /\ Looping(sw) \in Xfers /\ Looping(sw).sw = sw /\ Looping(sw).at = NextAt(sw)
         /\ Looping(sw).apdu = xfer.apdu /\ Looping(sw).le = xfer.le
         /\ Ending(sw) \in Xfers /\ Ending(sw).sw = sw
         /\ Ending(sw).at = IF sw[1] = "61" THEN "tail" ELSE "done"
         /\ Ending(sw).apdu = xfer.apdu /\ Ending(sw).le = xfer.le
<1>1. \A k \in {"loop", "tail", "done"} :
        LET y == [xfer EXCEPT !.sw = sw, !.at = k] IN
        y \in Xfers /\ y.sw = sw /\ y.at = k /\ y.apdu = xfer.apdu /\ y.le = xfer.le
  BY DEF Xfers
<1> DEFINE e == IF sw[1] = "61" THEN "tail" ELSE "done"
<1>2. e \in {"loop", "tail", "done"} /\ Ending(sw) = [xfer EXCEPT !.sw = sw, !.at = e]
  BY DEF Ending
<1>3. CASE sw[1] \in LoopsOn
  BY <1>1, <1>2, <1>3 DEF Looping, NextAt
<1>4. CASE sw[1] \notin LoopsOn
  BY <1>1, <1>2, <1>4 DEF Looping, NextAt
<1> QED
  BY <1>3, <1>4

LEMMA WithLe ==
  ASSUME NEW z \in Xfers, NEW l \in 0..Most
  PROVE  LET y == [z EXCEPT !.le = l] IN
         y \in Xfers /\ y.sw = z.sw /\ y.at = z.at /\ y.apdu = z.apdu /\ y.le = l
BY DEF Xfers

LEMMA FirstAfterFields ==
  ASSUME xfer \in Xfers, NEW sw \in Words
  PROVE  /\ FirstAfter(sw) \in Xfers /\ FirstAfter(sw).sw = sw
         /\ FirstAfter(sw).apdu = xfer.apdu
         /\ FirstAfter(sw).at =
              IF T0 /\ xfer.apdu.case = 2 THEN NextAt(sw)
              ELSE IF T0 /\ xfer.apdu.case = 4
              THEN IF sw[1] \in {"61", "9000", "9F"} THEN "get" ELSE NextAt(sw)
              ELSE IF sw[1] = "61" THEN "tail" ELSE "done"
<1>1. LET y == [xfer EXCEPT !.sw = sw, !.at = "get"] IN
      y \in Xfers /\ y.sw = sw /\ y.at = "get" /\ y.apdu = xfer.apdu
  BY DEF Xfers
<1>2. CASE T0 /\ xfer.apdu.case = 2
  BY <1>2, LoopingFields DEF FirstAfter
<1>3. CASE T0 /\ xfer.apdu.case = 4 /\ sw[1] \in {"61", "9000", "9F"}
  <2>1. FirstAfter(sw) = [xfer EXCEPT !.sw = sw, !.at = "get"]
    BY <1>3 DEF FirstAfter
  <2> QED
    BY <1>1, <1>3, <2>1
<1>4. CASE T0 /\ xfer.apdu.case = 4 /\ sw[1] \notin {"61", "9000", "9F"}
  BY <1>4, LoopingFields DEF FirstAfter
<1>5. CASE ~(T0 /\ xfer.apdu.case \in {2, 4})
  BY <1>5, LoopingFields DEF FirstAfter
<1> QED
  BY <1>2, <1>3, <1>4, <1>5

LEMMA StatusNext ==
  ASSUME NEW sw \in Statuses
  PROVE  NextAt(sw) = "done" /\ (sw[1] = "9000" => sw = Ok)
BY StatusWords DEF NextAt, LoopsOn, Statuses, Ok

LEMMA ToldNext ==
  ASSUME NEW n
  PROVE  NextAt(More(n)) = "loop" /\ NextAt(Wrong(n)) = "loop"
BY StatusWords DEF NextAt, LoopsOn

\* What an exchange must leave, for each place it may leave the command at.
LEMMA ExchangeFailed ==
  ASSUME xfer' # Idle, xfer'.at = "failed"
  PROVE  ExchangeInv'
BY DEF ExchangeInv, ExchangeAt, Unanswered

LEMMA ExchangeDone ==
  ASSUME xfer' # Idle, xfer'.at = "done", xfer'.sw = xfer'.ran, xfer'.ran # Nothing
  PROVE  ExchangeInv'
BY DEF ExchangeInv, ExchangeAt, Unanswered

LEMMA ExchangeRefused ==
  ASSUME xfer' # Idle, xfer'.at = "done", xfer'.sw = NoInstruction, xfer'.ran # Nothing, Unanswered'
  PROVE  ExchangeInv'
BY DEF ExchangeInv, ExchangeAt, Unanswered

LEMMA ExchangeGet ==
  ASSUME xfer' # Idle, xfer'.at = "get", xfer'.ran # Nothing,
         \/ /\ pending'.data > 0 /\ pending'.sw = xfer'.ran /\ xfer'.ran \in {Ok, <<"6310", 0>>}
            /\ T0' /\ xfer'.apdu.case = 4
         \/ pending'.data = 0 /\ xfer'.sw = Ok /\ Unanswered'
  PROVE  ExchangeInv'
BY DEF ExchangeInv, ExchangeAt, Unanswered

LEMMA ExchangeLoop ==
  ASSUME xfer' # Idle, xfer'.at = "loop", xfer'.ran # Nothing,
         pending'.data > 0, pending'.sw = xfer'.ran, xfer'.ran \in {Ok, <<"6310", 0>>},
         xfer'.sw[2] = pending'.data, xfer'.sw[1] = "6C" => xfer'.get
  PROVE  ExchangeInv'
BY DEF ExchangeInv, ExchangeAt, Unanswered

LEMMA ExchangeTail ==
  ASSUME xfer' # Idle, xfer'.at = "tail", xfer'.ran # Nothing,
         pending'.data > 0, pending'.sw = xfer'.ran, xfer'.ran \in {Ok, <<"6310", 0>>},
         xfer'.sw = More(pending'.data)
  PROVE  ExchangeInv'
BY DEF ExchangeInv, ExchangeAt, Unanswered

LEMMA ExchangeAgain ==
  ASSUME xfer' # Idle, xfer'.at = "loop", xfer'.ran = Nothing, pending'.data = 0,
         xfer'.sw = Wrong(pending'.told), ~xfer'.get, xfer'.apdu.case = 2, xfer'.apdu.mac = NULL
  PROVE  ExchangeInv'
BY DEF ExchangeInv, ExchangeAt, Unanswered

LEMMA XferTyped ==
  ASSUME Types, xfer # Idle
  PROVE  /\ xfer \in Xfers /\ xfer.apdu \in Apdus /\ card \in Cards /\ pending \in Pendings
         /\ faults \in 0..MaxFaults /\ CardTypes
BY DEF Types, ConnTypes, CardTypes, Xfers

LEMMA NotIdle == \A x \in Xfers : x # Idle
BY DEF Xfers, Idle

\* The answer to the command, and what is made of it.
LEMMA RunTypes ==
  ASSUME CardTypes, NEW a \in Apdus, NEW p, NEW r \in Run(a, p)
  PROVE  /\ r.sw \in Words /\ r.pending \in Pendings /\ r.card \in Cards /\ r.card.kind = card.kind
         /\ r.ran \in Statuses \cup {Nothing}
<1>1. ASSUME NEW e \in Execute(a), r.card = e.card, r.ran = e.sw, Telling(r, e.sw, a.ins, a.case)
      PROVE  /\ r.sw \in Words /\ r.pending \in Pendings /\ r.card \in Cards /\ r.card.kind = card.kind
             /\ r.ran \in Statuses \cup {Nothing}
  <2>1. e.card \in Cards /\ e.card.kind = card.kind /\ e.sw \in Statuses
    BY ExecuteSummary DEF Summary
  <2>2. r.sw \in Words /\ r.pending \in Pendings
    BY <1>1, <2>1, NoPending, LeftType, StatusWords DEF Telling
  <2> QED
    BY <1>1, <2>1, <2>2
<1>2. ASSUME r.card = card, r.ran = Nothing, NEW n \in 1..Most, r.sw = Wrong(n), r.pending = Named(n)
      PROVE  /\ r.sw \in Words /\ r.pending \in Pendings /\ r.card \in Cards /\ r.card.kind = card.kind
             /\ r.ran \in Statuses \cup {Nothing}
  BY <1>2, NamedType, StatusWords DEF CardTypes
<1> QED
  BY <1>1, <1>2, RunCases

LEMMA FirstStep ==
  ASSUME Types, ExchangeInv, First
  PROVE  Exchanged
<1>0. xfer # Idle /\ xfer.at = "first"
  <2>1. xfer.at = "first"
    BY DEF First
  <2> QED
    BY <2>1 DEF Idle
<1>1. /\ xfer \in Xfers /\ xfer.apdu \in Apdus /\ card \in Cards /\ pending \in Pendings
      /\ faults \in 0..MaxFaults /\ CardTypes
  BY <1>0, XferTyped
<1>2. Failed \/ \E r \in Run(xfer.apdu, xfer.le) : Answered(r, FirstAfter(r.sw), FALSE)
  BY DEF First
<1>3. CASE Failed
  BY <1>1, <1>3, FailedStep
<1>4. ASSUME NEW r \in Run(xfer.apdu, xfer.le), Answered(r, FirstAfter(r.sw), FALSE)
      PROVE  Exchanged
  <2>1. xfer.ran = Nothing /\ handle = "open" /\ pending = NothingPending
    BY <1>0, <1>4 DEF ExchangeInv, ExchangeAt, Answered
  <2>t. /\ r.sw \in Words /\ r.pending \in Pendings /\ r.card \in Cards /\ r.card.kind = card.kind
        /\ r.ran \in Statuses \cup {Nothing}
    BY <1>1, RunTypes
  <2> DEFINE z == FirstAfter(r.sw)
             case == xfer.apdu.case
  <2>2. /\ z \in Xfers /\ z.sw = r.sw /\ z.apdu = xfer.apdu
        /\ z.at = IF T0 /\ case = 2 THEN NextAt(r.sw)
                  ELSE IF T0 /\ case = 4
                  THEN IF r.sw[1] \in {"61", "9000", "9F"} THEN "get" ELSE NextAt(r.sw)
                  ELSE IF r.sw[1] = "61" THEN "tail" ELSE "done"
    BY <1>1, <2>t, FirstAfterFields
  <2>3. z.at \in {"get", "loop", "tail", "done"}
    BY <2>2 DEF NextAt
  <2>4. Answered(r, z, FALSE)
    BY <1>4
  <2> HIDE DEF z
  <2>5. /\ xfer' \in Xfers /\ card' = r.card /\ pending' = r.pending
        /\ context' = context /\ handle' = handle
        /\ xfer'.apdu = xfer.apdu /\ xfer'.sw = r.sw /\ xfer'.get = FALSE /\ xfer'.ran = r.ran
        /\ xfer'.heard = r.card.session
        /\ faults' \in 0..MaxFaults
        /\ (xfer'.at = z.at /\ faults' = faults) \/ (xfer'.at = "failed" /\ faults' = faults + 1)
    BY <1>1, <2>t, <2>2, <2>4, Completed
  <2>6. xfer' # Idle /\ T0' = T0
    BY <2>t, <2>5, NotIdle DEF T0
  <2> HIDE DEF case
  <2>7. (\/ xfer.apdu.case = 2 /\ card' = card /\ r.ran = Nothing
         \/ \E e \in Execute(xfer.apdu) : r.card = e.card /\ r.ran = e.sw)
        /\ ExchangeInv' => Exchanged
    BY <1>0, <1>1, <2>t, <2>1, <2>3, <2>5 DEF Exchanged
  <2>8. ASSUME NEW e \in Execute(xfer.apdu), r.card = e.card, r.ran = e.sw, Telling(r, e.sw, xfer.apdu.ins, case),
               xfer'.at = z.at
        PROVE  ExchangeInv'
    <3>1. e.sw \in Statuses /\ e.sw # Nothing
      BY <1>1, ExecuteSummary, StatusWords DEF Summary
    <3>2. CASE /\ r.sw = e.sw /\ r.pending = NothingPending
               /\ ~(T0 /\ case = 4 /\ xfer.apdu.ins \in Answering /\ e.sw \in {Ok, <<"6310", 0>>})
      <4>1. NextAt(e.sw) = "done" /\ e.sw[1] \notin {"61", "9F"} /\ (e.sw[1] = "9000" => e.sw = Ok)
        BY <3>1, StatusNext, StatusWords
      <4>2. z.at = "done" \/ (z.at = "get" /\ e.sw = Ok /\ T0 /\ case = 4)
        BY <2>2, <3>2, <4>1
      <4>3. CASE z.at = "done"
        BY <2>5, <2>6, <2>8, <3>1, <3>2, <4>3, ExchangeDone
      <4>4. CASE z.at = "get" /\ e.sw = Ok /\ T0 /\ case = 4
        <5>1. Unanswered'
          BY <2>5, <2>6, <2>8, <3>2, <4>4 DEF Unanswered, case
        <5> QED
          BY <2>5, <2>6, <2>8, <3>1, <3>2, <4>4, <5>1, ExchangeGet, NoPending
      <4> QED
        BY <4>2, <4>3, <4>4
    <3>3. ASSUME NEW n \in 1..Most, e.sw \in {Ok, <<"6310", 0>>}, r.pending = Left(n, e.sw),
                 \/ case = 3 /\ r.sw = More(n)
                 \/ case = 2 /\ T0 /\ r.sw = More(n)
                 \/ case = 4 /\ T0 /\ (r.sw = e.sw \/ \E k \in 1..Most : r.sw \in {More(k), Less(k)})
          PROVE  ExchangeInv'
      <4>1. pending'.data = n /\ pending'.sw = e.sw /\ n > 0 /\ xfer'.ran = e.sw
        BY <2>5, <2>8, <3>1, <3>3, LeftType
      <4>2. CASE case = 3 /\ r.sw = More(n)
        <5>1. z.at = "tail"
          BY <2>2, <4>2, StatusWords
        <5>2. xfer'.sw = More(pending'.data)
          BY <2>5, <4>1, <4>2
        <5> QED
          BY <2>6, <2>8, <3>1, <3>3, <4>1, <5>1, <5>2, ExchangeTail
      <4>3. CASE case = 2 /\ T0 /\ r.sw = More(n)
        <5>1. z.at = "loop" /\ r.sw[1] = "61" /\ r.sw[2] = n
          BY <2>2, <4>3, StatusWords, ToldNext
        <5> QED
          BY <2>5, <2>6, <2>8, <3>1, <3>3, <4>1, <5>1, ExchangeLoop
      <4>4. CASE case = 4 /\ T0 /\ r.sw = e.sw
        <5>1. z.at = "done" \/ z.at = "get"
          BY <2>2, <3>1, <4>4, StatusNext
        <5>2. CASE z.at = "done"
          BY <2>5, <2>6, <2>8, <3>1, <4>1, <4>4, <5>2, ExchangeDone
        <5>3. CASE z.at = "get"
          BY <2>5, <2>6, <2>8, <3>1, <3>3, <4>1, <4>4, <5>3, ExchangeGet DEF case
        <5> QED
          BY <5>1, <5>2, <5>3
      <4>5. ASSUME case = 4, T0, NEW k \in 1..Most, r.sw \in {More(k), Less(k)}
            PROVE  ExchangeInv'
        <5>1. r.sw[1] \in {"61", "9F"}
          BY <4>5, StatusWords
        <5>2. z.at = "get"
          BY <2>2, <4>5, <5>1
        <5> QED
          BY <2>5, <2>6, <2>8, <3>1, <3>3, <4>1, <4>5, <5>2, ExchangeGet DEF case
      <4> QED
        BY <3>3, <4>2, <4>3, <4>4, <4>5
    <3> QED
      BY <2>8, <3>2, <3>3 DEF Telling
  <2>9. ASSUME T0, case = 2, r.ran = Nothing, NEW n \in 1..Most, r.sw = Wrong(n), r.pending = Named(n),
               xfer'.at = z.at
        PROVE  ExchangeInv'
    <3>1. r.sw[1] = "6C" /\ pending'.data = 0 /\ pending'.told = n
      BY <2>5, <2>9, StatusWords, NamedType
    <3>2. z.at = "loop"
      BY <2>2, <2>9, ToldNext
    <3>3. xfer.apdu.mac = NULL
      BY <1>1, <2>9 DEF Apdus, case
    <3> QED
      BY <2>5, <2>6, <2>9, <3>1, <3>2, <3>3, ExchangeAgain DEF case
  <2>10. CASE xfer'.at = "failed"
    <3>1. ExchangeInv'
      BY <2>6, <2>10, ExchangeFailed
    <3> QED
      BY <2>5, <2>7, <3>1, RunCases
  <2>11. CASE xfer'.at = z.at
    <3>1. ASSUME NEW e \in Execute(xfer.apdu), r.card = e.card, r.ran = e.sw, Telling(r, e.sw, xfer.apdu.ins, xfer.apdu.case)
          PROVE  Exchanged
      BY <2>7, <2>8, <2>11, <3>1 DEF case
    <3>2. ASSUME T0, xfer.apdu.case = 2, r.card = card, r.ran = Nothing,
                 NEW n \in 1..Most, r.sw = Wrong(n), r.pending = Named(n)
          PROVE  Exchanged
      BY <2>5, <2>7, <2>9, <2>11, <3>2 DEF case
    <3> QED
      BY <3>1, <3>2, RunCases
  <2> QED
    BY <2>5, <2>10, <2>11
<1> QED
  BY <1>2, <1>3, <1>4

LEMMA WordParts ==
  \A w \in Words : w[2] \in 0..Most /\ (w[1] \in {"61", "6C", "9F"} => w[2] \in 1..Most)
BY MostAssumption DEF Words, Statuses, Told, Nothing, NoClass, NoInstruction

\* An answer to GET RESPONSE.
FetchAnswered(f, z) ==
  Answered([sw |-> f.sw, pending |-> f.pending, card |-> card, ran |-> xfer.ran], z, TRUE)

LEMMA FetchedSetParts ==
  ASSUME NEW p, NEW r \in FetchedSet(p)
  PROVE  \E f \in Fetch(p) : r = [sw |-> f.sw, pending |-> f.pending, card |-> card, ran |-> xfer.ran] /\ r.sw = f.sw
BY DEF FetchedSet

LEMMA FetchStep ==
  ASSUME Types, xfer # Idle, xfer.at # "first", NEW p \in 0..Most, NEW f \in Fetch(p),
         NEW z \in Xfers, z.apdu = xfer.apdu, z.at \notin {"first", "failed"}, FetchAnswered(f, z)
  PROVE  /\ xfer' # Idle /\ pending' = f.pending /\ T0' = T0
         /\ xfer'.apdu = xfer.apdu /\ xfer'.sw = z.sw /\ xfer'.get = TRUE /\ xfer'.ran = xfer.ran
         /\ xfer'.at = z.at \/ ExchangeInv'
         /\ ExchangeInv' => Exchanged
<1>1. /\ xfer \in Xfers /\ xfer.apdu \in Apdus /\ card \in Cards /\ pending \in Pendings
      /\ faults \in 0..MaxFaults /\ CardTypes
  BY XferTyped
<1> DEFINE r == [sw |-> f.sw, pending |-> f.pending, card |-> card, ran |-> xfer.ran]
<1>2. r.card = card /\ r.pending = f.pending /\ r.ran = xfer.ran /\ Answered(r, z, TRUE)
  BY DEF FetchAnswered
<1> HIDE DEF r
<1>3. xfer.ran \in Statuses \cup {Nothing} /\ f.pending \in Pendings
  BY <1>1, FetchCases DEF Xfers
<1>4. /\ xfer' \in Xfers /\ card' = r.card /\ pending' = r.pending
      /\ context' = context /\ handle' = handle
      /\ xfer'.apdu = z.apdu /\ xfer'.sw = z.sw /\ xfer'.get = TRUE /\ xfer'.ran = r.ran
      /\ xfer'.heard = xfer.heard
      /\ faults' \in 0..MaxFaults
      /\ (xfer'.at = z.at /\ faults' = faults) \/ (xfer'.at = "failed" /\ faults' = faults + 1)
  BY <1>1, <1>2, <1>3, Completed
<1>5. xfer' # Idle /\ T0' = T0
  BY <1>2, <1>4, NotIdle DEF T0
<1>6. xfer'.at = z.at \/ ExchangeInv'
  BY <1>4, <1>5, ExchangeFailed
<1>7. ExchangeInv' => Exchanged
  BY <1>1, <1>2, <1>3, <1>4 DEF Exchanged
<1> QED
  BY <1>2, <1>4, <1>5, <1>6, <1>7

LEMMA GetResponseStep ==
  ASSUME Types, ExchangeInv, GetResponse
  PROVE  Exchanged
<1>0. xfer # Idle /\ xfer.at = "get"
  <2>1. xfer.at = "get"
    BY DEF GetResponse
  <2> QED
    BY <2>1 DEF Idle
<1>1. /\ xfer \in Xfers /\ xfer.apdu \in Apdus /\ card \in Cards /\ pending \in Pendings
      /\ faults \in 0..MaxFaults /\ CardTypes
  BY <1>0, XferTyped
<1>a. Failed \/ \E r \in FetchedSet(Wanted) : Answered(r, [Looping(Restored(r.sw)) EXCEPT !.le = Wanted], TRUE)
  BY DEF GetResponse
<1>2. Failed \/ \E f \in Fetch(Wanted) : FetchAnswered(f, [Looping(Restored(f.sw)) EXCEPT !.le = Wanted])
  BY ZenonT(40), <1>a, FetchedSetParts DEF FetchAnswered
<1>3. CASE Failed
  BY <1>1, <1>3, FailedStep
<1>4. ASSUME NEW f \in Fetch(Wanted), FetchAnswered(f, [Looping(Restored(f.sw)) EXCEPT !.le = Wanted])
      PROVE  Exchanged
  <2>1. handle = "open"
    BY <1>4 DEF FetchAnswered, Answered
  <2>2. \/ pending.data > 0 /\ pending.sw = xfer.ran /\ xfer.ran \in {Ok, <<"6310", 0>>} /\ T0 /\ xfer.apdu.case = 4
        \/ pending.data = 0 /\ xfer.sw = Ok /\ xfer.ran = Ok /\ Unanswered
    BY <1>0, <2>1 DEF Unanswered, ExchangeInv, ExchangeAt
  <2>3. Wanted \in 0..Most /\ xfer.sw \in Words
    BY <1>1, WordParts DEF Wanted, Xfers
  <2>4. f.sw \in Words /\ Restored(f.sw) \in Words
    BY <1>1, <2>3, FetchCases DEF Restored
  <2> DEFINE z == [Looping(Restored(f.sw)) EXCEPT !.le = Wanted]
  <2>5. z \in Xfers /\ z.sw = Restored(f.sw) /\ z.at = NextAt(Restored(f.sw)) /\ z.apdu = xfer.apdu
    BY <1>1, <2>3, <2>4, LoopingFields, WithLe
  <2>6. z.at \notin {"first", "failed"} /\ FetchAnswered(f, z)
    BY <1>4, <2>5 DEF NextAt
  <2> HIDE DEF z
  <2>7. /\ xfer' # Idle /\ pending' = f.pending /\ T0' = T0
        /\ xfer'.apdu = xfer.apdu /\ xfer'.sw = z.sw /\ xfer'.get = TRUE /\ xfer'.ran = xfer.ran
        /\ xfer'.at = z.at \/ ExchangeInv'
        /\ ExchangeInv' => Exchanged
    BY <1>0, <2>3, <2>5, <2>6, FetchStep
  <2>8. ASSUME xfer'.at = z.at PROVE ExchangeInv'
    <3>0. xfer.ran \in Statuses /\ xfer.ran # Nothing
      BY <2>2, StatusWords
    <3>1. CASE pending.data = 0
      <4>1. f.sw \in {NoClass, NoInstruction} /\ xfer.sw = Ok /\ xfer.ran = Ok /\ Unanswered
        BY <1>1, <2>2, <2>3, <3>1, FetchCases DEF Pendings
      <4>2. CASE f.sw = NoClass
        <5>1. Restored(f.sw) = Ok
          BY <4>1, <4>2 DEF Restored
        <5>2. z.at = "done"
          BY <2>5, <5>1, StatusNext, StatusWords
        <5> QED
          BY <2>5, <2>7, <2>8, <3>0, <4>1, <5>1, <5>2, ExchangeDone
      <4>3. CASE f.sw = NoInstruction
        <5>1. Restored(f.sw) = NoInstruction
          BY <4>3, StatusWords DEF Restored
        <5>2. z.at = "done"
          BY <2>5, <5>1, StatusWords DEF NextAt, LoopsOn
        <5>3. Unanswered'
          BY <2>7, <4>1 DEF Unanswered
        <5> QED
          BY <2>5, <2>7, <2>8, <3>0, <5>1, <5>2, <5>3, ExchangeRefused
      <4> QED
        BY <4>1, <4>2, <4>3
    <3>2. CASE pending.data # 0
      <4>1. pending.sw = xfer.ran /\ xfer.ran \in {Ok, <<"6310", 0>>}
        BY <2>2, <3>2
      <4>2. CASE pending.data > Wanted /\ f.sw = More(pending.data - Wanted)
                 /\ f.pending.data = pending.data - Wanted /\ f.pending.sw = pending.sw
        <5>0. pending.data \in Nat /\ Wanted \in Nat
          BY <1>1, <2>3, MostAssumption DEF Pendings
        <5> DEFINE d == pending.data - Wanted
        <5>1. d > 0 /\ f.sw = More(d) /\ f.pending.data = d
          BY <4>2, <5>0
        <5> HIDE DEF d
        <5>2. Restored(f.sw) = More(d)
          BY <5>1 DEF Restored, More, NoClass
        <5>3. z.at = "loop" /\ xfer'.sw[1] = "61" /\ xfer'.sw[2] = d
          BY <2>5, <2>7, <5>2, StatusWords, ToldNext
        <5> QED
          BY <2>7, <2>8, <3>0, <4>1, <4>2, <5>1, <5>3, ExchangeLoop
      <4>3. CASE f.sw = pending.sw
        <5>1. Restored(f.sw) = xfer.ran
          BY <3>0, <4>1, <4>3, StatusWords DEF Restored
        <5>2. z.at = "done"
          BY <2>5, <3>0, <5>1, StatusNext
        <5> QED
          BY <2>5, <2>7, <2>8, <3>0, <5>1, <5>2, ExchangeDone
      <4>4. CASE pending.data > 0 /\ f.sw = Wrong(pending.data) /\ f.pending.data = pending.data
                 /\ f.pending.sw = pending.sw
        <5>1. Restored(f.sw) = Wrong(pending.data)
          BY <4>4 DEF Restored, Wrong, NoClass
        <5>2. z.at = "loop" /\ xfer'.sw[2] = pending.data
          BY <2>5, <2>7, <5>1, StatusWords, ToldNext
        <5> QED
          BY <2>7, <2>8, <3>0, <4>1, <4>4, <5>2, ExchangeLoop
      <4> QED
        BY <1>1, <2>3, <3>2, <4>2, <4>3, <4>4, FetchCases
    <3> QED
      BY <3>1, <3>2
  <2> QED
    BY <2>7, <2>8
<1> QED
  BY <1>2, <1>3, <1>4

\* The whole of what is left is fetched at once: the status that was held back.
LEMMA AllFetched ==
  ASSUME Types, xfer # Idle, xfer.at # "first",
         pending.data > 0, pending.sw = xfer.ran, xfer.ran \in {Ok, <<"6310", 0>>},
         NEW f \in Fetch(pending.data), NEW z \in Xfers, z.apdu = xfer.apdu,
         z.sw = f.sw, f.sw \in Statuses => z.at = "done", FetchAnswered(f, z)
  PROVE  Exchanged
<1>1. pending \in Pendings /\ pending.data \in 0..Most
  BY XferTyped DEF Pendings
<1>2. f.sw = xfer.ran
  <2>1. ~(pending.data > pending.data)
    BY <1>1, MostAssumption
  <2> QED
    BY <1>1, <2>1, FetchCases
<1>3. xfer.ran \in Statuses /\ xfer.ran # Nothing
  BY StatusWords
<1>4. z.at = "done"
  BY <1>2, <1>3
<1>5. /\ xfer' # Idle /\ xfer'.sw = z.sw /\ xfer'.ran = xfer.ran
      /\ xfer'.at = z.at \/ ExchangeInv'
      /\ ExchangeInv' => Exchanged
  BY <1>1, <1>4, FetchStep
<1>6. ASSUME xfer'.at = z.at PROVE ExchangeInv'
  BY <1>2, <1>3, <1>4, <1>5, <1>6, ExchangeDone
<1> QED
  BY <1>5, <1>6

LEMMA FetchMoreStep ==
  ASSUME Types, ExchangeInv, FetchMore
  PROVE  Exchanged
<1>0. xfer # Idle /\ xfer.at = "loop" /\ xfer.sw[1] # "6C"
  <2>1. xfer.at = "loop" /\ xfer.sw[1] # "6C"
    BY DEF FetchMore
  <2> QED
    BY <2>1 DEF Idle
<1>1. /\ xfer \in Xfers /\ pending \in Pendings /\ xfer.sw \in Words
  BY <1>0, XferTyped DEF Xfers
<1>a. Failed \/ \E r \in FetchedSet(xfer.sw[2]) : Answered(r, [Looping(r.sw) EXCEPT !.le = xfer.sw[2]], TRUE)
  BY DEF FetchMore
<1>2. Failed \/ \E f \in Fetch(xfer.sw[2]) : FetchAnswered(f, [Looping(f.sw) EXCEPT !.le = xfer.sw[2]])
  <2> SUFFICES ASSUME NEW r \in FetchedSet(xfer.sw[2]), Answered(r, [Looping(r.sw) EXCEPT !.le = xfer.sw[2]], TRUE)
               PROVE  \E f \in Fetch(xfer.sw[2]) : FetchAnswered(f, [Looping(f.sw) EXCEPT !.le = xfer.sw[2]])
    BY <1>a
  <2>1. PICK f \in Fetch(xfer.sw[2]) :
          r = [sw |-> f.sw, pending |-> f.pending, card |-> card, ran |-> xfer.ran] /\ r.sw = f.sw
    BY FetchedSetParts
  <2>2. FetchAnswered(f, [Looping(f.sw) EXCEPT !.le = xfer.sw[2]])
    BY <2>1 DEF FetchAnswered
  <2> QED
    BY <2>2
<1>3. CASE Failed
  BY <1>1, <1>3, FailedStep
<1>4. ASSUME NEW f \in Fetch(xfer.sw[2]), FetchAnswered(f, [Looping(f.sw) EXCEPT !.le = xfer.sw[2]])
      PROVE  Exchanged
  <2>1. handle = "open"
    BY <1>4 DEF FetchAnswered, Answered
  <2>2. /\ pending.data > 0 /\ pending.sw = xfer.ran /\ xfer.ran \in {Ok, <<"6310", 0>>}
        /\ xfer.sw[2] = pending.data
    BY <1>0, <2>1, StatusWords DEF ExchangeInv, ExchangeAt, Unanswered
  <2>3. xfer.sw[2] \in 0..Most /\ f.sw \in Words
    BY <1>1, FetchCases, WordParts
  <2> DEFINE z == [Looping(f.sw) EXCEPT !.le = xfer.sw[2]]
  <2>4. z \in Xfers /\ z.sw = f.sw /\ z.at = NextAt(f.sw) /\ z.apdu = xfer.apdu
    BY <1>1, <2>3, LoopingFields, WithLe
  <2>5. f.sw \in Statuses => z.at = "done"
    BY <2>4, StatusNext
  <2>6. FetchAnswered(f, z)
    BY <1>4
  <2> HIDE DEF z
  <2> QED
    BY <1>0, <2>2, <2>4, <2>5, <2>6, AllFetched
<1> QED
  BY <1>2, <1>3, <1>4

LEMMA FetchAnswerStep ==
  ASSUME Types, ExchangeInv, FetchAnswer
  PROVE  Exchanged
<1>0. xfer # Idle /\ xfer.at = "tail"
  <2>1. xfer.at = "tail"
    BY DEF FetchAnswer
  <2> QED
    BY <2>1 DEF Idle
<1>1. /\ xfer \in Xfers /\ pending \in Pendings /\ xfer.sw \in Words
  BY <1>0, XferTyped DEF Xfers
<1>a. Failed \/ \E r \in FetchedSet(xfer.sw[2]) : Answered(r, [xfer EXCEPT !.sw = r.sw, !.at = "done"], TRUE)
  BY DEF FetchAnswer
<1>2. Failed \/ \E f \in Fetch(xfer.sw[2]) : FetchAnswered(f, [xfer EXCEPT !.sw = f.sw, !.at = "done"])
  <2> SUFFICES ASSUME NEW r \in FetchedSet(xfer.sw[2]), Answered(r, [xfer EXCEPT !.sw = r.sw, !.at = "done"], TRUE)
               PROVE  \E f \in Fetch(xfer.sw[2]) : FetchAnswered(f, [xfer EXCEPT !.sw = f.sw, !.at = "done"])
    BY <1>a
  <2>1. PICK f \in Fetch(xfer.sw[2]) :
          r = [sw |-> f.sw, pending |-> f.pending, card |-> card, ran |-> xfer.ran] /\ r.sw = f.sw
    BY FetchedSetParts
  <2>2. FetchAnswered(f, [xfer EXCEPT !.sw = f.sw, !.at = "done"])
    BY <2>1 DEF FetchAnswered
  <2> QED
    BY <2>2
<1>3. CASE Failed
  BY <1>1, <1>3, FailedStep
<1>4. ASSUME NEW f \in Fetch(xfer.sw[2]), FetchAnswered(f, [xfer EXCEPT !.sw = f.sw, !.at = "done"])
      PROVE  Exchanged
  <2>1. handle = "open"
    BY <1>4 DEF FetchAnswered, Answered
  <2>2. /\ pending.data > 0 /\ pending.sw = xfer.ran /\ xfer.ran \in {Ok, <<"6310", 0>>}
        /\ xfer.sw[2] = pending.data
    BY <1>0, <2>1, StatusWords DEF ExchangeInv, ExchangeAt, Unanswered
  <2>3. xfer.sw[2] \in 0..Most /\ f.sw \in Words
    BY <1>1, FetchCases, WordParts
  <2> DEFINE z == [xfer EXCEPT !.sw = f.sw, !.at = "done"]
  <2>4. z \in Xfers /\ z.sw = f.sw /\ z.at = "done" /\ z.apdu = xfer.apdu
    BY <1>1, <2>3 DEF Xfers
  <2>6. FetchAnswered(f, z)
    BY <1>4
  <2> HIDE DEF z
  <2> QED
    BY <1>0, <2>2, <2>4, <2>6, AllFetched
<1> QED
  BY <1>2, <1>3, <1>4

LEMMA AskAgainStep ==
  ASSUME Types, ExchangeInv, AskAgain
  PROVE  Exchanged
<1>0. xfer # Idle /\ xfer.at = "loop" /\ xfer.sw[1] = "6C"
  <2>1. xfer.at = "loop" /\ xfer.sw[1] = "6C"
    BY DEF AskAgain
  <2> QED
    BY <2>1 DEF Idle
<1>1. /\ xfer \in Xfers /\ xfer.apdu \in Apdus /\ card \in Cards /\ pending \in Pendings
      /\ faults \in 0..MaxFaults /\ CardTypes /\ xfer.sw \in Words /\ xfer.get \in BOOLEAN
  BY <1>0, XferTyped DEF Xfers
<1>a. xfer.sw[2] \in 1..Most
  BY <1>0, <1>1, WordParts
<1>b. ASSUME NEW sw \in Words
      PROVE  /\ AgainAfter(sw) \in Xfers /\ AgainAfter(sw).sw = sw /\ AgainAfter(sw).apdu = xfer.apdu
             /\ sw \in Statuses => AgainAfter(sw).at = "done"
  <2>1. sw \in Statuses => NextAt(sw) = "done" /\ sw[1] # "61"
    BY StatusNext, StatusWords
  <2>2. xfer.sw[2] \in 0..Most
    BY <1>a
  <2>3. CASE xfer.le < xfer.sw[2]
    BY <1>1, <2>1, <2>3, LoopingFields DEF AgainAfter
  <2>4. CASE ~(xfer.le < xfer.sw[2])
    <3>1. AgainAfter(sw) = [Looping(sw) EXCEPT !.le = xfer.sw[2]]
      BY <2>4 DEF AgainAfter
    <3> QED
      BY <1>1, <2>1, <2>2, <3>1, LoopingFields, WithLe
  <2> QED
    BY <2>3, <2>4
<1>2. \/ Failed
      \/ xfer.get /\ \E f \in Fetch(xfer.sw[2]) : FetchAnswered(f, AgainAfter(f.sw))
      \/ ~xfer.get /\ \E r \in Run(xfer.apdu, xfer.sw[2]) : Answered(r, AgainAfter(r.sw), FALSE)
  <2>1. CASE xfer.get = TRUE
    <3>1. Failed \/ \E r \in FetchedSet(xfer.sw[2]) : Answered(r, AgainAfter(r.sw), TRUE)
      BY <2>1 DEF AskAgain
    <3>2. ASSUME NEW r \in FetchedSet(xfer.sw[2]), Answered(r, AgainAfter(r.sw), TRUE)
          PROVE  \E f \in Fetch(xfer.sw[2]) : FetchAnswered(f, AgainAfter(f.sw))
      <4>1. PICK f \in Fetch(xfer.sw[2]) :
              r = [sw |-> f.sw, pending |-> f.pending, card |-> card, ran |-> xfer.ran] /\ r.sw = f.sw
        BY FetchedSetParts
      <4>2. FetchAnswered(f, AgainAfter(f.sw))
        BY <3>2, <4>1 DEF FetchAnswered
      <4> QED
        BY <4>2
    <3> QED
      BY <2>1, <3>1, <3>2
  <2>2. CASE xfer.get = FALSE
    BY <2>2 DEF AskAgain
  <2> QED
    BY <1>1, <2>1, <2>2
<1>3. CASE Failed
  BY <1>1, <1>3, FailedStep
<1>4. ASSUME xfer.get, NEW f \in Fetch(xfer.sw[2]), FetchAnswered(f, AgainAfter(f.sw))
      PROVE  Exchanged
  <2>1. handle = "open"
    BY <1>4 DEF FetchAnswered, Answered
  <2>2. /\ pending.data > 0 /\ pending.sw = xfer.ran /\ xfer.ran \in {Ok, <<"6310", 0>>}
        /\ xfer.sw[2] = pending.data
    BY <1>0, <1>4, <2>1 DEF ExchangeInv, ExchangeAt, Unanswered
  <2>3. xfer.sw[2] \in 0..Most
    BY <1>a
  <2>4. f.sw \in Words
    BY <1>1, <2>3, FetchCases
  <2>5. /\ AgainAfter(f.sw) \in Xfers /\ AgainAfter(f.sw).sw = f.sw /\ AgainAfter(f.sw).apdu = xfer.apdu
        /\ f.sw \in Statuses => AgainAfter(f.sw).at = "done"
    BY <1>b, <2>4
  <2> QED
    BY <1>0, <1>4, <2>2, <2>5, AllFetched
<1>5. ASSUME ~xfer.get, NEW r \in Run(xfer.apdu, xfer.sw[2]), Answered(r, AgainAfter(r.sw), FALSE)
      PROVE  Exchanged
  <2>1. handle = "open"
    BY <1>5 DEF Answered
  <2>2. xfer.sw = Wrong(pending.told) /\ xfer.apdu.case = 2 /\ xfer.ran = Nothing
    BY <1>0, <1>5, <2>1 DEF ExchangeInv, ExchangeAt, Unanswered
  <2>3. pending.told # 0
    BY <1>a, <2>2, StatusWords
  <2>4. PICK e \in Execute(xfer.apdu) : r.card = e.card /\ r.ran = e.sw /\ Telling(r, e.sw, xfer.apdu.ins, xfer.apdu.case)
    BY <2>3, RunCases
  <2>5. r.sw = e.sw
    BY <2>3, <2>4 DEF Telling
  <2>6. /\ r.sw \in Words /\ r.pending \in Pendings /\ r.card \in Cards /\ r.card.kind = card.kind
        /\ r.ran \in Statuses \cup {Nothing} /\ e.sw \in Statuses /\ e.sw # Nothing
    BY <1>1, RunTypes, ExecuteSummary, StatusWords DEF Summary
  <2> DEFINE z == AgainAfter(r.sw)
  <2>7. z \in Xfers /\ z.sw = r.sw /\ z.apdu = xfer.apdu /\ z.at = "done"
    BY <1>b, <2>5, <2>6
  <2>8. Answered(r, z, FALSE)
    BY <1>5
  <2> HIDE DEF z
  <2>9. /\ xfer' \in Xfers /\ card' = r.card /\ pending' = r.pending
        /\ context' = context /\ handle' = handle
        /\ xfer'.apdu = xfer.apdu /\ xfer'.sw = r.sw /\ xfer'.get = FALSE /\ xfer'.ran = r.ran
        /\ xfer'.heard = r.card.session
        /\ faults' \in 0..MaxFaults
        /\ (xfer'.at = "done" /\ faults' = faults) \/ (xfer'.at = "failed" /\ faults' = faults + 1)
    BY <1>1, <2>6, <2>7, <2>8, Completed
  <2>10. ExchangeInv'
    BY <2>4, <2>5, <2>6, <2>9, NotIdle, ExchangeDone, ExchangeFailed
  <2> QED
    BY <2>1, <2>2, <2>4, <2>6, <2>9, <2>10 DEF Exchanged
<1> QED
  BY <1>2, <1>3, <1>4, <1>5

\* What an exchange leaves of the command and of the card.
LEMMA SendStep ==
  ASSUME Types, ExchangeInv, SendAPDU
  PROVE  Exchanged
BY FirstStep, GetResponseStep, AskAgainStep, FetchMoreStep, FetchAnswerStep DEF SendAPDU

-----------------------------------------------------------------------------
(* Commands and APDUs *)

LEMMA CommandCases ==
  ASSUME NEW c \in CommandSet
  PROVE  \/ /\ c.op = "install" /\ c.arg \in FileItems
            /\ c.todo \in {<<"install_for_load", "load", "install_for_install">>,
                           <<"load", "install_for_install">>, <<"install_for_install">>}
         \/ /\ c.op \in {"load", "install_for_load", "install_for_install"}
            /\ c.todo = <<c.op>> /\ c.arg \in FileItems
         \/ c.op = "delete" /\ c.todo = <<"delete">> /\ c.arg \in FileItems \cup AppItems
         \/ /\ c.op = "open_sc" /\ c.arg \in KeyItems /\ c.level \in Levels
            /\ c.todo \in {<<"card_data", "init_update", "ext_auth">>, <<"init_update", "ext_auth">>, <<"ext_auth">>}
         \/ c.op \in {"send_apdu", "send_apdu_nostop"} /\ c.todo = <<"raw">> /\ c.arg = None
         \/ c.op = "put_sc_key" /\ c.todo = <<"put_key">> /\ c.arg \in KeyItems
         \/ c.op = "select" /\ c.todo = <<"select">> /\ c.arg \in Domains
         \/ c.op \in {"delete_key", "get_data", "get_status"} /\ c.todo = <<c.op>> /\ c.arg = None
<1>1. c.op \in Ops /\ c.arg \in OpArgs(c.op) /\ c.todo \in Stages(c.op) /\ (c.op = "open_sc" => c.level \in Levels)
  BY DEF CommandSet, CommandRecords
<1> QED
  BY <1>1 DEF Ops, OpArgs, Stages

\* Where a command is, by the APDU it is at.
LEMMA HeadCases ==
  ASSUME NEW c \in CommandSet
  PROVE  LET ins == Head(c.todo) IN
         \/ /\ c.op = "install" /\ c.arg \in FileItems
            /\ \/ ins = "install_for_load" /\ Tail(c.todo) = <<"load", "install_for_install">>
               \/ ins = "load" /\ Tail(c.todo) = <<"install_for_install">>
               \/ ins = "install_for_install" /\ c.todo = <<"install_for_install">> /\ Tail(c.todo) = <<>>
         \/ /\ c.op \in {"load", "install_for_load", "install_for_install"} /\ c.arg \in FileItems
            /\ ins = c.op /\ Tail(c.todo) = <<>>
         \/ c.op = "delete" /\ ins = "delete" /\ Tail(c.todo) = <<>> /\ c.arg \in FileItems \cup AppItems
         \/ /\ c.op = "open_sc" /\ c.arg \in KeyItems /\ c.level \in Levels
            /\ \/ ins = "card_data" /\ Tail(c.todo) = <<"init_update", "ext_auth">>
               \/ ins = "init_update" /\ Tail(c.todo) = <<"ext_auth">>
               \/ ins = "ext_auth" /\ Tail(c.todo) = <<>>
         \/ c.op \in {"send_apdu", "send_apdu_nostop"} /\ ins = "raw" /\ Tail(c.todo) = <<>> /\ c.arg = None
         \/ c.op = "put_sc_key" /\ ins = "put_key" /\ Tail(c.todo) = <<>> /\ c.arg \in KeyItems
         \/ c.op = "select" /\ ins = "select" /\ Tail(c.todo) = <<>> /\ c.arg \in Domains
         \/ c.op \in {"delete_key", "get_data", "get_status"} /\ ins = c.op /\ Tail(c.todo) = <<>> /\ c.arg = None
<1>1. CASE c.op = "install"
  <2>1. /\ c.arg \in FileItems
        /\ \/ c.todo = <<"install_for_load", "load", "install_for_install">>
           \/ c.todo = <<"load", "install_for_install">>
           \/ c.todo = <<"install_for_install">>
    BY <1>1, CommandCases
  <2>2. CASE c.todo = <<"install_for_load", "load", "install_for_install">>
    BY <1>1, <2>1, <2>2, Three
  <2>3. CASE c.todo = <<"load", "install_for_install">>
    BY <1>1, <2>1, <2>3, Two
  <2>4. CASE c.todo = <<"install_for_install">>
    BY <1>1, <2>1, <2>4, One
  <2> QED
    BY <2>1, <2>2, <2>3, <2>4
<1>2. CASE c.op = "open_sc"
  <2>1. /\ c.arg \in KeyItems /\ c.level \in Levels
        /\ \/ c.todo = <<"card_data", "init_update", "ext_auth">>
           \/ c.todo = <<"init_update", "ext_auth">>
           \/ c.todo = <<"ext_auth">>
    BY <1>2, CommandCases
  <2>2. CASE c.todo = <<"card_data", "init_update", "ext_auth">>
    BY <1>2, <2>1, <2>2, Three
  <2>3. CASE c.todo = <<"init_update", "ext_auth">>
    BY <1>2, <2>1, <2>3, Two
  <2>4. CASE c.todo = <<"ext_auth">>
    BY <1>2, <2>1, <2>4, One
  <2> QED
    BY <2>1, <2>2, <2>3, <2>4
<1>3. CASE c.op \notin {"install", "open_sc"}
  <2>1. CASE c.op \in {"send_apdu", "send_apdu_nostop"}
    <3>1. c.todo = <<"raw">> /\ c.arg = None
      BY <2>1, CommandCases
    <3> QED
      BY <2>1, <3>1, One
  <2>2. CASE c.op = "put_sc_key"
    <3>1. c.todo = <<"put_key">> /\ c.arg \in KeyItems
      BY <2>2, CommandCases
    <3> QED
      BY <2>2, <3>1, One
  <2>3. CASE c.op \notin {"send_apdu", "send_apdu_nostop", "put_sc_key"}
    <3>1. c.todo = <<c.op>>
      BY <1>3, <2>3, CommandCases
    <3>2. Head(c.todo) = c.op /\ Tail(c.todo) = <<>>
      BY <3>1, One
    <3> QED
      BY <1>3, <2>3, <3>2, CommandCases
  <2> QED
    BY <2>1, <2>2, <2>3
<1> QED
  BY <1>1, <1>2, <1>3

LEMMA FileParts ==
  ASSUME NEW i \in FileItems
  PROVE  /\ i[1] = "file" /\ i[2] \in Files /\ i[2] \in Nat \ {0} /\ i = File(i[2]) /\ App(i[2]) \in AppItems
         /\ i \in Items /\ App(i[2]) \in Items
<1>1. PICK f \in Files : i = <<"file", f>>
  BY DEF FileItems, File
<1>2. i[1] = "file" /\ i[2] = f /\ f \in Nat \ {0}
  BY <1>1, CardAssumption
<1> QED
  BY <1>1, <1>2 DEF FileItems, AppItems, File, App, Items

LEMMA KeyParts ==
  ASSUME NEW i \in KeyItems
  PROVE  i[2] \in Keys /\ i = Key(i[2]) /\ i \in Items /\ i[1] = "key"
BY DEF KeyItems, Key, Items

LEMMA TouchedItems ==
  ASSUME NEW c \in CommandSet
  PROVE  Touched(c) \in SUBSET Items
<1>1. CASE c.op \in {"load", "install_for_load", "install", "install_for_install"}
  <2>1. c.arg \in FileItems
    BY <1>1, CommandCases
  <2> QED
    BY <1>1, <2>1, FileParts DEF Touched
<1>2. CASE c.op = "delete"
  <2>1. c.arg \in FileItems \cup AppItems
    BY <1>2, CommandCases
  <2>2. Touched(c) = Related([arg |-> c.arg, related |-> mode = 211])
    BY <1>2 DEF Touched
  <2>3. c.arg \in Items
    BY <2>1, ItemParts
  <2>4. c.arg[1] = "file" => c.arg \in FileItems
    BY <2>1 DEF AppItems, App
  <2> QED
    BY <2>2, <2>3, <2>4, FileParts DEF Related
<1>3. CASE c.op \in {"put_sc_key", "delete_key"}
  BY <1>3, ItemParts DEF Touched
<1>4. CASE c.op \notin {"load", "install_for_load", "install", "install_for_install", "delete", "put_sc_key", "delete_key"}
  BY <1>4 DEF Touched
<1> QED
  BY <1>1, <1>2, <1>3, <1>4

LEMMA ReportedItems ==
  ASSUME NEW c \in CommandSet, belief \in SUBSET Items
  PROVE  Reported(c) \in SUBSET Items
<1>1. c.op = "load" => c.arg \in Items
  BY CommandCases, FileParts
<1>2. c.op = "put_sc_key" => c.arg \in Items
  BY CommandCases, KeyParts
<1> QED
  BY <1>1, <1>2, TouchedItems DEF Reported

LEMMA StageOfOps == \A op \in Ops : \A t \in Stages(op) : t \in UNION {Stages(o) : o \in Ops}
OBVIOUS

LEMMA CommandMember ==
  ASSUME NEW op \in Ops, NEW arg \in OpArgs(op), NEW level \in SomeLevels, op = "open_sc" => level \in Levels,
         NEW sc \in BOOLEAN, NEW case \in 1..4, NEW lc \in 0..256, NEW le \in 0..Most, NEW todo \in Stages(op)
  PROVE  Command(op, arg, level, sc, case, lc, le, todo) \in CommandSet
<1>1. arg \in Args
  <2>1. arg \in FileItems \cup AppItems \cup KeyItems \cup Domains \cup {None}
    BY DEF OpArgs, Ops
  <2> QED
    BY <2>1, ItemParts DEF Args
<1>2. todo \in UNION {Stages(o) : o \in Ops}
  BY StageOfOps
<1> QED
  BY <1>1, <1>2 DEF CommandSet, CommandRecords, Command

LEMMA CommandStart ==
  ASSUME NEW op, NEW arg, NEW level, NEW sc, NEW case, NEW lc, NEW le, NEW todo
  PROVE  LET c == Command(op, arg, level, sc, case, lc, le, todo) IN c.op = op /\ c.todo = todo /\ c.n = 0
BY DEF Command

LEMMA SimpleStart ==
  ASSUME NEW op, NEW arg, NEW todo
  PROVE  LET c == Simple(op, arg, todo) IN c.op = op /\ c.todo = todo /\ c.n = 0
BY DEF Simple, Command

LEMMA SimpleMember ==
  ASSUME NEW op \in Ops, op # "open_sc", NEW arg \in OpArgs(op), NEW todo \in Stages(op)
  PROVE  Simple(op, arg, todo) \in CommandSet
<1>1. 0 \in SomeLevels /\ 4 \in 1..4 /\ 0 \in 0..256 /\ Most \in 0..Most /\ TRUE \in BOOLEAN
  BY MostAssumption DEF SomeLevels
<1> QED
  BY <1>1, CommandMember DEF Simple

\* A command nothing has been done of yet.
NewlyRead(c) ==
  /\ c \in CommandSet /\ c.n = 0
  /\ c.op = "install" => c.todo = <<"install_for_load", "load", "install_for_install">>
  /\ c.op = "open_sc" => c.todo = IF mode = 211 THEN <<"card_data", "init_update", "ext_auth">>
                                  ELSE <<"init_update", "ext_auth">>

LEMMA CommandsType ==
  ASSUME NEW c \in Commands
  PROVE  NewlyRead(c)
<1>1. ASSUME NEW f \in Files, c \in FileCommands(f)
      PROVE  NewlyRead(c)
  <2>1. File(f) \in FileItems /\ App(f) \in AppItems
    BY DEF FileItems, AppItems
  <2>2. \A op \in {"load", "install", "install_for_load", "install_for_install"} : op \in Ops /\ File(f) \in OpArgs(op)
    BY <2>1 DEF Ops, OpArgs
  <2>3. "delete" \in Ops /\ File(f) \in OpArgs("delete") /\ App(f) \in OpArgs("delete")
    BY <2>1 DEF Ops, OpArgs
  <2>4. /\ <<"load">> \in Stages("load") /\ <<"install_for_load">> \in Stages("install_for_load")
        /\ <<"install_for_install">> \in Stages("install_for_install") /\ <<"delete">> \in Stages("delete")
        /\ <<"install_for_load", "load", "install_for_install">> \in Stages("install")
    BY DEF Stages
  <2>5. /\ NewlyRead(Simple("load", File(f), <<"load">>))
        /\ NewlyRead(Simple("install", File(f), <<"install_for_load", "load", "install_for_install">>))
        /\ NewlyRead(Simple("install_for_load", File(f), <<"install_for_load">>))
        /\ NewlyRead(Simple("install_for_install", File(f), <<"install_for_install">>))
    BY <2>2, <2>4, SimpleMember, SimpleStart DEF NewlyRead
  <2>6. /\ NewlyRead(Simple("delete", File(f), <<"delete">>))
        /\ NewlyRead(Simple("delete", App(f), <<"delete">>))
    BY <2>3, <2>4, SimpleMember, SimpleStart DEF NewlyRead
  <2> QED
    BY <1>1, <2>5, <2>6 DEF FileCommands
<1>2. CASE c \in OpenCommands
  <2> DEFINE todo == IF mode = 211 THEN <<"card_data", "init_update", "ext_auth">> ELSE <<"init_update", "ext_auth">>
  <2>0. todo = <<"card_data", "init_update", "ext_auth">> \/ todo = <<"init_update", "ext_auth">>
    OBVIOUS
  <2>1. c \in {Command("open_sc", Key(k), l, FALSE, 4, 0, Most, todo) : k \in Keys, l \in Levels}
    BY <1>2 DEF OpenCommands, Command, Key
  <2> HIDE DEF todo
  <2>2. PICK k \in Keys, l \in Levels : c = Command("open_sc", Key(k), l, FALSE, 4, 0, Most, todo)
    BY <2>1 DEF Command
  <2>3. Key(k) \in OpArgs("open_sc") /\ "open_sc" \in Ops
    BY DEF OpArgs, KeyItems, Ops
  <2>4. l \in SomeLevels /\ Most \in 0..Most /\ 4 \in 1..4 /\ 0 \in 0..256 /\ FALSE \in BOOLEAN
    BY ShellAssumption, MostAssumption DEF SomeLevels
  <2>5. todo \in Stages("open_sc")
    BY <2>0 DEF Stages
  <2>6. c \in CommandSet
    BY <2>2, <2>3, <2>4, <2>5, CommandMember
  <2>7. c.op = "open_sc" /\ c.todo = todo /\ c.n = 0
    BY <2>2 DEF Command
  <2> QED
    BY <2>6, <2>7 DEF NewlyRead, todo
<1>3. CASE c \in SendCommands
  <2> DEFINE forms == ((RawCases \cap {1, 2}) \X {0}) \cup ((RawCases \cap {3, 4}) \X RawLengths)
  <2>0. ASSUME NEW form \in forms PROVE form[1] \in 1..4 /\ form[2] \in 0..256
    <3>1. CASE form \in (RawCases \cap {1, 2}) \X {0}
      BY <3>1
    <3>2. CASE form \in (RawCases \cap {3, 4}) \X RawLengths
      <4>1. form[2] \in RawLengths /\ form[1] \in {3, 4}
        BY <3>2
      <4>2. form[2] \in 1..256
        BY <4>1, ShellAssumption
      <4> QED
        BY <4>1, <4>2
    <3> QED
      BY <3>1, <3>2
  <2>1. PICK op \in {"send_apdu", "send_apdu_nostop"}, sc \in BOOLEAN, le \in {1, Most}, form \in forms :
          c = Command(op, None, 0, sc, form[1], form[2], le, <<"raw">>)
    BY <1>3 DEF SendCommands
  <2> HIDE DEF forms
  <2>2. op \in Ops /\ None \in OpArgs(op) /\ <<"raw">> \in Stages(op) /\ op # "open_sc"
    BY DEF Ops, OpArgs, Stages
  <2>3. 0 \in SomeLevels /\ form[1] \in 1..4 /\ form[2] \in 0..256 /\ le \in 0..Most
    BY <2>0, MostAssumption DEF SomeLevels
  <2>4. c \in CommandSet
    BY ZenonT(40), <2>1, <2>2, <2>3, CommandMember
  <2>5. c.op = op /\ c.n = 0
    BY <2>1 DEF Command
  <2> QED
    BY <2>4, <2>5 DEF NewlyRead
<1>4. ASSUME NEW d \in {"isd", "app"}, c = Simple("select", <<"domain", d>>, <<"select">>)
      PROVE  NewlyRead(c)
  <2>1. "select" \in Ops /\ <<"domain", d>> \in OpArgs("select") /\ <<"select">> \in Stages("select")
    BY DEF Ops, OpArgs, Stages, Domains
  <2> QED
    BY <1>4, <2>1, SimpleMember, SimpleStart DEF NewlyRead
<1>5. ASSUME NEW k \in Keys, c = Simple("put_sc_key", Key(k), <<"put_key">>)
      PROVE  NewlyRead(c)
  <2>1. "put_sc_key" \in Ops /\ Key(k) \in OpArgs("put_sc_key") /\ <<"put_key">> \in Stages("put_sc_key")
    BY DEF Ops, OpArgs, Stages, KeyItems
  <2> QED
    BY <1>5, <2>1, SimpleMember, SimpleStart DEF NewlyRead
<1>6. ASSUME NEW op \in {"delete_key", "get_data", "get_status"}, c = Simple(op, None, <<op>>)
      PROVE  NewlyRead(c)
  <2>1. op \in Ops /\ None \in OpArgs(op) /\ <<op>> \in Stages(op) /\ op # "open_sc"
    BY DEF Ops, OpArgs, Stages
  <2> QED
    BY <1>6, <2>1, SimpleMember, SimpleStart DEF NewlyRead
<1> DEFINE F == UNION {FileCommands(f) : f \in Files}
           S == {Simple("select", <<"domain", d>>, <<"select">>) : d \in {"isd", "app"}}
           K == {Simple("put_sc_key", Key(k), <<"put_key">>) : k \in Keys}
           R == {Simple("delete_key", None, <<"delete_key">>), Simple("get_data", None, <<"get_data">>),
                 Simple("get_status", None, <<"get_status">>)}
<1>7. c \in F \cup OpenCommands \cup SendCommands \cup S \cup K \cup R
  BY Zenon DEF Commands
<1>8. c \in F => NewlyRead(c)
  BY <1>1
<1>9. c \in S \cup K \cup R => NewlyRead(c)
  BY <1>4, <1>5, <1>6
<1> HIDE DEF F, S, K, R
<1> QED
  BY <1>2, <1>3, <1>7, <1>8, <1>9

-----------------------------------------------------------------------------
(* What is sent *)

InfoType == secInfo \in [Modes -> Infos]

LEMMA InfoParts ==
  ASSUME InfoType, NEW m \in Modes
  PROVE  /\ secInfo[m] \in Infos /\ secInfo[m].scp \in 0..3 /\ secInfo[m].impl \in Impls \cup {"none"}
         /\ secInfo[m].key \in Keys \cup {NULL} /\ secInfo[m].number \in 0..5
         /\ secInfo[m].level \in SomeLevels /\ secInfo[m].chain \in Chain
BY DEF InfoType, Infos, Impls, SomeLevels, Chain

\* There is always a number that is in no one's hands.
LEMMA FreshIsFresh ==
  ASSUME InfoType, card.session.number \in 0..5, lost \in 0..5
  PROVE  /\ FreshNumber \in 1..5 /\ FreshNumber # lost /\ FreshNumber # card.session.number
         /\ \A m \in Modes : secInfo[m].number # FreshNumber
<1> DEFINE used == {secInfo[m].number : m \in Modes} \cup {card.session.number, lost}
<1>1. secInfo[201].number \in 0..5 /\ secInfo[211].number \in 0..5
  BY InfoParts DEF Modes
<1>2. \A a, b, c, d \in 0..5 : \E n \in 1..5 : n # a /\ n # b /\ n # c /\ n # d
  OBVIOUS
<1>3. PICK n \in 1..5 : n # secInfo[201].number /\ n # secInfo[211].number /\ n # card.session.number /\ n # lost
  BY <1>1, <1>2
<1>4. n \notin used
  BY <1>3 DEF Modes
<1>5. FreshNumber = CHOOSE k \in 1..5 : k \notin used
  BY DEF FreshNumber
<1>6. FreshNumber \in 1..5 /\ FreshNumber \notin used
  <2> HIDE DEF used
  <2> QED
    BY <1>4, <1>5
<1> QED
  BY <1>6

\* What a command that is not wrapped yet is made of.
LEMMA ApduType ==
  ASSUME NEW c \in CommandSet, InfoType, card.session.number \in 0..5, lost \in 0..5,
         selectedAID \in {NULL, "isd", "app"}, mode \in Modes
  PROVE  LET ins == Head(c.todo)
             a == Apdu(c, ins) IN
         /\ a \in Apdus /\ a.ins = ins /\ a.mac = NULL /\ (a.related <=> mode = 211)
         /\ ins = "init_update" => a.arg = <<"number", FreshNumber>>
         /\ ins = "ext_auth" => a.arg = <<"level", c.level>>
         /\ ins \notin {"init_update", "ext_auth"} => a.arg = c.arg
         /\ ins = "load" => LET b == LoadBlock(c.arg[2], c.n) IN
                            a.last = b.last /\ a.number = b.number /\ a.count = b.count /\ a.lc = b.lc
         /\ ins # "load" => a.lc \in 0..256
         /\ ins \notin {"load", "raw"} => a.lc \in 0..110
         /\ ins = "ext_auth" => a.lc = 16
<1> DEFINE ins == Head(c.todo)
           a == Apdu(c, ins)
           b == LoadBlock(c.arg[2], c.n)
           arg == CASE ins = "init_update" -> <<"number", FreshNumber>>
                    [] ins = "ext_auth" -> <<"level", c.level>>
                    [] OTHER -> c.arg
           lc == CASE ins = "load" -> b.lc
                   [] CaseOf(c, ins) \in {1, 2} -> 0
                   [] OTHER -> DataLength(c, ins)
           le == IF CaseOf(c, ins) \in {2, 4} THEN c.le ELSE 0
           number == IF ins = "load" THEN b.number ELSE 0
           count == IF ins = "load" THEN b.count ELSE 0
           last == ins = "load" /\ b.last
           sd == IF selectedAID = NULL THEN "isd" ELSE selectedAID
<1>0. /\ c.arg \in Args /\ c.level \in SomeLevels /\ c.case \in 1..4 /\ c.lc \in 0..256
      /\ c.le \in 0..Most /\ c.n \in Nat
  BY DEF CommandSet, CommandRecords
<1>1. /\ ins \in Ins
      /\ ins \notin {"init_update", "ext_auth"} => c.arg \in InsArgs(ins)
      /\ ins = "load" => c.arg \in FileItems
  <2>1. CASE c.op \in {"install", "load", "install_for_load", "install_for_install"}
    <3>1. ins \in {"load", "install_for_load", "install_for_install"} /\ c.arg \in FileItems
      BY <2>1, HeadCases
    <3> QED
      BY <3>1 DEF Ins, ContentCommands, InsArgs
  <2>2. CASE c.op = "delete"
    <3>1. ins = "delete" /\ c.arg \in FileItems \cup AppItems
      BY <2>2, HeadCases
    <3> QED
      BY <3>1 DEF Ins, ContentCommands, InsArgs
  <2>3. CASE c.op = "open_sc"
    <3>1. ins \in {"card_data", "init_update", "ext_auth"}
      BY <2>3, HeadCases
    <3> QED
      BY <1>0, <3>1 DEF Ins, InsArgs
  <2>4. CASE c.op = "put_sc_key"
    <3>1. ins = "put_key" /\ c.arg \in KeyItems
      BY <2>4, HeadCases
    <3> QED
      BY <3>1 DEF Ins, ContentCommands, InsArgs
  <2>5. CASE c.op = "select"
    <3>1. ins = "select" /\ c.arg \in Domains
      BY <2>5, HeadCases
    <3> QED
      BY <3>1 DEF Ins, InsArgs
  <2>6. CASE c.op \in {"send_apdu", "send_apdu_nostop", "delete_key", "get_data", "get_status"}
    <3>1. ins \in {"raw", "delete_key", "get_data", "get_status"}
      BY <2>6, HeadCases
    <3> QED
      BY <1>0, <3>1 DEF Ins, ContentCommands, InsArgs
  <2> QED
    BY <2>1, <2>2, <2>3, <2>4, <2>5, <2>6 DEF CommandSet, CommandRecords, Ops
<1>2. FreshNumber \in 1..5
  BY FreshIsFresh
<1>3. arg \in InsArgs(ins) /\ arg \in Args
  <2>1. CASE ins = "init_update"
    <3>1. arg = <<"number", FreshNumber>>
      BY <2>1
    <3> QED
      BY <1>2, <2>1, <3>1 DEF InsArgs, Args, Numbers
  <2>2. CASE ins = "ext_auth"
    <3>1. arg = <<"level", c.level>>
      BY <2>2
    <3> QED
      BY <1>0, <2>2, <3>1 DEF InsArgs, Args, LevelArgs
  <2>3. CASE ins \notin {"init_update", "ext_auth"}
    <3>1. arg = c.arg
      BY <2>3
    <3> QED
      BY <1>0, <1>1, <2>3, <3>1
  <2> QED
    BY <2>1, <2>2, <2>3
<1>4. CaseOf(c, ins) \in 1..4
  BY <1>0 DEF CaseOf
<1>5. ins = "load" => b.number \in Nat /\ b.lc \in 0..BlockSize /\ b.count \in Nat /\ b.last \in BOOLEAN
  <2>1. SUFFICES ASSUME ins = "load" PROVE b.number \in Nat /\ b.lc \in 0..BlockSize /\ b.count \in Nat /\ b.last \in BOOLEAN
    OBVIOUS
  <2>2. c.arg[2] \in Nat \ {0}
    BY <1>1, <2>1, FileParts
  <2> QED
    BY <1>0, <2>2, BlockType
<1>6. DataLength(c, ins) \in 0..256 /\ (ins # "raw" => DataLength(c, ins) \in 0..110)
  BY <1>0 DEF DataLength
<1>7. BlockSize \in Nat
  BY BlocksAssumption
<1> HIDE DEF ins
<1>8a. ins = "ext_auth" => lc = 16
  BY DEF CaseOf, DataLength
<1>8. /\ lc \in Nat /\ (ins # "load" => lc \in 0..256) /\ (ins \notin {"load", "raw"} => lc \in 0..110)
      /\ ins = "load" => lc = b.lc
  <2>1. CASE ins = "load"
    <3>0. CaseOf(c, ins) \notin {1, 2}
      BY <2>1 DEF CaseOf
    <3>1. lc = b.lc
      BY <2>1, <3>0
    <3> HIDE DEF b
    <3> QED
      BY <1>5, <1>7, <2>1, <3>1
  <2>2. CASE ins # "load"
    <3>1. CASE CaseOf(c, ins) \in {1, 2}
      <4>1. lc = 0
        BY <2>2, <3>1
      <4> HIDE DEF lc
      <4> QED
        BY <2>2, <4>1
    <3>2. CASE CaseOf(c, ins) \notin {1, 2}
      <4>1. lc = DataLength(c, ins)
        BY <2>2, <3>2
      <4> HIDE DEF lc
      <4> QED
        BY <1>6, <2>2, <4>1
    <3> QED
      BY <3>1, <3>2
  <2> QED
    BY <2>1, <2>2
<1>9. le \in 0..Most
  BY <1>0, MostAssumption
<1>10. number \in Nat /\ count \in Nat /\ last \in BOOLEAN
  BY <1>5
<1>11. sd \in {"isd", "app"}
  OBVIOUS
<1>12. a = [ins |-> ins, case |-> CaseOf(c, ins), le |-> le, lc |-> lc, arg |-> arg, sd |-> sd,
            related |-> mode = 211, number |-> number, count |-> count, last |-> last,
            mac |-> NULL, scp |-> 0, level |-> 0]
  BY DEF Apdu
<1>13. 0 \in SomeLevels /\ 0 \in 0..3 /\ (ins = "ext_auth" => CaseOf(c, ins) = 3)
  BY DEF SomeLevels, CaseOf
<1>14. /\ ins = "init_update" => arg = <<"number", FreshNumber>>
       /\ ins = "ext_auth" => arg = <<"level", c.level>>
       /\ ins \notin {"init_update", "ext_auth"} => arg = c.arg
       /\ ins = "load" => last = b.last /\ number = b.number /\ count = b.count
  BY <1>5
<1> HIDE DEF a, b, arg, lc, le, number, count, last, sd
<1>15. a \in ApduRecords
  BY <1>1, <1>3, <1>4, <1>8, <1>9, <1>10, <1>11, <1>12, <1>13 DEF ApduRecords
<1>16. a.ins = ins /\ a.arg = arg /\ a.mac = NULL /\ a.lc = lc /\ a.last = last /\ a.number = number
       /\ a.count = count /\ (a.related <=> mode = 211) /\ a.case = CaseOf(c, ins)
  BY <1>12
<1>17. a \in Apdus
  BY <1>3, <1>13, <1>15, <1>16 DEF Apdus
<1>18. /\ a \in Apdus /\ a.ins = ins /\ a.mac = NULL /\ (a.related <=> mode = 211)
       /\ ins = "init_update" => a.arg = <<"number", FreshNumber>>
       /\ ins = "ext_auth" => a.arg = <<"level", c.level>>
       /\ ins \notin {"init_update", "ext_auth"} => a.arg = c.arg
       /\ ins = "load" => a.last = b.last /\ a.number = b.number /\ a.count = b.count /\ a.lc = b.lc
       /\ ins # "load" => a.lc \in 0..256
       /\ ins \notin {"load", "raw"} => a.lc \in 0..110
       /\ ins = "ext_auth" => a.lc = 16
  BY <1>8, <1>8a, <1>14, <1>16, <1>17
<1> QED
  BY ZenonT(40), <1>18 DEF a, b, ins

\* What is sent.
Out ==
  CASE Head(command.todo) = "ext_auth" -> Authenticating(Raw, Info)
    [] Protects -> Wrapped(Raw, Info)
    [] OTHER -> Raw

LEMMA InfoFields ==
  ASSUME InfoType, mode \in Modes
  PROVE  /\ Info \in Infos /\ Info.key = secInfo[mode].key /\ Info.number = secInfo[mode].number
         /\ Info.level = secInfo[mode].level /\ Info.chain = secInfo[mode].chain
         /\ Info.impl = IF mode = 201 THEN "i05" ELSE secInfo[mode].impl
         /\ Info.scp = IF mode = 201 THEN 1 ELSE secInfo[mode].scp
<1> DEFINE i == secInfo[mode]
           s == IF mode = 201 THEN 1 ELSE i.scp
           p == IF mode = 201 THEN "i05" ELSE i.impl
<1>1. i \in Infos
  BY InfoParts
<1>2. s \in 0..3 /\ p \in {"none"} \cup BaseKeyImpls \cup ThreeKeyImpls
  BY InfoParts DEF Impls, ThreeKeyImpls
<1>3. Info = [i EXCEPT !.scp = s, !.impl = p]
  BY <1>1 DEF Info, Infos
<1> HIDE DEF i, s, p
<1>4. /\ Info \in Infos /\ Info.key = i.key /\ Info.number = i.number /\ Info.level = i.level /\ Info.chain = i.chain
      /\ Info.impl = p /\ Info.scp = s
  BY <1>1, <1>2, <1>3 DEF Infos
<1> QED
  BY <1>4 DEF i, s, p

LEMMA MacType ==
  ASSUME NEW info \in Infos, NEW n \in Chain
  PROVE  LET m == Mac(info.impl, MacKey(info.impl), info.key, info.number, n) IN
         /\ m \in Macs /\ m # NULL /\ m.number = info.number /\ m.previous = n /\ m.key = info.key
<1>1. /\ info.impl \in BaseKeyImpls \cup ThreeKeyImpls \cup {"none"} /\ info.key \in Keys \cup {NULL}
      /\ info.number \in 0..5
  BY DEF Infos
<1>2. MacKey(info.impl) \in {"mac", "dek"}
  BY DEF MacKey
<1>3. Mac(info.impl, MacKey(info.impl), info.key, info.number, n) \in Macs
  BY <1>1, <1>2 DEF Mac, Macs, Chain
<1> QED
  BY <1>3, MacAssumption DEF Mac

\* The command that leaves, next to the one that was built.
LEMMA OutType ==
  ASSUME Types, Busy
  PROVE  LET ins == Head(command.todo) IN
         /\ Raw \in Apdus /\ Raw.mac = NULL /\ Out \in Apdus /\ Out.ins = ins /\ Out.arg = Raw.arg
         /\ Out.related = Raw.related /\ Out.last = Raw.last /\ Out.number = Raw.number
         /\ Out.count = Raw.count /\ Out.lc = Raw.lc
         /\ ins = "ext_auth" => Out.mac = Mac(Info.impl, MacKey(Info.impl), Info.key, Info.number, 0)
         /\ ins = "ext_auth" => Out.scp = 0 /\ Out.level = 0
         /\ ins # "ext_auth" /\ Protects =>
              /\ Out.mac = Mac(Info.impl, MacKey(Info.impl), Info.key, Info.number, Info.chain)
              /\ Out.scp = Info.scp /\ Out.level = Info.level
         /\ ins # "ext_auth" /\ ~Protects => Out = Raw
<1> DEFINE ins == Head(command.todo)
<1>0. command \in CommandSet /\ InfoType /\ mode \in Modes
  BY DEF Types, ScriptTypes, ShellTypes, InfoType
<1>1. Raw \in Apdus /\ Raw.ins = ins /\ Raw.mac = NULL
  BY <1>0, ApduType DEF Raw, Types, CardTypes, Cards, Sessions, HistoryTypes, ShellTypes
<1>2. Raw \in ApduRecords /\ Raw.arg \in InsArgs(Raw.ins)
  BY <1>1 DEF Apdus
<1>3. Info \in Infos
  BY <1>0, InfoFields
<1>4. CASE ins = "ext_auth"
  <2> DEFINE m == Mac(Info.impl, MacKey(Info.impl), Info.key, Info.number, 0)
  <2>1. 0 \in Chain
    BY ChainAssumption DEF Chain
  <2>2. m \in Macs
    BY <1>3, <2>1, MacType
  <2>3. Raw.case = 3 /\ Raw.scp = 0 /\ Raw.level = 0
    BY <1>4 DEF Raw, Apdu, CaseOf
  <2>4. Out = [Raw EXCEPT !.mac = m]
    BY <1>4 DEF Out, Authenticating, Protects, Secured
  <2> HIDE DEF m
  <2>5. /\ Out \in ApduRecords /\ Out.ins = Raw.ins /\ Out.arg = Raw.arg /\ Out.related = Raw.related /\ Out.last = Raw.last
        /\ Out.number = Raw.number /\ Out.count = Raw.count /\ Out.lc = Raw.lc /\ Out.case = Raw.case
        /\ Out.scp = Raw.scp /\ Out.level = Raw.level /\ Out.mac = m
    BY <1>2, <2>2, <2>4 DEF ApduRecords
  <2>6. Out \in Apdus
    BY <1>2, <2>3, <2>5 DEF Apdus
  <2> QED
    BY <1>1, <1>4, <2>3, <2>5, <2>6 DEF m
<1>5. CASE ins # "ext_auth" /\ Protects
  <2> DEFINE m == Mac(Info.impl, MacKey(Info.impl), Info.key, Info.number, Info.chain)
             k == IF Raw.case \in {1, 2} THEN Raw.case + 2 ELSE Raw.case
  <2>1. Info.chain \in Chain /\ Info.scp \in 0..3 /\ Info.level \in SomeLevels
    BY <1>3 DEF Infos, Chain, SomeLevels
  <2>2. m \in Macs
    BY <1>3, <2>1, MacType
  <2>3. k \in {3, 4} /\ k \in 1..4
    BY <1>2 DEF ApduRecords
  <2>4. Out = [[[[Raw EXCEPT !.mac = m] EXCEPT !.case = k] EXCEPT !.scp = Info.scp] EXCEPT !.level = Info.level]
    <3>1. Out = Wrapped(Raw, Info)
      BY <1>5 DEF Out
    <3>3. Out = [Raw EXCEPT !.mac = m, !.case = IF @ \in {1, 2} THEN @ + 2 ELSE @, !.scp = Info.scp, !.level = Info.level]
      BY <3>1 DEF Wrapped
    <3> HIDE DEF m
    <3> QED
      BY <1>2, <3>3 DEF ApduRecords
  <2> HIDE DEF m, k
  <2> DEFINE r1 == [Raw EXCEPT !.mac = m]
             r2 == [r1 EXCEPT !.case = k]
             r3 == [r2 EXCEPT !.scp = Info.scp]
  <2>5. r1 \in ApduRecords /\ r1.mac = m
    BY <1>2, <2>2 DEF ApduRecords
  <2>6. /\ r1.ins = Raw.ins /\ r1.arg = Raw.arg /\ r1.related = Raw.related /\ r1.last = Raw.last
        /\ r1.number = Raw.number /\ r1.count = Raw.count /\ r1.lc = Raw.lc
    BY <1>2 DEF ApduRecords
  <2> HIDE DEF r1
  <2>7. /\ r2 \in ApduRecords /\ r2.mac = m /\ r2.case = k
        /\ r2.ins = Raw.ins /\ r2.arg = Raw.arg /\ r2.related = Raw.related /\ r2.last = Raw.last
        /\ r2.number = Raw.number /\ r2.count = Raw.count /\ r2.lc = Raw.lc
    BY <2>3, <2>5, <2>6 DEF ApduRecords
  <2> HIDE DEF r2
  <2>8. /\ r3 \in ApduRecords /\ r3.mac = m /\ r3.case = k /\ r3.scp = Info.scp
        /\ r3.ins = Raw.ins /\ r3.arg = Raw.arg /\ r3.related = Raw.related /\ r3.last = Raw.last
        /\ r3.number = Raw.number /\ r3.count = Raw.count /\ r3.lc = Raw.lc
    BY <2>1, <2>7 DEF ApduRecords
  <2> HIDE DEF r3
  <2>9. Out = [r3 EXCEPT !.level = Info.level]
    BY <2>4 DEF r1, r2, r3
  <2>10. /\ Out \in ApduRecords /\ Out.mac = m /\ Out.case = k /\ Out.scp = Info.scp /\ Out.level = Info.level
         /\ Out.ins = Raw.ins /\ Out.arg = Raw.arg /\ Out.related = Raw.related /\ Out.last = Raw.last
         /\ Out.number = Raw.number /\ Out.count = Raw.count /\ Out.lc = Raw.lc
    BY <2>1, <2>8, <2>9 DEF ApduRecords
  <2>11. Out \in Apdus
    BY <1>1, <1>2, <1>5, <2>3, <2>10 DEF Apdus
  <2> QED
    BY <1>1, <1>5, <2>10, <2>11 DEF m
<1>6. CASE ins # "ext_auth" /\ ~Protects
  <2>1. Out = Raw
    BY <1>6 DEF Out
  <2> QED
    BY <1>1, <1>6, <2>1
<1> QED
  BY <1>4, <1>5, <1>6

\* Where the information is after it.
NewInfos == InfoAfter(Head(command.todo), command, Info)

LEMMA OpenedType ==
  ASSUME Types, Busy, Head(command.todo) = "init_update", NEW i \in NewInfos
  PROVE  /\ i \in Infos /\ i.impl = Protocol[2] /\ i.number \in {0, secInfo[mode].number}
         /\ mode = 211 => i.number = secInfo[mode].number
<1>0. command \in CommandSet /\ InfoType /\ mode \in Modes
  BY DEF Types, ScriptTypes, ShellTypes, InfoType
<1>1. Info \in Infos /\ Info.number = secInfo[mode].number /\ (mode = 201 => Info.impl = "i05")
  BY <1>0, InfoFields
<1>2. i \in Opened(command, Info)
  BY DEF NewInfos, InfoAfter
<1>3. CASE mode = 201
  <2> DEFINE j == [Info EXCEPT !.key = NULL]
             k == [j EXCEPT !.number = 0]
  <2>1. PICK h \in Leftovers(Info), l \in {0} \cup MacLevels : i = [h EXCEPT !.level = l]
    BY <1>2, <1>3 DEF Opened
  <2>2. j \in Infos /\ j.impl = Info.impl
    BY <1>1 DEF Infos
  <2>3. h = Info \/ h = k
    BY <2>1 DEF Leftovers
  <2> HIDE DEF j
  <2>4. k \in Infos /\ k.impl = Info.impl /\ k.number = 0
    BY <2>2 DEF Infos
  <2> HIDE DEF k
  <2>5. h \in Infos /\ h.impl = Info.impl /\ h.number \in {0, secInfo[mode].number}
    BY <1>1, <2>1, <2>3, <2>4
  <2>6. i \in Infos /\ i.impl = h.impl /\ i.number = h.number
    BY <2>1, <2>5 DEF Infos
  <2> QED
    BY <1>1, <1>3, <2>5, <2>6 DEF Protocol
<1>4. CASE mode # 201
  <2> DEFINE j == [Info EXCEPT !.scp = command.scp]
  <2>1. command.scp \in 0..3 /\ command.impl \in {"none"} \cup BaseKeyImpls \cup ThreeKeyImpls
    BY <1>0 DEF CommandSet, CommandRecords, Impls
  <2>2. j \in Infos /\ j.number = Info.number
    BY <1>1, <2>1 DEF Infos
  <2>3. i = [j EXCEPT !.impl = command.impl]
    BY <1>1, <1>2, <1>4 DEF Opened, Infos
  <2> HIDE DEF j
  <2>4. i \in Infos /\ i.number = j.number /\ i.impl = command.impl
    BY <2>1, <2>2, <2>3 DEF Infos
  <2> QED
    BY <1>1, <1>4, <2>2, <2>4 DEF Protocol
<1> QED
  BY <1>3, <1>4

LEMMA NewInfoType ==
  ASSUME Types, Busy, NEW i \in NewInfos
  PROVE  LET ins == Head(command.todo) IN
         /\ i \in Infos
         /\ ins # "init_update" =>
              /\ i.key = secInfo[mode].key /\ i.number = secInfo[mode].number /\ i.impl = Info.impl
              /\ i.level = IF ins = "ext_auth" THEN command.level ELSE secInfo[mode].level
              /\ i.chain = IF ins = "ext_auth" THEN 1 % ChainLength
                           ELSE IF Protects THEN (secInfo[mode].chain + 1) % ChainLength ELSE secInfo[mode].chain
<1> DEFINE ins == Head(command.todo)
<1>0. command \in CommandSet /\ InfoType /\ mode \in Modes
  BY DEF Types, ScriptTypes, ShellTypes, InfoType
<1>1. /\ Info \in Infos /\ Info.key = secInfo[mode].key /\ Info.number = secInfo[mode].number
      /\ Info.level = secInfo[mode].level /\ Info.chain = secInfo[mode].chain
  BY <1>0, InfoFields
<1>2. CASE ins = "ext_auth"
  <2>1. command.level \in {0} \cup MacLevels
    BY <1>0 DEF CommandSet, CommandRecords, SomeLevels
  <2>2. 1 % ChainLength \in 0..ChainLength - 1
    BY ChainAssumption, ModIn
  <2>3. i = [Info EXCEPT !.level = command.level, !.chain = 1 % ChainLength]
    BY <1>2 DEF NewInfos, InfoAfter
  <2> DEFINE j == [Info EXCEPT !.level = command.level]
             c == 1 % ChainLength
  <2>4. /\ j \in Infos /\ j.key = Info.key /\ j.number = Info.number /\ j.impl = Info.impl
        /\ j.level = command.level
    BY <1>1, <2>1 DEF Infos
  <2>5. c \in 0..ChainLength - 1
    BY <2>2
  <2>6. i = [j EXCEPT !.chain = c]
    BY <2>3
  <2> HIDE DEF j, c
  <2>7. /\ i \in Infos /\ i.key = Info.key /\ i.number = Info.number /\ i.impl = Info.impl
        /\ i.level = command.level /\ i.chain = c
    BY <2>4, <2>5, <2>6 DEF Infos
  <2> QED
    BY <1>1, <1>2, <2>7 DEF c
<1>3. CASE ins \notin {"init_update", "ext_auth"} /\ Protects
  <2> DEFINE c == (Info.chain + 1) % ChainLength
  <2>1. Info.chain + 1 \in Int
    BY <1>1 DEF Infos
  <2>2. c \in 0..ChainLength - 1
    BY <2>1, ChainAssumption, ModIn
  <2>3. i = [Info EXCEPT !.chain = c]
    BY <1>3 DEF NewInfos, InfoAfter, Protects
  <2>4. c = (secInfo[mode].chain + 1) % ChainLength
    BY <1>1
  <2> HIDE DEF c
  <2>5. /\ i \in Infos /\ i.key = Info.key /\ i.number = Info.number /\ i.impl = Info.impl
        /\ i.level = Info.level /\ i.chain = c
    BY <1>1, <2>2, <2>3 DEF Infos
  <2> QED
    BY <1>1, <1>3, <2>4, <2>5
<1>4. CASE ins \notin {"init_update", "ext_auth"} /\ ~Protects
  <2>1. i = Info
    BY <1>4 DEF NewInfos, InfoAfter, Protects
  <2> QED
    BY <1>1, <1>4, <2>1
<1>5. CASE ins = "init_update"
  BY <1>5, OpenedType
<1> QED
  BY <1>2, <1>3, <1>4, <1>5

\* The information goes on to i.
Wrapping(i) == i \in NewInfos /\ secInfo' = [secInfo EXCEPT ![mode] = i] /\ secInfo' \in [Modes -> Infos]

LEMMA WrapStep ==
  ASSUME Types, Busy, Wrap
  PROVE  \E i \in Infos : Wrapping(i)
<1>1. PICK i \in NewInfos : secInfo' = [secInfo EXCEPT ![mode] = i]
  BY DEF Wrap, NewInfos
<1>2. i \in Infos
  BY NewInfoType
<1>3. secInfo' \in [Modes -> Infos]
  BY <1>1, <1>2 DEF Types, ShellTypes
<1> QED
  BY <1>1, <1>2, <1>3 DEF Wrapping

-----------------------------------------------------------------------------
(* The steps of the shell *)

\* A line of the script that takes no APDU.
Quiet ==
  /\ script = "read" /\ script' \in {"read", "ended", "crashed"}
  /\ UNCHANGED <<xfer, pending, faults, command, read, secInfo, selectedAID, scripts, belief, unsure, lost, disturbed>>
  /\ context' \in {"none", "open"} /\ handle' \in {"none", "open", "dead", "stale"}
  /\ mode' \in Modes /\ specVersion' \in Modes \cup {0}
  /\ card' \in {card, Reset(card)}
  /\ handle = "open" /\ handle' # "open" => card' = Reset(card)
QuietSteps ==
  EstablishCommand \/ ReleaseCommand \/ ConnectCommand \/ DisconnectCommand \/ LineFails \/ ModeCommand \/ CallNothing

LEMMA QuietStep ==
  ASSUME Types, QuietSteps
  PROVE  Quiet
<1>0. context \in {"none", "open"} /\ handle \in {"none", "open", "dead", "stale"} /\ mode \in Modes /\ specVersion \in Modes \cup {0}
  BY DEF Types, ConnTypes, ShellTypes
<1>1. CASE EstablishCommand
  BY <1>0, <1>1 DEF EstablishCommand, NextLine, EstablishContext, DropHandle, Done, Quiet, shellVars, history
<1>2. CASE ReleaseCommand
  BY <1>0, <1>2 DEF ReleaseCommand, NextLine, ReleaseContext, DropHandle, Done, Quiet, shellVars, history
<1>3. CASE ConnectCommand
  BY <1>0, <1>3 DEF ConnectCommand, NextLine, CardConnect, Done, Quiet, history
<1>4. CASE DisconnectCommand
  BY <1>0, <1>4 DEF DisconnectCommand, NextLine, CardDisconnect, Done, Quiet, shellVars, history
<1>5. CASE LineFails
  BY <1>0, <1>5 DEF LineFails, NextLine, Quiet, connVars, shellVars, history
<1>6. CASE ModeCommand
  BY <1>0, <1>6 DEF ModeCommand, NextLine, Done, Quiet, history
<1>7. CASE CallNothing
  BY <1>0, <1>7 DEF CallNothing, Crash, Quiet, connVars, shellVars, history
<1> QED
  BY <1>1, <1>2, <1>3, <1>4, <1>5, <1>6, <1>7 DEF QuietSteps

LEMMA QuietBase ==
  ASSUME Types, ExchangeInv, Quiet
  PROVE  Types' /\ ExchangeInv'
<1>1. xfer = Idle /\ command = NULL
  BY DEF Types, ScriptTypes, Quiet, Busy
<1>2. card' \in Cards
  BY ResetType DEF Types, CardTypes, Quiet
<1>3. CardTypes' /\ ConnTypes' /\ ShellTypes' /\ HistoryTypes'
  BY <1>2 DEF Types, CardTypes, ConnTypes, ShellTypes, HistoryTypes, Quiet
<1>4. ScriptTypes'
  BY <1>1 DEF Types, ScriptTypes, Quiet, Busy
<1>5. ExchangeInv'
  BY <1>1 DEF ExchangeInv, Quiet
<1> QED
  BY <1>3, <1>4, <1>5 DEF Types

\* A command that fails before it is done.
LEMMA FailTypes ==
  ASSUME Types, Busy, Fail, xfer' = Idle, read' = read
  PROVE  /\ script' \in {"read", "ended"} /\ ScriptTypes'
         /\ belief' \in SUBSET Items /\ unsure' \in SUBSET Items
<1>1. command \in CommandSet
  BY DEF Types, ScriptTypes
<1>2. unsure' \in SUBSET Items /\ belief' \in SUBSET Items
  BY <1>1, TouchedItems DEF Fail, Types, HistoryTypes
<1>3. script' \in {"read", "ended"} /\ ScriptTypes'
  BY <1>1 DEF Fail, Types, ScriptTypes, Busy
<1> QED
  BY <1>2, <1>3

\* A command that leaves.
Sending(i) ==
  /\ Busy /\ xfer = Idle /\ ~Unwrapped /\ ~Unsent /\ context = "open"
  /\ xfer' = Begin(Out) /\ xfer' \in Xfers
  /\ xfer'.at = "first" /\ xfer'.apdu = Out /\ xfer'.ran = Nothing /\ xfer'.get = FALSE
  /\ Wrapping(i)
  /\ UNCHANGED <<card, context, handle, pending, faults, mode, specVersion, selectedAID,
                 script, command, read, scripts, belief, unsure, lost, disturbed>>

LEMMA SendingStep ==
  ASSUME Types, Send
  PROVE  \E i \in Infos : Sending(i)
<1>1. xfer' = Begin(Out)
  BY DEF Send, Out
<1>2. PICK i \in Infos : Wrapping(i)
  BY WrapStep DEF Send
<1>3. Busy /\ Out \in Apdus
  BY OutType DEF Send
<1>4. Out.le \in 0..Most
  BY <1>3 DEF Apdus, ApduRecords
<1>5. /\ Begin(Out) \in Xfers /\ Begin(Out).at = "first" /\ Begin(Out).apdu = Out /\ Begin(Out).ran = Nothing
      /\ Begin(Out).get = FALSE
  BY <1>3, <1>4, NoSessionType, StatusWords DEF Begin, Xfers
<1> QED
  BY <1>1, <1>2, <1>5 DEF Send, Sending, history

LEMMA SendBase ==
  ASSUME Types, ExchangeInv, NEW i, Sending(i)
  PROVE  Types' /\ ExchangeInv'
<1>1. pending = NothingPending /\ NothingPending \in Pendings
  BY NoPending DEF ExchangeInv, Sending
<1>2. xfer' # Idle
  BY DEF Sending, Xfers, Idle
<1>3. CardTypes' /\ ConnTypes' /\ ShellTypes' /\ HistoryTypes'
  BY DEF Types, CardTypes, ConnTypes, ShellTypes, HistoryTypes, Sending, Wrapping
<1>4. ScriptTypes'
  BY DEF Types, ScriptTypes, Busy, Sending
<1>5. ExchangeAt'
  BY <1>1 DEF ExchangeAt, Sending
<1>6. ExchangeInv'
  BY <1>2, <1>5 DEF ExchangeInv, Sending
<1> QED
  BY <1>3, <1>4, <1>6 DEF Types

LEMMA ExchangeBase ==
  ASSUME Types, ExchangeInv, Exchange
  PROVE  Types' /\ ExchangeInv' /\ Exchanged
<1>1. Exchanged
  BY SendStep DEF Exchange
<1>2. xfer' # Idle
  BY <1>1 DEF Exchanged, Xfers, Idle
<1>3. CardTypes' /\ ConnTypes' /\ ShellTypes'
  BY <1>1 DEF Exchanged, Types, CardTypes, ConnTypes, ShellTypes, Exchange, shellVars
<1>4. ScriptTypes'
  BY DEF Types, ScriptTypes, Busy, Exchange
<1>5. lost' \in 0..5
  BY <1>1 DEF Exchange, Types, CardTypes, Cards, Sessions, HistoryTypes
<1>6. disturbed' \in BOOLEAN
  BY DEF Exchange, Types, HistoryTypes
<1>7. HistoryTypes'
  BY <1>5, <1>6 DEF Types, HistoryTypes, Exchange
<1> QED
  BY <1>1, <1>3, <1>4, <1>7 DEF Types, Exchanged

\* What is left of a command that goes on.
LEMMA AdvancedCases ==
  ASSUME Types, Busy, xfer \in Xfers
  PROVE  LET ins == Head(command.todo) IN
         /\ Advanced.op = command.op /\ Advanced.arg = command.arg /\ Advanced.level = command.level
         /\ Advanced.todo # <<>> => Advanced \in CommandSet
         /\ \/ /\ MoreStatus \/ (ins = "load" /\ ~xfer.apdu.last)
               /\ Advanced.todo = command.todo /\ Advanced.n = command.n + 1
               /\ Advanced.scp = command.scp /\ Advanced.impl = command.impl
            \/ /\ ins = "card_data" /\ Advanced.todo = <<"init_update", "ext_auth">>
               /\ Advanced.scp = card.kind.scp /\ Advanced.impl = card.kind.impl /\ Advanced.n = command.n
            \/ /\ ~MoreStatus /\ (ins = "load" => xfer.apdu.last) /\ ins # "card_data"
               /\ Advanced.todo = Tail(command.todo) /\ Advanced.n = 0
               /\ Advanced.scp = command.scp /\ Advanced.impl = command.impl
<1> DEFINE ins == Head(command.todo)
<1>0. command \in CommandRecords /\ command.arg \in OpArgs(command.op) /\ command.todo \in Stages(command.op)
      /\ (command.op = "open_sc" => command.level \in Levels) /\ command \in CommandSet
  BY DEF Types, ScriptTypes, CommandSet
<1>1. CASE MoreStatus \/ (ins = "load" /\ ~xfer.apdu.last)
  <2>0. MoreStatus => ins = "get_status"
    BY <1>0, HeadCases DEF MoreStatus
  <2>1. Advanced = [command EXCEPT !.n = command.n + 1]
    <3>1. Advanced = [command EXCEPT !.n = @ + 1]
      BY <1>1, <2>0 DEF Advanced
    <3> QED
      BY <1>0, <3>1 DEF CommandRecords
  <2>2. command.n + 1 \in Nat
    BY <1>0 DEF CommandRecords
  <2> DEFINE k == command.n + 1
  <2> HIDE DEF k
  <2>3. Advanced = [command EXCEPT !.n = k] /\ k \in Nat
    BY <2>1, <2>2 DEF k
  <2>4. /\ Advanced \in CommandRecords /\ Advanced.op = command.op /\ Advanced.arg = command.arg
        /\ Advanced.level = command.level /\ Advanced.todo = command.todo /\ Advanced.n = k
        /\ Advanced.scp = command.scp /\ Advanced.impl = command.impl
    BY <1>0, <2>3 DEF CommandRecords
  <2> QED
    BY <1>0, <1>1, <2>4 DEF CommandSet, k
<1>2. CASE ~MoreStatus /\ ins = "card_data"
  <2> DEFINE t == <<"init_update", "ext_auth">>
  <2>1. card.kind.scp \in 0..3 /\ card.kind.impl \in Impls
    BY DEF Types, CardTypes, Cards, Kinds
  <2>2. command.op = "open_sc"
    BY <1>0, <1>2, HeadCases
  <2>3. t \in Stages("open_sc") /\ "open_sc" \in Ops
    BY DEF Stages, Ops
  <2>4. t \in UNION {Stages(o) : o \in Ops}
    BY <2>3, StageOfOps
  <2>5. Advanced = [command EXCEPT !.todo = t, !.scp = card.kind.scp, !.impl = card.kind.impl]
    BY <1>2 DEF Advanced
  <2> HIDE DEF t
  <2> DEFINE c1 == [command EXCEPT !.todo = t]
             c2 == [c1 EXCEPT !.scp = card.kind.scp]
  <2>6. /\ c1 \in CommandRecords /\ c1.op = command.op /\ c1.arg = command.arg /\ c1.level = command.level
        /\ c1.todo = t /\ c1.n = command.n
    BY <1>0, <2>4 DEF CommandRecords
  <2> HIDE DEF c1
  <2>7. /\ c2 \in CommandRecords /\ c2.op = command.op /\ c2.arg = command.arg /\ c2.level = command.level
        /\ c2.todo = t /\ c2.scp = card.kind.scp /\ c2.n = command.n
    BY <2>1, <2>6 DEF CommandRecords
  <2> HIDE DEF c2
  <2>8. Advanced = [c2 EXCEPT !.impl = card.kind.impl]
    BY <2>5 DEF c1, c2
  <2>9. /\ Advanced \in CommandRecords /\ Advanced.op = command.op /\ Advanced.arg = command.arg
        /\ Advanced.level = command.level /\ Advanced.todo = t /\ Advanced.scp = card.kind.scp
        /\ Advanced.impl = card.kind.impl /\ Advanced.n = command.n
    BY <2>1, <2>7, <2>8 DEF CommandRecords
  <2>10. Advanced \in CommandSet
    BY <1>0, <2>2, <2>3, <2>9 DEF CommandSet
  <2> QED
    BY <1>2, <2>9, <2>10 DEF t
<1>3. CASE ~MoreStatus /\ ins # "card_data" /\ (ins = "load" => xfer.apdu.last)
  <2> DEFINE t == Tail(command.todo)
             c1 == [command EXCEPT !.todo = t]
  <2>1. Advanced = [command EXCEPT !.todo = t, !.n = 0]
    BY <1>0, <1>3 DEF Advanced, CommandRecords
  <2>2. t = <<>> \/ t \in Stages(command.op)
    <3>1. \/ t = <<>>
          \/ command.op = "install" /\ t \in {<<"load", "install_for_install">>, <<"install_for_install">>}
          \/ command.op = "open_sc" /\ t \in {<<"init_update", "ext_auth">>, <<"ext_auth">>}
      BY <1>0, HeadCases
    <3> HIDE DEF t
    <3> QED
      BY <3>1 DEF Stages
  <2>3. Advanced.op = command.op /\ Advanced.arg = command.arg /\ Advanced.level = command.level /\ Advanced.todo = t
        /\ Advanced.n = 0 /\ Advanced.scp = command.scp /\ Advanced.impl = command.impl
    <3> HIDE DEF t
    <3> QED
      BY <1>0, <2>1 DEF CommandRecords
  <2>4. ASSUME t # <<>> PROVE Advanced \in CommandSet
    <3>1. t \in Stages(command.op) /\ command.op \in Ops
      BY <1>0, <2>2, <2>4 DEF CommandRecords
    <3>2. t \in UNION {Stages(o) : o \in Ops}
      BY <3>1, StageOfOps
    <3>3. Advanced = [c1 EXCEPT !.n = 0]
      BY <2>1
    <3> HIDE DEF t
    <3>4. c1 \in CommandRecords
      BY <1>0, <3>2 DEF CommandRecords
    <3> HIDE DEF c1
    <3>5. Advanced \in CommandRecords
      BY <3>3, <3>4 DEF CommandRecords
    <3> QED
      BY <1>0, <2>3, <3>1, <3>5 DEF CommandSet
  <2> QED
    BY <1>3, <2>3, <2>4
<1> QED
  BY <1>1, <1>2, <1>3

\* What INITIALIZE UPDATE leaves behind.
LEMMA ChallengedType ==
  ASSUME Types, Busy, xfer \in Xfers, Head(command.todo) = "init_update"
  PROVE  /\ Challenged \in Infos /\ Challenged.impl = secInfo[mode].impl /\ Challenged.key = command.arg[2]
         /\ Challenged.number = xfer.heard.number
<1>0. command \in CommandSet /\ secInfo[mode] \in Infos
  BY InfoParts DEF Types, ScriptTypes, ShellTypes, InfoType
<1> DEFINE i == secInfo[mode]
           k == command.arg[2]
           n == xfer.heard.number
           c == [i EXCEPT !.key = k]
<1>1. k \in Keys \cup {NULL}
  <2>1. command.arg \in KeyItems
    BY <1>0, HeadCases DEF ContentCommands
  <2> QED
    BY <2>1, KeyParts
<1>2. n \in 0..5
  BY DEF Xfers, Sessions
<1>3. Challenged = [i EXCEPT !.key = k, !.number = n]
  BY DEF Challenged
<1> HIDE DEF i, k, n
<1>4. c \in Infos /\ c.impl = i.impl /\ c.key = k
  BY <1>0, <1>1 DEF Infos, i
<1> HIDE DEF c
<1>5. Challenged = [c EXCEPT !.number = n]
  BY <1>3 DEF c
<1>6. Challenged \in Infos /\ Challenged.impl = i.impl /\ Challenged.key = k /\ Challenged.number = n
  BY <1>2, <1>4, <1>5 DEF Infos
<1> QED
  BY <1>6 DEF i, k, n

\* The end of an APDU.
Challenges == Head(command.todo) = "init_update" /\ StatusOk /\ Consistent
Returning ==
  /\ Busy /\ xfer \in Xfers /\ Reply /\ xfer' = Idle /\ pending' = NothingPending
  /\ UNCHANGED <<card, context, handle, faults, mode, specVersion, read, scripts, lost, disturbed>>
  /\ secInfo' = IF Challenges THEN [secInfo EXCEPT ![mode] = Challenged] ELSE secInfo
  /\ secInfo' \in [Modes -> Infos]
  /\ \/ CardRefused /\ Fail /\ selectedAID' = selectedAID
     \/ /\ ~CardRefused /\ Advanced.todo # <<>> /\ command' = Advanced
        /\ UNCHANGED <<script, belief, unsure, selectedAID>>
     \/ /\ ~CardRefused /\ Advanced.todo = <<>> /\ Succeed
        /\ selectedAID' = IF command.op = "select" THEN command.arg[2] ELSE selectedAID

LEMMA ReturnStep ==
  ASSUME Types, Return
  PROVE  Returning
<1>1. xfer \in Xfers /\ Busy
  BY DEF Return, Types, ConnTypes
<1>2. secInfo' = IF Challenges THEN [secInfo EXCEPT ![mode] = Challenged] ELSE secInfo
  BY DEF Return, Challenges
<1>3. secInfo' \in [Modes -> Infos]
  <2>1. Challenges => Challenged \in Infos
    BY <1>1, ChallengedType DEF Challenges
  <2> QED
    BY <1>2, <2>1 DEF Types, ShellTypes
<1> QED
  BY <1>1, <1>2, <1>3 DEF Return, Returning

LEMMA ReturnBase ==
  ASSUME Types, ExchangeInv, Returning
  PROVE  Types' /\ ExchangeInv'
<1>0. Busy /\ command \in CommandSet /\ xfer' = Idle /\ read' = read /\ read \in 0..MaxCommands /\ read > 0
  BY DEF Types, ScriptTypes, Returning
<1>1. CardTypes' /\ ConnTypes' /\ lost' \in 0..5 /\ disturbed' \in BOOLEAN
  BY NoPending DEF Types, CardTypes, ConnTypes, HistoryTypes, Returning
<1>2. ExchangeInv'
  BY DEF ExchangeInv, Returning
<1>3. mode' \in Modes /\ specVersion' \in Modes \cup {0} /\ secInfo' \in [Modes -> Infos]
  BY DEF Types, ShellTypes, Returning
<1>4. CASE CardRefused /\ Fail /\ selectedAID' = selectedAID
  <2>1. ScriptTypes' /\ belief' \in SUBSET Items /\ unsure' \in SUBSET Items
    BY <1>0, <1>4, FailTypes
  <2> QED
    BY <1>1, <1>2, <1>3, <1>4, <2>1 DEF Types, ShellTypes, HistoryTypes
<1>5. CASE Advanced.todo # <<>> /\ command' = Advanced /\ UNCHANGED <<script, belief, unsure, selectedAID>>
  <2>1. command' \in CommandSet
    BY <1>0, <1>5, AdvancedCases DEF Returning
  <2>2. ScriptTypes'
    BY <1>0, <1>5, <2>1 DEF ScriptTypes, Busy
  <2> QED
    BY <1>1, <1>2, <1>3, <1>5, <2>2 DEF Types, ShellTypes, HistoryTypes
<1>6. CASE Succeed /\ selectedAID' = IF command.op = "select" THEN command.arg[2] ELSE selectedAID
  <2>1. ScriptTypes'
    BY <1>0, <1>6 DEF Succeed, ScriptTypes, Busy
  <2>2. selectedAID' \in {NULL, "isd", "app"}
    <3>1. command.op = "select" => command.arg \in Domains
      BY <1>0, CommandCases
    <3>2. command.op = "select" => command.arg[2] \in {"isd", "app"}
      BY <3>1 DEF Domains
    <3> QED
      BY <1>6, <3>2 DEF Types, ShellTypes
  <2>3. belief' \in SUBSET Items /\ unsure' \in SUBSET Items
    BY <1>0, <1>6, ReportedItems DEF Succeed, Types, HistoryTypes
  <2> QED
    BY <1>1, <1>2, <1>3, <2>1, <2>2, <2>3 DEF Types, ShellTypes, HistoryTypes
<1> QED
  BY <1>4, <1>5, <1>6 DEF Returning

LEMMA BeginBase ==
  ASSUME Types, ExchangeInv, BeginCommand
  PROVE  Types' /\ ExchangeInv' /\ xfer = Idle /\ xfer' = Idle /\ NewlyRead(command')
<1>0. NewlyRead(command')
  BY CommandsType DEF BeginCommand
<1>1. command' \in CommandSet /\ script = "read" /\ script' = "busy" /\ xfer = Idle
  BY <1>0 DEF NewlyRead, BeginCommand, Types, ScriptTypes, Busy
<1>2. /\ UNCHANGED <<card, context, handle, xfer, pending, faults, mode, specVersion, secInfo, selectedAID>>
      /\ UNCHANGED <<belief, unsure, lost>> /\ disturbed' = FALSE
  BY DEF BeginCommand, connVars, shellVars
<1>3. CardTypes' /\ ConnTypes' /\ ShellTypes' /\ HistoryTypes'
  BY <1>2 DEF Types, CardTypes, ConnTypes, ShellTypes, HistoryTypes
<1>4. ScriptTypes'
  <2>1. read' \in 0..MaxCommands /\ read' > 0
    BY ShellAssumption DEF BeginCommand, Types, ScriptTypes
  <2> QED
    BY <1>1, <1>2, <2>1 DEF ScriptTypes, Busy
<1>5. ExchangeInv'
  BY <1>1, <1>2 DEF ExchangeInv
<1> QED
  BY <1>0, <1>1, <1>2, <1>3, <1>4, <1>5 DEF Types

\* A command that is refused, before it has a code or after.
Refusing ==
  /\ Busy /\ xfer = Idle /\ Fail /\ script' \in {"read", "ended"}
  /\ UNCHANGED <<card, context, handle, xfer, pending, faults, mode, specVersion, selectedAID, read, scripts, disturbed>>
  /\ \/ UNCHANGED <<secInfo, lost>>
     \/ \E i \in Infos : Wrapping(i) /\ Unsent
                         /\ lost' = IF Misses(Protects, Info.number) THEN Info.number ELSE lost

LEMMA RefusingStep ==
  ASSUME Types, RefuseSend
  PROVE  Refusing
<1>1. Busy /\ (Wrap => \E i \in Infos : Wrapping(i))
  BY WrapStep DEF RefuseSend
<1>2. /\ UNCHANGED <<card, context, handle, xfer, pending, faults, mode, specVersion, selectedAID, read, scripts, disturbed>>
      /\ Fail /\ xfer = Idle /\ script' \in {"read", "ended"}
  BY DEF RefuseSend, Fail, connVars
<1>3. \/ UNCHANGED <<secInfo, lost>>
      \/ Wrap /\ Unsent /\ lost' = IF Misses(Protects, Info.number) THEN Info.number ELSE lost
  BY DEF RefuseSend
<1> QED
  BY <1>1, <1>2, <1>3 DEF Refusing

LEMMA RefuseBase ==
  ASSUME Types, ExchangeInv, Refusing
  PROVE  Types' /\ ExchangeInv'
<1>1. ScriptTypes' /\ belief' \in SUBSET Items /\ unsure' \in SUBSET Items
  BY FailTypes DEF Refusing
<1>2. Info.number \in 0..5
  BY InfoFields DEF Types, ShellTypes, InfoType, Infos
<1>3. secInfo' \in [Modes -> Infos] /\ lost' \in 0..5
  BY <1>2 DEF Refusing, Wrapping, Types, ShellTypes, HistoryTypes
<1>4. CardTypes' /\ ConnTypes' /\ ShellTypes' /\ HistoryTypes'
  BY <1>1, <1>3 DEF Refusing, Types, CardTypes, ConnTypes, ShellTypes, HistoryTypes
<1>5. ExchangeInv'
  BY DEF ExchangeInv, Refusing
<1> QED
  BY <1>1, <1>4, <1>5 DEF Types

LEMMA CrashBase ==
  ASSUME Types, ExchangeInv, SendNothing
  PROVE  Types' /\ ExchangeInv'
<1>1. /\ UNCHANGED <<card, context, handle, xfer, pending, faults, mode, specVersion, secInfo, selectedAID>>
      /\ UNCHANGED <<command, read, belief, lost, disturbed>> /\ Busy /\ xfer = Idle /\ script' = "crashed"
      /\ unsure' = unsure \cup Touched(command)
  BY DEF SendNothing, Crash, connVars, shellVars
<1>2. Touched(command) \subseteq Items
  BY <1>1, TouchedItems DEF Types, ScriptTypes
<1>3. CardTypes' /\ ConnTypes' /\ ShellTypes' /\ HistoryTypes'
  BY <1>1, <1>2 DEF Types, CardTypes, ConnTypes, ShellTypes, HistoryTypes
<1>4. ScriptTypes'
  BY <1>1 DEF Types, ScriptTypes, Busy
<1>5. ExchangeInv'
  BY <1>1 DEF ExchangeInv
<1> QED
  BY <1>3, <1>4, <1>5 DEF Types

LEMMA InterruptedBase ==
  ASSUME Types, ExchangeInv, Interrupted
  PROVE  Types' /\ ExchangeInv' /\ card' = Reset(card)
<1>1. /\ card' = Reset(card) /\ pending' = NothingPending /\ handle = "open" /\ handle' = "dead"
      /\ faults < MaxFaults /\ faults' = faults + 1 /\ disturbed' = TRUE
      /\ UNCHANGED <<context, xfer, mode, specVersion, secInfo, selectedAID, script, command, read, belief, unsure, lost>>
  BY DEF Interrupted, ResetByOther, shellVars
<1>2. card' \in Cards
  BY <1>1, ResetType DEF Types, CardTypes
<1>3. faults' \in 0..MaxFaults
  BY <1>1, MostAssumption DEF Types, ConnTypes
<1>4. CardTypes' /\ ConnTypes' /\ ShellTypes' /\ HistoryTypes'
  BY <1>1, <1>2, <1>3, NoPending DEF Types, CardTypes, ConnTypes, ShellTypes, HistoryTypes
<1>5. ScriptTypes'
  BY <1>1 DEF Types, ScriptTypes, Busy
<1>6. ASSUME xfer # Idle PROVE ExchangeAt'
  <2>1. card'.kind = card.kind
    BY <1>1, ResetType DEF Types, CardTypes
  <2> QED
    BY <1>1, <1>6, <2>1 DEF ExchangeInv, ExchangeAt, Unanswered, T0
<1>7. ExchangeInv'
  BY <1>1, <1>6 DEF ExchangeInv
<1> QED
  BY <1>1, <1>4, <1>5, <1>7 DEF Types

LEMMA NextScriptBase ==
  ASSUME Types, ExchangeInv, NextScript
  PROVE  Types' /\ ExchangeInv' /\ card' \in {card, Reset(card)}
<1>1. /\ script' = "read" /\ command' = NULL /\ mode' = 201 /\ specVersion' = 0 /\ selectedAID' = NULL
      /\ secInfo' = [m \in Modes |-> NoInfo] /\ context' = "none" /\ handle' = "none"
      /\ card' \in {card, Reset(card)} /\ xfer' = Idle /\ pending' = NothingPending /\ lost' = 0
      /\ UNCHANGED <<faults, read, belief, unsure, disturbed>>
  BY DEF NextScript
<1>2. card' \in Cards
  BY <1>1, ResetType DEF Types, CardTypes
<1>3. secInfo' \in [Modes -> Infos]
  BY <1>1, ChainAssumption DEF NoInfo, Infos
<1>4. CardTypes' /\ ConnTypes' /\ ShellTypes' /\ HistoryTypes'
  BY <1>1, <1>2, <1>3, NoPending DEF Types, CardTypes, ConnTypes, ShellTypes, HistoryTypes, Modes
<1>5. ScriptTypes'
  BY <1>1 DEF Types, ScriptTypes, Busy
<1>6. ExchangeInv'
  BY <1>1 DEF ExchangeInv
<1> QED
  BY <1>1, <1>4, <1>5, <1>6 DEF Types

-----------------------------------------------------------------------------
(* The types, and the exchanges *)

Base == Types /\ ExchangeInv

LEMMA BaseInit == Init => Base
<1> SUFFICES ASSUME Init PROVE Base
  OBVIOUS
<1>1. CardTypes /\ card.registry \in SUBSET Items
  BY CardInitType DEF Init, CardTypes, Cards
<1>2. ConnTypes
  BY NoPending, MostAssumption DEF Init, ConnInit, ConnTypes
<1>3. secInfo \in [Modes -> Infos]
  BY ChainAssumption DEF Init, NoInfo, Infos
<1>4. ShellTypes
  BY <1>3 DEF Init, ShellTypes, Modes
<1>5. ScriptTypes
  BY ShellAssumption DEF Init, ConnInit, ScriptTypes, Busy
<1>6. HistoryTypes
  <2>1. belief \in SUBSET Items
    BY <1>1 DEF Init
  <2>2. unsure \in SUBSET Items /\ lost \in 0..5
    BY DEF Init
  <2>3. disturbed \in BOOLEAN
    BY Zenon DEF Init
  <2> QED
    BY <2>1, <2>2, <2>3 DEF HistoryTypes
<1>7. ExchangeInv
  BY DEF Init, ConnInit, ExchangeInv
<1> QED
  BY <1>1, <1>2, <1>4, <1>5, <1>6, <1>7 DEF Base, Types

LEMMA BaseStep == Base /\ [Next]_vars => Base'
<1> SUFFICES ASSUME Types, ExchangeInv, [Next]_vars PROVE Types' /\ ExchangeInv'
  BY DEF Base
<1>1. CASE QuietSteps
  BY <1>1, QuietStep, QuietBase
<1>2. CASE BeginCommand
  BY <1>2, BeginBase
<1>3. CASE RefuseSend
  BY <1>3, RefusingStep, RefuseBase
<1>4. CASE SendNothing
  BY <1>4, CrashBase
<1>5. CASE Send
  BY <1>5, SendingStep, SendBase
<1>6. CASE Exchange
  BY <1>6, ExchangeBase
<1>7. CASE Return
  BY <1>7, ReturnStep, ReturnBase
<1>8. CASE Interrupted
  BY <1>8, InterruptedBase
<1>9. CASE NextScript
  BY <1>9, NextScriptBase
<1>10. CASE UNCHANGED vars
  <2>1. /\ UNCHANGED <<card, context, handle, xfer, pending, faults, mode, specVersion, secInfo, selectedAID>>
        /\ UNCHANGED <<script, command, read, belief, unsure, lost, disturbed>>
    BY <1>10 DEF vars, connVars, shellVars, history
  <2>2. CardTypes' /\ ConnTypes' /\ ShellTypes' /\ ScriptTypes' /\ HistoryTypes'
    BY <2>1 DEF Types, CardTypes, ConnTypes, ShellTypes, ScriptTypes, HistoryTypes, Busy
  <2>3. ExchangeInv'
    BY <2>1 DEF ExchangeInv, ExchangeAt, Unanswered, T0, More, Wrong
  <2> QED
    BY <2>2, <2>3 DEF Types
<1> QED
  BY <1>1, <1>2, <1>3, <1>4, <1>5, <1>6, <1>7, <1>8, <1>9, <1>10 DEF Next, ShellStep, QuietSteps

\* At every moment the state has its type, and an exchange is as far with the
\* answer as the card is: what is still to be fetched belongs to the command
\* that was executed, with its status.
THEOREM BaseInvariant == Spec => []Base
<1>1. Init => Base
  BY BaseInit
<1>2. Base /\ [Next]_vars => Base'
  BY BaseStep
<1> QED
  BY <1>1, <1>2, PTL DEF Spec

\* A command the card has executed is reported as executed, and nothing else
\* is, however the card hands out the answer; the one exception is a case 4
\* command without an answer under T=0, of a card that refuses GET RESPONSE with
\* another status than 6E00 (OPGP_PL_send_APDU of gppcscconnectionplugin.c).
THEOREM ExecutionIsReported == Spec => []ExecutedIsReported
<1>1. Base => ExecutedIsReported
  BY DEF Base, ExchangeInv, ExchangeAt, Unanswered, ExecutedIsReported
<1> QED
  BY <1>1, BaseInvariant, PTL


\* Type correctness of the interpreter, of what it knows of the secure
\* channels, of the connection and of the card.
THEOREM ShellTypeCorrect == Spec => []GPTypeOK
<1>1. Base => GPTypeOK
  <2> SUFFICES ASSUME Types PROVE GPTypeOK
    BY DEF Base
  <2>1. card.registry \subseteq Items
    BY DEF Types, CardTypes, Cards
  <2>2. xfer = Idle \/ xfer.at \in {"first", "get", "loop", "tail", "done", "failed"}
    BY DEF Types, ConnTypes, Xfers
  <2> QED
    BY <2>1, <2>2 DEF Types, ShellTypes, ScriptTypes, HistoryTypes, ConnTypes, GPTypeOK
<1> QED
  BY <1>1, BaseInvariant, PTL
-----------------------------------------------------------------------------
(* Load files, and the length of a command *)

\* The blocks before the next one are those before this one, and this one.
LEMMA NextBlock ==
  ASSUME NEW size \in Nat \ {0}, NEW k \in Nat
  PROVE  /\ SentBefore(size, k + 1) = SentBefore(size, k) + Count(size, k)
         /\ SentBefore(size, k + 1) <= size
<1> DEFINE h == HeaderLength(size)
           p == k * BlockSize
<1>1. h \in 4..7 /\ p \in Nat /\ BlockSize \in 131..239
  BY BlocksAssumption DEF HeaderLength
<1>2. (k + 1) * BlockSize = p + BlockSize
  BY <1>1
<1>3. k + 1 # 0
  OBVIOUS
<1>4. SentBefore(size, k + 1) = Least(size, p + BlockSize - h)
  <2>1. SentBefore(size, k + 1) = Least(size, (k + 1) * BlockSize - HeaderLength(size))
    BY <1>3 DEF SentBefore
  <2>2. (k + 1) * BlockSize - HeaderLength(size) = p + BlockSize - h
    <3> HIDE DEF p
    <3> QED
      BY <1>1, <1>2
  <2> QED
    BY <2>1, <2>2
<1>5. CASE k = 0
  <2>1. p = 0 /\ SentBefore(size, k) = 0
    BY <1>1, <1>5 DEF SentBefore
  <2>2. Count(size, k) = Least(size, BlockSize - h)
    BY <1>5, <2>1 DEF Count
  <2> HIDE DEF h, p
  <2> QED
    BY <1>1, <1>4, <2>1, <2>2 DEF Least
<1>6. CASE k # 0
  <2>1. SentBefore(size, k) = Least(size, p - h)
    BY <1>6 DEF SentBefore
  <2>2. Count(size, k) = Least(size - SentBefore(size, k), BlockSize)
    BY <1>6 DEF Count
  <2> HIDE DEF h, p
  <2> QED
    BY <1>1, <1>4, <2>1, <2>2 DEF Least
<1> QED
  BY <1>5, <1>6

\* A file that is not refused takes no more commands than their number can
\* tell apart.
LEMMA BlocksFit ==
  ASSUME NEW size \in Nat \ {0}, NEW k \in Nat, ~TooBig(size), SentBefore(size, k) < size
  PROVE  k < MaxBlocks /\ CodeSpace(size) >= size
<1> DEFINE h == HeaderLength(size)
           p == k * BlockSize
           q == MaxBlocks * BlockSize
<1>1. BlockSize \in 131..239 /\ MaxBlocks \in 2..256
  BY BlocksAssumption
<1>2. p \in Int /\ q \in Int
  BY <1>1
<1>3. size < 65536 /\ size <= q - 1 - FileSizeSize(size)
  BY <1>2 DEF TooBig, FileSizeSize
<1>4. q <= 61184
  <2>1. \A b \in 131..239, n \in 2..256 : n * b <= 256 * b
    OBVIOUS
  <2>2. q <= 256 * BlockSize
    BY <1>1, <2>1
  <2> QED
    BY <1>1, <1>2, <2>2
<1>5. CodeSpace(size) >= size
  <2>1. size + 16 < 65536
    BY <1>2, <1>3, <1>4 DEF FileSizeSize
  <2> DEFINE r == size % 8
             s == size + (8 - r) + 8
  <2>2. r \in 0..7
    OBVIOUS
  <2>3. s \in Nat /\ s < 65536 /\ s >= size
    <3> HIDE DEF r
    <3> QED
      BY <2>1, <2>2
  <2>4. \A x \in Nat : x < 65536 => x % 65536 = x
    OBVIOUS
  <2>5. CodeSpace(size) = s % 65536
    BY DEF CodeSpace
  <2> HIDE DEF s
  <2>6. s % 65536 = s
    BY <2>3, <2>4
  <2> QED
    BY <2>3, <2>5, <2>6
<1>6. ASSUME k >= MaxBlocks PROVE FALSE
  <2>1. k # 0 /\ p >= q /\ p >= 2 * BlockSize
    <3>1. \A x, y \in Nat : x * y \in Nat
      OBVIOUS
    <3> DEFINE d == k - MaxBlocks
               e == MaxBlocks - 2
    <3>2. d \in Nat /\ e \in Nat /\ BlockSize \in Nat
      BY <1>1, <1>6
    <3>3. d * BlockSize \in Nat /\ e * BlockSize \in Nat
      BY <3>1, <3>2
    <3>4. p = q + d * BlockSize /\ q = 2 * BlockSize + e * BlockSize
      BY <1>1
    <3>5. k # 0
      BY <1>1, <1>6
    <3> HIDE DEF d, e, p, q
    <3> QED
      BY <1>1, <1>2, <3>3, <3>4, <3>5
  <2>2. p - h < size
    BY <1>2, <2>1 DEF SentBefore, Least
  <2> HIDE DEF p, q
  <2>3. CASE size < 128
    BY <1>1, <1>2, <2>1, <2>2, <2>3 DEF HeaderLength
  <2>4. CASE size >= 128 /\ size < 256
    BY <1>1, <1>2, <2>1, <2>2, <2>4 DEF HeaderLength
  <2>5. CASE size >= 256
    BY <1>1, <1>2, <1>3, <2>1, <2>2, <2>5 DEF HeaderLength, FileSizeSize
  <2> QED
    BY <2>3, <2>4, <2>5
<1> QED
  BY <1>1, <1>5, <1>6

\* What the byte says is the length, its padding and its code included: of
\* what the library sends of its own, and of what it does not refuse.
LEMMA ByteSays ==
  ASSUME NEW scp \in 0..3, NEW level \in MacLevels, NEW lc \in 0..256, WrappedLength(scp, level, lc) \in 1..256
  PROVE  SaidBy(WrappedLc(scp, level, lc)) = WrappedLength(scp, level, lc)
<1>1. \A n \in 1..256 : (n % 256) = IF n = 256 THEN 0 ELSE n
  OBVIOUS
<1> QED
  BY <1>1 DEF WrappedLc, SaidBy

LEMMA Padded ==
  ASSUME NEW scp \in 0..3, NEW lc \in 0..256
  PROVE  EncryptedLength(scp, lc) \in 0..264 /\ (lc <= 239 => EncryptedLength(scp, lc) <= 240)
<1>1. RoundedUp(lc + 1) \in 0..264 /\ (lc <= 239 => RoundedUp(lc + 1) <= 240)
  BY DEF RoundedUp
<1>2. lc + 8 - (lc % 8) \in 0..264 /\ (lc <= 239 => lc + 8 - (lc % 8) <= 240)
  OBVIOUS
<1> QED
  BY <1>1, <1>2 DEF EncryptedLength

LEMMA LengthsFit ==
  ASSUME NEW scp \in 0..3, NEW level \in MacLevels, NEW lc \in 0..239
  PROVE  WrappedLength(scp, level, lc) \in 1..255
<1>0. lc \in 0..256 /\ lc <= 239
  OBVIOUS
<1>1. EncryptedLength(scp, lc) \in 0..264 /\ EncryptedLength(scp, lc) <= 240
  BY ZenonT(40), <1>0, Padded
<1> QED
  BY <1>1 DEF WrappedLength, MacLevels, DecLevels

LEMMA RawFits ==
  ASSUME NEW scp \in 0..3, NEW level \in MacLevels, NEW lc \in 0..256, NEW case \in 1..4,
         ~TooLong(level, case, lc), ~NoRoom(scp, level, case, lc)
  PROVE  WrappedLength(scp, level, lc) \in 1..256
<1>1. EncryptedLength(scp, lc) \in 0..264
  BY Padded
<1>2. CASE level \in DecLevels
  <2>1. EncryptedLength(scp, lc) <= 248
    BY <1>1, <1>2 DEF NoRoom
  <2> QED
    BY <1>1, <1>2, <2>1 DEF WrappedLength
<1>3. CASE level \notin DecLevels
  <2>1. lc <= 248
    BY <1>3 DEF TooLong
  <2> QED
    BY <1>3, <2>1 DEF WrappedLength
<1> QED
  BY <1>2, <1>3

\* What leaves is the command the shell is at.
LEMMA OutContent ==
  ASSUME Types, Busy
  PROVE  LET ins == Head(command.todo) IN
         /\ Out.ins = ins /\ (Out.related <=> mode = 211)
         /\ ins = "init_update" => Out.arg = <<"number", FreshNumber>>
         /\ ins = "ext_auth" => Out.arg = <<"level", command.level>>
         /\ ins \notin {"init_update", "ext_auth"} => Out.arg = command.arg
         /\ ins = "load" => LET b == LoadBlock(command.arg[2], command.n) IN Out.last = b.last /\ Out.number = b.number
         /\ ins \in {"select", "card_data", "init_update"} => Out.mac = NULL
         /\ Out.lc \in 0..256 /\ Out.lc = Raw.lc /\ (ins # "raw" => Out.lc \in 0..239)
         /\ ins = "ext_auth" => Out.lc = 16
<1>0. command \in CommandSet /\ InfoType /\ mode \in Modes /\ selectedAID \in {NULL, "isd", "app"}
      /\ card.session.number \in 0..5 /\ lost \in 0..5
  BY DEF Types, ScriptTypes, ShellTypes, InfoType, CardTypes, Cards, Sessions, HistoryTypes
<1> DEFINE ins == Head(command.todo)
           b == LoadBlock(command.arg[2], command.n)
<1>1. /\ Out.ins = ins /\ Out.arg = Raw.arg /\ Out.related = Raw.related /\ Out.last = Raw.last
      /\ Out.number = Raw.number /\ Out.lc = Raw.lc
  BY OutType
<1>2. /\ Raw.related <=> mode = 211
      /\ ins = "init_update" => Raw.arg = <<"number", FreshNumber>>
      /\ ins = "ext_auth" => Raw.arg = <<"level", command.level>>
      /\ ins \notin {"init_update", "ext_auth"} => Raw.arg = command.arg
      /\ ins = "load" => Raw.last = b.last /\ Raw.number = b.number /\ Raw.lc = b.lc
      /\ ins # "load" => Raw.lc \in 0..256
      /\ ins \notin {"load", "raw"} => Raw.lc \in 0..110
      /\ ins = "ext_auth" => Raw.lc = 16
  <2> DEFINE a == Apdu(command, ins)
  <2>1. /\ a \in Apdus /\ a.ins = ins /\ a.mac = NULL /\ (a.related <=> mode = 211)
        /\ ins = "init_update" => a.arg = <<"number", FreshNumber>>
        /\ ins = "ext_auth" => a.arg = <<"level", command.level>>
        /\ ins \notin {"init_update", "ext_auth"} => a.arg = command.arg
        /\ ins = "load" => a.last = b.last /\ a.number = b.number /\ a.count = b.count /\ a.lc = b.lc
        /\ ins # "load" => a.lc \in 0..256
        /\ ins \notin {"load", "raw"} => a.lc \in 0..110
        /\ ins = "ext_auth" => a.lc = 16
    BY ZenonT(40), <1>0, ApduType
  <2>2. Raw = a
    BY DEF Raw
  <2> HIDE DEF a, b, ins
  <2> QED
    BY <2>1, <2>2
<1>3. Raw.lc \in 0..256 /\ (ins # "raw" => Raw.lc \in 0..239)
  <2>1. CASE ins = "load"
    <3>1. command.arg \in FileItems /\ command.n \in Nat
      BY <1>0, <2>1, HeadCases DEF CommandSet, CommandRecords
    <3>2. command.arg[2] \in Nat \ {0}
      BY <3>1, FileParts
    <3>3. b.lc \in 0..BlockSize
      BY <3>1, <3>2, BlockType
    <3> HIDE DEF b
    <3> QED
      BY <1>2, <2>1, <3>3, BlocksAssumption
  <2>2. CASE ins # "load"
    BY <1>2, <2>2
  <2> QED
    BY <2>1, <2>2
<1>4. ins \in {"select", "card_data", "init_update"} => Out.mac = NULL
  <2>1. ins \in {"select", "card_data", "init_update"} => ~Protects
    BY DEF Protects, Secured
  <2> QED
    BY <2>1, OutType
<1> QED
  BY <1>1, <1>2, <1>3, <1>4

Shape == Sent /\ LoadInv /\ LengthInv

LEMMA ShapeQuiet ==
  ASSUME Types, Quiet
  PROVE  Shape'
<1>1. xfer' = Idle /\ ~Busy'
  BY DEF Types, ScriptTypes, Quiet, Busy
<1> QED
  BY <1>1 DEF Shape, Sent, LoadInv, LengthInv

LEMMA ShapeSend ==
  ASSUME Types, Shape, NEW i, Sending(i)
  PROVE  Shape'
<1>0. /\ Busy /\ xfer = Idle /\ ~Unwrapped /\ ~Unsent /\ context' = "open" /\ xfer'.apdu = Out /\ Out \in Apdus
      /\ command \in CommandSet
      /\ UNCHANGED <<mode, script, command>>
  BY OutType DEF Sending, Types, ScriptTypes
<1>1. Sent'
  BY <1>0, OutContent DEF Sent
<1>2. LoadInv'
  <2> SUFFICES ASSUME Head(command.todo) = "load"
               PROVE  ~TooBig(command.arg[2]) /\ SentBefore(command.arg[2], command.n) < command.arg[2]
    BY <1>0 DEF LoadInv, Busy
  <2>1. command.arg \in FileItems /\ command.n \in Nat
    BY <1>0, HeadCases DEF CommandSet, CommandRecords
  <2>2. command.arg[2] \in Nat \ {0}
    BY <2>1, FileParts
  <2>3. CASE command.n = 0
    BY <1>0, <2>2, <2>3 DEF Unwrapped, SentBefore
  <2>4. CASE command.n > 0
    BY <1>0, <2>4 DEF Shape, LoadInv
  <2> QED
    BY <2>1, <2>3, <2>4
<1>3. LengthInv'
  <2> DEFINE length == WrappedLength(Out.scp, Out.level, Out.lc)
  <2> SUFFICES ASSUME Out.mac # NULL
               PROVE  SaidBy(WrappedLc(Out.scp, Out.level, Out.lc)) = length /\ (length = 256 => Out.ins = "raw")
    BY <1>0 DEF LengthInv
  <2>1. CASE Head(command.todo) = "ext_auth"
    <3>1. Out.lc = 16 /\ Out.level = 0 /\ Out.scp = 0
      BY <1>0, <2>1, OutContent, OutType
    <3>2. length = 16 /\ (16 % 256) = 16
      BY <3>1 DEF WrappedLength, MacLevels, DecLevels
    <3> QED
      BY <3>2 DEF WrappedLc, SaidBy
  <2>2. CASE Head(command.todo) # "ext_auth"
    <3>1. Protects
      BY <1>0, <2>2, OutType
    <3>2. Out.scp = Info.scp /\ Out.level = Info.level /\ Info.level \in MacLevels
      BY <1>0, <2>2, <3>1, OutType DEF Protects
    <3>3. Out.lc = Raw.lc /\ Out.lc \in 0..256 /\ Out.scp \in 0..3 /\ Raw.case \in 1..4
      BY <1>0, OutContent, OutType DEF Apdus, ApduRecords
    <3>4. ~TooLong(Out.level, Raw.case, Out.lc) /\ ~NoRoom(Out.scp, Out.level, Raw.case, Out.lc)
      BY <1>0, <3>1, <3>2, <3>3 DEF Unwrapped, Unsent
    <3>5. length \in 1..256
      BY ZenonT(40), <3>2, <3>3, <3>4, RawFits
    <3>6. Out.ins # "raw" => length \in 1..255
      BY ZenonT(40), <1>0, <3>2, <3>3, LengthsFit, OutContent
    <3>7. SaidBy(WrappedLc(Out.scp, Out.level, Out.lc)) = length
      BY <3>2, <3>3, <3>5, ByteSays
    <3> HIDE DEF length
    <3> QED
      BY <3>5, <3>6, <3>7
  <2> QED
    BY <2>1, <2>2
<1> QED
  BY <1>1, <1>2, <1>3 DEF Shape

LEMMA ShapeReturn ==
  ASSUME Types, Shape, Returning
  PROVE  Shape'
<1>0. xfer' = Idle /\ Busy /\ command \in CommandSet /\ xfer \in Xfers /\ xfer # Idle
  BY DEF Returning, Types, ScriptTypes, Xfers, Idle
<1>1. Sent' /\ LengthInv'
  BY <1>0 DEF Sent, LengthInv
<1>2. CASE ~Busy'
  BY <1>0, <1>1, <1>2 DEF Shape, LoadInv
<1>3. CASE Busy'
  <2>1. command' = Advanced /\ Advanced.todo # <<>> /\ ~CardRefused
    BY <1>0, <1>3 DEF Returning, Fail, Succeed, Busy
  <2> SUFFICES ASSUME Head(Advanced.todo) = "load", Advanced.n > 0
               PROVE  /\ ~TooBig(Advanced.arg[2])
                      /\ SentBefore(Advanced.arg[2], Advanced.n) < Advanced.arg[2]
    BY <1>0, <1>1, <2>1 DEF Shape, LoadInv
  <2> DEFINE ins == Head(command.todo)
             size == command.arg[2]
             k == command.n
  <2>2. Advanced.arg = command.arg
    BY <1>0, AdvancedCases
  <2>3. /\ MoreStatus \/ (ins = "load" /\ ~xfer.apdu.last)
        /\ Advanced.todo = command.todo /\ Advanced.n = k + 1
    <3>1. Head(<<"init_update", "ext_auth">>) = "init_update"
      BY Two
    <3> QED
      BY <1>0, <3>1, AdvancedCases
  <2>4. ins = "load" /\ ~MoreStatus /\ ~xfer.apdu.last
    <3>1. ins = "load"
      BY <2>3
    <3>2. command.op # "get_status"
      BY <1>0, <3>1, HeadCases
    <3> QED
      BY <2>3, <3>1, <3>2 DEF MoreStatus
  <2>5. command.arg \in FileItems /\ k \in Nat
    BY <1>0, <2>4, HeadCases DEF CommandSet, CommandRecords
  <2>6. size \in Nat \ {0}
    BY <2>5, FileParts
  <2>7. ~TooBig(size) /\ SentBefore(size, k) < size
    BY <1>0, <2>4 DEF Shape, LoadInv
  <2>8. xfer.apdu.last = LoadBlock(size, k).last
    BY <1>0, <2>4 DEF Shape, Sent
  <2>9. SentBefore(size, k) + Count(size, k) # size
    BY <2>4, <2>8 DEF LoadBlock
  <2>10. SentBefore(size, k + 1) = SentBefore(size, k) + Count(size, k) /\ SentBefore(size, k + 1) <= size
    BY <2>5, <2>6, NextBlock
  <2>11. SentBefore(size, k) \in Nat /\ Count(size, k) \in Nat
    BY <2>5, <2>6, CountType
  <2>12. SentBefore(size, k + 1) < size
    BY <2>6, <2>9, <2>10, <2>11
  <2> QED
    BY <2>2, <2>3, <2>7, <2>12
<1> QED
  BY <1>2, <1>3

LEMMA ShapeStep == Base /\ Shape /\ [Next]_vars => Shape'
<1> SUFFICES ASSUME Types, ExchangeInv, Shape, [Next]_vars PROVE Shape'
  BY DEF Base
<1>1. CASE QuietSteps
  BY <1>1, QuietStep, ShapeQuiet
<1>2. CASE BeginCommand
  <2>1. xfer' = Idle /\ NewlyRead(command')
    BY <1>2, BeginBase
  <2> QED
    BY <2>1 DEF Shape, Sent, LoadInv, LengthInv, NewlyRead
<1>3. CASE RefuseSend
  BY <1>3, RefusingStep DEF Refusing, Shape, Sent, LoadInv, LengthInv, Busy
<1>4. CASE SendNothing
  BY <1>4 DEF SendNothing, Crash, connVars, Shape, Sent, LoadInv, LengthInv, Busy
<1>5. CASE Send
  BY <1>5, SendingStep, ShapeSend
<1>6. CASE Exchange
  <2>1. xfer'.apdu = xfer.apdu /\ xfer # Idle /\ context' = context /\ UNCHANGED <<mode, script, command>> /\ Busy
    BY <1>6, ExchangeBase DEF Exchanged, Exchange, shellVars
  <2> QED
    BY <2>1 DEF Shape, Sent, LoadInv, LengthInv, Busy
<1>7. CASE Return
  BY <1>7, ReturnStep, ShapeReturn
<1>8. CASE Interrupted
  BY <1>8 DEF Interrupted, ResetByOther, shellVars, Shape, Sent, LoadInv, LengthInv, Busy
<1>9. CASE NextScript
  BY <1>9 DEF NextScript, Shape, Sent, LoadInv, LengthInv, Busy
<1>10. CASE UNCHANGED vars
  BY <1>10 DEF vars, connVars, shellVars, Shape, Sent, LoadInv, LengthInv, Busy
<1> QED
  BY <1>1, <1>2, <1>3, <1>4, <1>5, <1>6, <1>7, <1>8, <1>9, <1>10 DEF Next, ShellStep, QuietSteps

LEMMA ShapeInvariant == Spec => []Shape
<1>1. Init => Shape
  BY DEF Init, ConnInit, Shape, Sent, LoadInv, LengthInv, Busy
<1>2. Base /\ Shape /\ [Next]_vars => Shape'
  BY ShapeStep
<1> QED
  BY <1>1, <1>2, BaseInvariant, PTL DEF Spec

\* The blocks of a load file are numbered without a gap, what is declared is
\* enough and there is something left to send whenever one is sent; and the
\* length of a wrapped command fits its byte (load_from_buffer, wrap_command).
THEOREM LoadsFit == Spec => []LoadFits
<1>1. Base /\ Shape => LoadFits
  <2> SUFFICES ASSUME Base, Shape PROVE LoadFits
    OBVIOUS
  <2>1. ASSUME Busy, xfer # Idle, xfer.apdu.ins = "load"
        PROVE  LET size == command.arg[2] IN
               /\ xfer.apdu.number = command.n
               /\ CodeSpace(size) >= size
               /\ SentBefore(size, command.n) < size
    <3>1. Head(command.todo) = "load" /\ command \in CommandSet
      BY <2>1 DEF Base, Types, ScriptTypes, Shape, Sent
    <3>2. command.arg \in FileItems /\ command.n \in Nat
      BY <3>1, HeadCases DEF CommandSet, CommandRecords
    <3>3. command.arg[2] \in Nat \ {0}
      BY <3>2, FileParts
    <3>4. ~TooBig(command.arg[2]) /\ SentBefore(command.arg[2], command.n) < command.arg[2]
      BY <2>1, <3>1 DEF Shape, LoadInv
    <3>5. command.n < MaxBlocks /\ CodeSpace(command.arg[2]) >= command.arg[2]
      BY <3>2, <3>3, <3>4, BlocksFit
    <3>6. xfer.apdu.number = LoadBlock(command.arg[2], command.n).number
      BY <2>1 DEF Shape, Sent
    <3>7. command.n % MaxBlocks = command.n
      <4>1. MaxBlocks \in Nat \ {0} /\ command.n \in Nat /\ command.n < MaxBlocks
        BY <3>2, <3>5, BlocksAssumption
      <4> QED
        BY <4>1, ModSmall
    <3>8. xfer.apdu.number = command.n
      BY <3>6, <3>7 DEF LoadBlock
    <3> QED
      BY <3>4, <3>5, <3>8
  <2> QED
    BY <2>1 DEF LoadFits, Shape, LengthInv
<1> QED
  BY <1>1, BaseInvariant, ShapeInvariant, PTL

-----------------------------------------------------------------------------
(* What is on the card *)

\* What a command may put on the card or take off it.
Moves(a) ==
  CASE a.ins = "load" -> {a.arg}
    [] a.ins = "install_for_install" -> {App(a.arg[2])}
    [] a.ins = "delete" -> Related(a)
    [] a.ins \in {"put_key", "delete_key"} -> KeyItems
    [] OTHER -> {}
KeysOf(registry) == \A i, j \in KeyItems \cap registry : i = j

LEMMA NotKeys ==
  /\ \A i \in FileItems : i \notin KeyItems
  /\ \A i \in AppItems : i \notin KeyItems
BY DEF FileItems, AppItems, KeyItems, File, App, Key

LEMMA RunEffect ==
  ASSUME NEW a \in Apdus, NEW e, Summary(a, e), KeysOf(card.registry)
  PROVE  /\ e.sw = Ok => Effect(a, e.card.registry)
         /\ KeysOf(e.card.registry)
         /\ \A i : i \notin Moves(a) => (i \in e.card.registry <=> i \in card.registry)
         /\ a.ins = "install_for_install" /\ a.arg \in card.registry => a.arg \in e.card.registry
<1> DEFINE old == card.registry
           new == e.card.registry
<1>1. a.arg \in InsArgs(a.ins)
  BY DEF Apdus
<1>2. CASE e.sw = Ok /\ a.ins \in ContentCommands
  <2>1. Changed(a, card, e.card)
    BY <1>2 DEF Summary
  <2>2. CASE a.ins = "load"
    <3>1. new = IF a.last THEN old \cup {a.arg} ELSE old
      BY <2>1, <2>2 DEF Changed
    <3>2. a.arg \notin KeyItems
      BY <1>1, <2>2, NotKeys DEF InsArgs
    <3>3. Moves(a) = {a.arg}
      BY <2>2 DEF Moves
    <3>4. Effect(a, new)
      BY <2>2, <3>1 DEF Effect
    <3> HIDE DEF old, new
    <3>5. KeysOf(old) => KeysOf(new)
      BY <3>1, <3>2 DEF KeysOf
    <3> QED
      BY <2>2, <3>1, <3>3, <3>4, <3>5 DEF old, new
  <2>3. CASE a.ins = "install_for_install"
    <3>1. a.arg \in old /\ new = old \cup {App(a.arg[2])}
      BY <2>1, <2>3 DEF Changed
    <3>2. App(a.arg[2]) \notin KeyItems
      <4>1. a.arg \in FileItems
        BY <1>1, <2>3 DEF InsArgs
      <4> QED
        BY <4>1, FileParts, NotKeys
    <3>3. Moves(a) = {App(a.arg[2])}
      BY <2>3 DEF Moves
    <3>4. Effect(a, new)
      BY <2>3, <3>1 DEF Effect
    <3> HIDE DEF old, new
    <3>5. KeysOf(old) => KeysOf(new)
      BY <3>1, <3>2 DEF KeysOf
    <3> QED
      BY <2>3, <3>1, <3>3, <3>4, <3>5 DEF old, new
  <2>4. CASE a.ins = "delete"
    <3>1. new = old \ Related(a)
      BY <2>1, <2>4 DEF Changed
    <3>2. Moves(a) = Related(a)
      BY <2>4 DEF Moves
    <3>3. Effect(a, new)
      BY <2>4, <3>1 DEF Effect
    <3> HIDE DEF old, new
    <3>4. KeysOf(old) => KeysOf(new)
      BY <3>1 DEF KeysOf
    <3> QED
      BY <2>4, <3>1, <3>2, <3>3, <3>4 DEF old, new
  <2>5. CASE a.ins = "put_key"
    <3>1. new = (old \ KeyItems) \cup {a.arg}
      BY <2>1, <2>5 DEF Changed
    <3>2. a.arg \in KeyItems
      BY <1>1, <2>5 DEF InsArgs
    <3>3. Moves(a) = KeyItems
      BY <2>5 DEF Moves
    <3> HIDE DEF old, new
    <3>4. new \cap KeyItems = {a.arg}
      BY <3>1, <3>2
    <3>5. Effect(a, new)
      BY <2>5, <3>4 DEF Effect
    <3>6. KeysOf(new)
      BY <3>4 DEF KeysOf
    <3> QED
      BY <2>5, <3>1, <3>2, <3>3, <3>5, <3>6 DEF old, new
  <2>6. CASE a.ins = "delete_key"
    <3>1. new = old \ KeyItems
      BY <2>1, <2>6 DEF Changed
    <3>2. Moves(a) = KeyItems
      BY <2>6 DEF Moves
    <3> HIDE DEF old, new
    <3>3. new \cap KeyItems = {}
      BY <3>1
    <3>4. Effect(a, new)
      BY <2>6, <3>3 DEF Effect
    <3>5. KeysOf(new)
      BY <3>3 DEF KeysOf
    <3> QED
      BY <2>6, <3>1, <3>2, <3>4, <3>5 DEF old, new
  <2>7. CASE a.ins = "install_for_load"
    <3>1. new = old
      BY <2>1, <2>7 DEF Changed
    <3>2. Effect(a, new)
      BY <2>7 DEF Effect
    <3> QED
      BY <2>7, <3>1, <3>2
  <2> QED
    BY <1>2, <2>2, <2>3, <2>4, <2>5, <2>6, <2>7 DEF ContentCommands
<1>3. CASE ~(e.sw = Ok /\ a.ins \in ContentCommands)
  <2>1. new = old
    BY <1>3 DEF Summary
  <2>2. e.sw = Ok => Effect(a, new)
    BY <1>3 DEF Effect, ContentCommands
  <2> QED
    BY <2>1, <2>2
<1> QED
  BY <1>2, <1>3

\* A command of the shell moves nothing but what it is known to touch.
LEMMA MovesTouched ==
  ASSUME Types, Sent, Busy, xfer \in Xfers
  PROVE  Moves(xfer.apdu) \subseteq Differs
<1>0. command \in CommandSet /\ xfer # Idle
  BY DEF Types, ScriptTypes, Xfers, Idle
<1>1. context = "open" /\ xfer.apdu.ins = Head(command.todo) /\ (xfer.apdu.related <=> mode = 211)
      /\ (xfer.apdu.ins \notin {"init_update", "ext_auth"} => xfer.apdu.arg = command.arg)
  BY <1>0 DEF Sent
<1> DEFINE a == xfer.apdu
<1> HIDE DEF a
<1>2. a.ins = Head(command.todo) /\ (a.related <=> mode = 211)
      /\ (a.ins \notin {"init_update", "ext_auth"} => a.arg = command.arg)
  BY <1>1 DEF a
<1>3. CASE a.ins = "load"
  <2>1. command.op \in {"load", "install"}
    BY <1>0, <1>2, <1>3, HeadCases
  <2>2. Moves(a) = {command.arg}
    BY <1>2, <1>3 DEF Moves
  <2>3. command.arg \in Touched(command)
    BY <2>1 DEF Touched
  <2> QED
    BY <1>1, <2>1, <2>2, <2>3 DEF Differs, a
<1>4. CASE a.ins = "install_for_install"
  <2>1. command.op \in {"install_for_install", "install"}
    BY <1>0, <1>2, <1>4, HeadCases
  <2>2. Moves(a) = {App(command.arg[2])}
    BY <1>2, <1>4 DEF Moves
  <2>3. App(command.arg[2]) \in Touched(command)
    BY <2>1 DEF Touched
  <2> QED
    BY <1>1, <2>1, <2>2, <2>3 DEF Differs, a
<1>5. CASE a.ins = "delete"
  <2>1. command.op = "delete"
    BY <1>0, <1>2, <1>5, HeadCases
  <2>2. Moves(a) = Touched(command)
    BY ZenonT(40), <1>2, <1>5, <2>1 DEF Moves, Touched, Related
  <2> QED
    BY <1>1, <2>1, <2>2 DEF Differs, a
<1>6. CASE a.ins \in {"put_key", "delete_key"}
  <2>1. command.op \in {"put_sc_key", "delete_key"}
    BY <1>0, <1>2, <1>6, HeadCases
  <2>2. Moves(a) = Touched(command)
    BY <1>6, <2>1 DEF Moves, Touched
  <2> QED
    BY <1>1, <2>1, <2>2 DEF Differs, a
<1>7. CASE a.ins \notin {"load", "install_for_install", "delete", "put_key", "delete_key"}
  <2>1. Moves(a) = {}
    BY <1>7 DEF Moves
  <2> QED
    BY <2>1 DEF a
<1> QED
  BY <1>3, <1>4, <1>5, <1>6, <1>7

\* Nothing is on its way, and nothing has changed on the card.
LEMMA RegistryKept ==
  ASSUME RegistryInv, card'.registry = card.registry, UNCHANGED <<belief, unsure>>, xfer' = Idle, ~Busy', Differs = {}
  PROVE  RegistryInv'
<1>1. RegistryAgrees'
  BY DEF RegistryInv, RegistryAgrees, Differs
<1>2. Executed'
  BY DEF Executed
<1>3. OneKey'
  BY DEF RegistryInv, OneKey, KeyItems
<1> QED
  BY <1>1, <1>2, <1>3 DEF RegistryInv

LEMMA RegistryQuiet ==
  ASSUME Types, RegistryInv, Quiet
  PROVE  RegistryInv'
<1>1. xfer' = Idle /\ ~Busy /\ ~Busy'
  BY DEF Types, ScriptTypes, Quiet, Busy
<1>2. card'.registry = card.registry
  BY ResetType DEF Types, CardTypes, Quiet
<1>3. Differs = {}
  BY <1>1 DEF Differs
<1> QED
  BY <1>1, <1>2, <1>3, RegistryKept DEF Quiet

\* A command that failed leaves unsure all it touches.
LEMMA RegistryFail ==
  ASSUME RegistryInv, Busy, ~Busy', unsure' = unsure \cup Touched(command), belief' = belief, card' = card, xfer' = Idle
  PROVE  RegistryInv'
<1>1. ~Busy' /\ unsure' = unsure \cup Touched(command) /\ belief' = belief
  OBVIOUS
<1>2. Differs \subseteq Touched(command) /\ Differs' = {}
  BY <1>1 DEF Differs
<1>3. RegistryAgrees'
  BY <1>1, <1>2 DEF RegistryInv, RegistryAgrees
<1>4. Executed'
  BY <1>1 DEF Executed
<1>5. OneKey'
  BY DEF RegistryInv, OneKey, KeyItems
<1> QED
  BY <1>3, <1>4, <1>5 DEF RegistryInv

LEMMA RegistryExchange ==
  ASSUME Types, Sent, RegistryInv, Busy, xfer \in Xfers, Exchanged,
         UNCHANGED <<mode, script, command, belief, unsure>>
  PROVE  RegistryInv'
<1>0. /\ xfer # Idle /\ xfer' # Idle /\ xfer'.apdu = xfer.apdu /\ context' = context /\ card' \in Cards
      /\ xfer.apdu \in Apdus /\ command \in CommandSet
  BY DEF Exchanged, Xfers, Idle, Types, ScriptTypes
<1>1. Differs' = Differs
  BY <1>0 DEF Differs, Busy, Touched, Related
<1>2. CASE card' = card /\ (xfer'.ran = xfer.ran \/ xfer'.ran = Nothing)
  <2>1. RegistryAgrees' /\ OneKey'
    BY <1>1, <1>2 DEF RegistryInv, RegistryAgrees, OneKey, KeyItems
  <2>2. Nothing # Ok
    BY StatusWords
  <2>3. Executed'
    BY <1>0, <1>2, <2>2 DEF RegistryInv, Executed, Busy
  <2> QED
    BY <2>1, <2>3 DEF RegistryInv
<1>3. ASSUME NEW e \in Execute(xfer.apdu), card' = e.card, xfer'.ran = e.sw
      PROVE  RegistryInv'
  <2> DEFINE a == xfer.apdu
  <2>1. Summary(a, e)
    BY <1>0, ExecuteSummary DEF Types
  <2>2. KeysOf(card.registry)
    BY DEF RegistryInv, OneKey, KeysOf
  <2>3. /\ e.sw = Ok => Effect(a, e.card.registry)
        /\ KeysOf(e.card.registry)
        /\ \A i : i \notin Moves(a) => (i \in e.card.registry <=> i \in card.registry)
        /\ a.ins = "install_for_install" /\ a.arg \in card.registry => a.arg \in e.card.registry
    BY <1>0, <2>1, <2>2, RunEffect
  <2>4. Moves(a) \subseteq Differs
    BY MovesTouched
  <2>5. RegistryAgrees'
    BY <1>1, <1>3, <2>3, <2>4 DEF RegistryInv, RegistryAgrees
  <2>6. OneKey'
    BY <1>3, <2>3 DEF OneKey, KeysOf, KeyItems
  <2>7. ASSUME command.op = "install", command.todo = <<"install_for_install">>
        PROVE  command.arg \in card'.registry
    <3>1. a.ins = "install_for_install" /\ a.arg = command.arg
      BY <1>0, <2>7, One DEF Sent
    <3>2. a.arg \in card.registry
      BY <2>7, <3>1 DEF RegistryInv, Executed
    <3> QED
      BY <1>3, <2>3, <3>1, <3>2
  <2>8. Executed'
    BY <1>0, <1>3, <2>3, <2>7 DEF Executed, Busy
  <2> QED
    BY <2>5, <2>6, <2>8 DEF RegistryInv
<1> QED
  BY <1>2, <1>3 DEF Exchanged

\* A command that has come to its end is on the card.
LEMMA Succeeded ==
  ASSUME Types, ExchangeInv, Sent, RegistryInv, Returning, ~CardRefused, Advanced.todo = <<>>, Succeed
  PROVE  RegistryInv'
<1> DEFINE ins == Head(command.todo)
           reg == card.registry
           outside == \A i \in Items : i \notin unsure /\ i \notin Touched(command) => (i \in reg <=> i \in belief)
<1>0. /\ command \in CommandSet /\ xfer # Idle /\ xfer \in Xfers /\ Busy /\ card' = card /\ xfer' = Idle
      /\ belief' = Reported(command) /\ ~Busy' /\ xfer.apdu.ins = ins /\ mode' = mode
      /\ (ins \notin {"init_update", "ext_auth"} => xfer.apdu.arg = command.arg)
      /\ (xfer.apdu.related <=> mode = 211) /\ command.arg \in Args
  BY DEF Returning, Types, ScriptTypes, Xfers, Idle, Sent, Succeed, Busy, CommandSet, CommandRecords
<1>1. /\ ins = "load" => xfer.apdu.last
      /\ Tail(command.todo) = <<>>
  <2>1. command.todo # <<>> /\ <<"init_update", "ext_auth">> # <<>>
    BY <1>0, CommandCases
  <2> QED
    BY <1>0, <2>1, AdvancedCases
<1>2. ins \in ContentCommands => Effect(xfer.apdu, reg)
  <2> SUFFICES ASSUME ins \in ContentCommands PROVE Effect(xfer.apdu, reg)
    OBVIOUS
  <2>1. command.op \notin {"send_apdu", "send_apdu_nostop", "get_status"} /\ ins # "init_update"
    BY <1>0, HeadCases DEF ContentCommands
  <2>2. xfer.at = "done" /\ xfer.sw = Ok
    <3>1. command.todo # <<>>
      BY <1>0, CommandCases
    <3>2. ~MoreStatus
      BY <2>1 DEF MoreStatus
    <3>3. StatusOk
      BY <2>1, <3>1, <3>2 DEF CardRefused
    <3> QED
      BY <2>1, <3>3 DEF StatusOk
  <2>3. xfer.ran = Ok
    BY <1>0, <2>2 DEF ExchangeInv, ExchangeAt, Unanswered
  <2> QED
    BY <1>0, <2>3 DEF RegistryInv, Executed
<1>3. outside
  BY <1>0 DEF RegistryInv, RegistryAgrees, Differs
<1>4. \A i \in Items : i \notin unsure' => (i \in reg <=> i \in belief')
  <2>1. CASE command.op = "load"
    <3>1. ins = "load"
      BY <1>0, <2>1, HeadCases
    <3>2. command.arg \in reg
      BY <1>0, <1>1, <1>2, <3>1 DEF Effect, ContentCommands
    <3>3. Touched(command) = {command.arg} /\ belief' = belief \cup {command.arg}
      BY <1>0, <2>1 DEF Touched, Reported
    <3>4. unsure' = unsure \ Touched(command)
      BY <2>1 DEF Succeed
    <3> QED
      BY <1>3, <3>2, <3>3, <3>4
  <2>2. CASE command.op \in {"install", "install_for_install"}
    <3>0. <<"load", "install_for_install">> # <<>> /\ <<"install_for_install">> # <<>>
      OBVIOUS
    <3>1. ins = "install_for_install"
      <4>1. CASE command.op = "install"
        BY <1>0, <1>1, <3>0, <4>1, HeadCases
      <4>2. CASE command.op = "install_for_install"
        BY <1>0, <4>2, HeadCases
      <4> QED
        BY <2>2, <4>1, <4>2
    <3>2. command.arg \in reg /\ App(command.arg[2]) \in reg
      BY <1>0, <1>2, <3>1 DEF Effect, ContentCommands
    <3>3. Touched(command) \subseteq {command.arg, App(command.arg[2])}
      BY <2>2 DEF Touched
    <3>4. belief' = belief \cup Touched(command)
      BY <1>0, <2>2 DEF Reported
    <3>5. unsure' = unsure \ Touched(command)
      BY <2>2 DEF Succeed
    <3> QED
      BY <1>3, <3>2, <3>3, <3>4, <3>5
  <2>3. CASE command.op = "install_for_load"
    <3>1. belief' = belief /\ unsure' = unsure
      BY <1>0, <2>3 DEF Reported, Succeed
    <3>2. Differs = {}
      BY <2>3 DEF Differs
    <3> QED
      BY <3>1, <3>2 DEF RegistryInv, RegistryAgrees
  <2>4. CASE command.op = "delete"
    <3>1. ins = "delete"
      BY <1>0, <2>4, HeadCases
    <3>2. Related(xfer.apdu) \cap reg = {}
      BY <1>0, <1>2, <3>1 DEF Effect, ContentCommands
    <3>3. Touched(command) = Related(xfer.apdu)
      BY ZenonT(40), <1>0, <2>4, <3>1 DEF Touched, Related
    <3>4. belief' = belief \ Touched(command)
      BY <1>0, <2>4 DEF Reported
    <3>5. unsure' = unsure \ Touched(command)
      BY <2>4 DEF Succeed
    <3> QED
      BY <1>3, <3>2, <3>3, <3>4, <3>5
  <2>5. CASE command.op = "put_sc_key"
    <3>1. ins = "put_key"
      BY <1>0, <2>5, HeadCases
    <3>2. reg \cap KeyItems = {command.arg}
      BY <1>0, <1>2, <3>1 DEF Effect, ContentCommands
    <3>3. Touched(command) = KeyItems
      BY <2>5 DEF Touched
    <3>4. belief' = (belief \ KeyItems) \cup {command.arg}
      BY <1>0, <2>5 DEF Reported
    <3>5. unsure' = unsure \ Touched(command)
      BY <2>5 DEF Succeed
    <3> QED
      BY <1>3, <3>2, <3>3, <3>4, <3>5
  <2>6. CASE command.op = "delete_key"
    <3>1. ins = "delete_key"
      BY <1>0, <2>6, HeadCases
    <3>2. reg \cap KeyItems = {}
      BY <1>0, <1>2, <3>1 DEF Effect, ContentCommands
    <3>3. Touched(command) = KeyItems
      BY <2>6 DEF Touched
    <3>4. belief' = belief \ Touched(command)
      BY <1>0, <2>6 DEF Reported
    <3>5. unsure' = unsure \ Touched(command)
      BY <2>6 DEF Succeed
    <3> QED
      BY <1>3, <3>2, <3>3, <3>4, <3>5
  <2>7. CASE command.op \notin {"load", "install", "install_for_install", "install_for_load", "delete", "put_sc_key", "delete_key"}
    <3>1. Touched(command) = {} /\ belief' = belief
      BY <1>0, <2>7 DEF Touched, Reported
    <3>2. unsure' = unsure \ Touched(command)
      BY <2>7 DEF Succeed
    <3> QED
      BY <1>3, <3>1, <3>2
  <2> QED
    BY <2>1, <2>2, <2>3, <2>4, <2>5, <2>6, <2>7
<1>5. RegistryAgrees'
  BY <1>0, <1>4 DEF RegistryAgrees, Differs
<1>6. Executed' /\ OneKey'
  BY <1>0 DEF Executed, RegistryInv, OneKey, KeyItems
<1> QED
  BY <1>5, <1>6 DEF RegistryInv

LEMMA RegistryReturn ==
  ASSUME Types, ExchangeInv, Sent, RegistryInv, Returning
  PROVE  RegistryInv'
<1>0. /\ command \in CommandSet /\ xfer # Idle /\ xfer \in Xfers /\ Busy /\ card' = card /\ xfer' = Idle
      /\ mode' = mode /\ context' = context
  BY DEF Returning, Types, ScriptTypes, Xfers, Idle
<1>1. CASE CardRefused /\ Fail
  <2>1. ~Busy' /\ unsure' = unsure \cup Touched(command) /\ belief' = belief
    BY <1>1 DEF Fail, Busy
  <2> QED
    BY <1>0, <2>1, RegistryFail
<1>2. CASE ~CardRefused /\ Advanced.todo # <<>> /\ command' = Advanced /\ UNCHANGED <<script, belief, unsure>>
  <2>1. command'.op = command.op /\ command'.arg = command.arg
    BY <1>0, <1>2, AdvancedCases
  <2>2. Differs' = Differs
    BY <1>0, <1>2, <2>1 DEF Differs, Busy, Touched, Related
  <2>3. RegistryAgrees' /\ OneKey'
    BY <1>0, <1>2, <2>2 DEF RegistryInv, RegistryAgrees, OneKey, KeyItems
  <2>4. ASSUME command.op = "install", Advanced.todo = <<"install_for_install">>
        PROVE  command.arg \in card.registry
    <3> DEFINE ins == Head(command.todo)
    <3>1. ~MoreStatus /\ ins \in {"install_for_load", "load", "install_for_install"}
      BY <1>0, <2>4, HeadCases DEF MoreStatus
    <3>2. CASE ins = "load" /\ xfer.apdu.last
      <4>1. xfer.apdu.ins = "load" /\ xfer.apdu.arg = command.arg
        BY <1>0, <3>2 DEF Sent
      <4>2. StatusOk
        BY <1>0, <1>2, <3>1, <3>2, CommandCases DEF CardRefused
      <4>3. xfer.at = "done" /\ xfer.sw = Ok
        BY <2>4, <4>2 DEF StatusOk
      <4>4. xfer.ran = Ok
        BY <1>0, <4>3 DEF ExchangeInv, ExchangeAt, Unanswered
      <4>5. Effect(xfer.apdu, card.registry)
        BY <1>0, <4>4 DEF RegistryInv, Executed
      <4> QED
        BY <3>2, <4>1, <4>5 DEF Effect
    <3>3. CASE ins = "install_for_install"
      <4>1. command.todo = <<"install_for_install">>
        BY <1>0, <2>4, <3>3, HeadCases
      <4> QED
        BY <1>0, <2>4, <4>1 DEF RegistryInv, Executed
    <3>4. CASE ins = "load" /\ ~xfer.apdu.last
      <4>1. Advanced.todo = command.todo
        BY <1>0, <3>4, AdvancedCases
      <4>2. Head(<<"install_for_install">>) = "install_for_install"
        BY One
      <4> QED
        BY <2>4, <3>4, <4>1, <4>2
    <3>5. CASE ins = "install_for_load"
      <4>1. Advanced.todo = Tail(command.todo)
        BY <1>0, <3>1, <3>5, AdvancedCases
      <4>2. Tail(command.todo) = <<"load", "install_for_install">>
        BY <1>0, <2>4, <3>5, HeadCases
      <4> QED
        BY <2>4, <4>1, <4>2
    <3> QED
      BY <3>1, <3>2, <3>3, <3>4, <3>5
  <2>5. Executed'
    BY <1>0, <1>2, <2>1, <2>4 DEF Executed
  <2> QED
    BY <2>3, <2>5 DEF RegistryInv
<1>3. CASE ~CardRefused /\ Advanced.todo = <<>> /\ Succeed
  BY <1>3, Succeeded
<1> QED
  BY <1>1, <1>2, <1>3 DEF Returning

LEMMA RegistryStep == Base /\ Shape /\ RegistryInv /\ [Next]_vars => RegistryInv'
<1> SUFFICES ASSUME Types, ExchangeInv, Sent, RegistryInv, [Next]_vars PROVE RegistryInv'
  BY DEF Base, Shape
<1>1. CASE QuietSteps
  BY <1>1, QuietStep, RegistryQuiet
<1>2. CASE BeginCommand
  <2>1. /\ xfer' = Idle /\ NewlyRead(command') /\ UNCHANGED <<card, belief, unsure>> /\ ~Busy
    BY <1>2, BeginBase DEF BeginCommand, Busy
  <2>2. Differs = {}
    BY <2>1 DEF Differs
  <2>3. RegistryAgrees' /\ OneKey'
    BY <2>1, <2>2 DEF RegistryInv, RegistryAgrees, OneKey, KeyItems
  <2>4. Executed'
    BY <2>1 DEF Executed, NewlyRead
  <2> QED
    BY <2>3, <2>4 DEF RegistryInv
<1>3. CASE RefuseSend
  <2>1. Busy /\ card' = card /\ xfer' = Idle /\ ~Busy' /\ unsure' = unsure \cup Touched(command) /\ belief' = belief
    BY <1>3 DEF RefuseSend, Fail, Busy, connVars
  <2> QED
    BY <2>1, RegistryFail
<1>4. CASE SendNothing
  <2>1. Busy /\ card' = card /\ xfer' = Idle /\ ~Busy' /\ unsure' = unsure \cup Touched(command) /\ belief' = belief
    BY <1>4 DEF SendNothing, Crash, Busy, connVars
  <2> QED
    BY <2>1, RegistryFail
<1>5. CASE Send
  <2>1. /\ xfer'.ran = Nothing /\ UNCHANGED <<card, belief, unsure, context, mode, script, command>>
    BY <1>5, SendingStep DEF Sending
  <2>2. Nothing # Ok
    BY StatusWords
  <2>3. Differs' = Differs
    BY <2>1 DEF Differs, Busy, Touched, Related
  <2>4. RegistryAgrees' /\ OneKey'
    BY <2>1, <2>3 DEF RegistryInv, RegistryAgrees, OneKey, KeyItems
  <2>5. Executed'
    BY <2>1, <2>2 DEF RegistryInv, Executed, Busy
  <2> QED
    BY <2>4, <2>5 DEF RegistryInv
<1>6. CASE Exchange
  <2>1. Busy /\ xfer \in Xfers /\ UNCHANGED <<mode, script, command, belief, unsure>>
    BY <1>6 DEF Exchange, shellVars, Types, ConnTypes
  <2> QED
    BY <1>6, <2>1, ExchangeBase, RegistryExchange
<1>7. CASE Return
  BY <1>7, ReturnStep, RegistryReturn
<1>8. CASE Interrupted
  <2>1. card'.registry = card.registry /\ UNCHANGED <<context, xfer, mode, script, command, belief, unsure>>
    BY <1>8, InterruptedBase, ResetType DEF Interrupted, ResetByOther, shellVars, Types, CardTypes
  <2>2. Differs' = Differs
    BY <2>1 DEF Differs, Busy, Touched, Related
  <2>3. RegistryAgrees' /\ OneKey'
    BY <2>1, <2>2 DEF RegistryInv, RegistryAgrees, OneKey, KeyItems
  <2>4. Executed'
    BY <2>1 DEF RegistryInv, Executed, Busy
  <2> QED
    BY <2>3, <2>4 DEF RegistryInv
<1>9. CASE NextScript
  <2>1. card'.registry = card.registry /\ UNCHANGED <<belief, unsure>> /\ xfer' = Idle /\ ~Busy /\ ~Busy'
    BY <1>9, NextScriptBase, ResetType DEF NextScript, Busy, Types, CardTypes
  <2>2. Differs = {}
    BY <2>1 DEF Differs
  <2> QED
    BY <2>1, <2>2, RegistryKept
<1>10. CASE UNCHANGED vars
  <2>1. UNCHANGED <<card, context, xfer, mode, script, command, belief, unsure>>
    BY <1>10 DEF vars, connVars, shellVars, history
  <2>2. Differs' = Differs
    BY <2>1 DEF Differs, Busy, Touched, Related
  <2>3. RegistryAgrees' /\ OneKey'
    BY <2>1, <2>2 DEF RegistryInv, RegistryAgrees, OneKey, KeyItems
  <2>4. Executed'
    BY <2>1 DEF RegistryInv, Executed, Busy
  <2> QED
    BY <2>3, <2>4 DEF RegistryInv
<1> QED
  BY <1>1, <1>2, <1>3, <1>4, <1>5, <1>6, <1>7, <1>8, <1>9, <1>10 DEF Next, ShellStep, QuietSteps

LEMMA RegistryInvariant == Spec => []RegistryInv
<1>1. Init => RegistryInv
  <2> SUFFICES ASSUME Init PROVE RegistryInv
    OBVIOUS
  <2>1. card.registry = {Key(FirstKey)}
    BY CardInitType DEF Init
  <2>2. belief = card.registry /\ unsure = {} /\ xfer = Idle /\ ~Busy
    BY DEF Init, ConnInit, Busy
  <2>3. RegistryAgrees /\ Executed
    BY <2>2 DEF RegistryAgrees, Executed
  <2>4. OneKey
    BY <2>1 DEF OneKey
  <2> QED
    BY <2>3, <2>4 DEF RegistryInv
<1>2. Base /\ Shape /\ RegistryInv /\ [Next]_vars => RegistryInv'
  BY RegistryStep
<1> QED
  BY <1>1, <1>2, BaseInvariant, ShapeInvariant, PTL DEF Spec

\* What the shell has reported is so: but for what a failed command may have
\* changed, the card holds what the successful ones put on it (gpshell.c).
THEOREM ReportsAreTrue == Spec => []BeliefHolds
<1>1. RegistryInv => BeliefHolds
  BY DEF RegistryInv, RegistryAgrees, Differs, BeliefHolds
<1> QED
  BY <1>1, RegistryInvariant, PTL

-----------------------------------------------------------------------------
(* The secure channel *)

\* Positions in the chain.
LEMMA ChainBack ==
  ASSUME NEW c \in Chain, NEW g \in Nat, g < ChainLength
  PROVE  /\ (c + g) % ChainLength = c => g = 0
         /\ c % ChainLength = c
         /\ (((c + g) % ChainLength) + 1) % ChainLength = (c + g + 1) % ChainLength
<1>1. ChainLength \in Nat \ {0} /\ c \in Nat /\ c < ChainLength
  BY ChainAssumption DEF Chain
<1>2. PICK d \in Nat \ {0} : d = ChainLength
  BY <1>1
<1>3. PICK x \in 0..(2 * d - 1) : x = c + g /\ x + 1 \in 0..(2 * d - 1)
  BY <1>1, <1>2
<1>4. PICK y : y = x % d
  OBVIOUS
<1>5. y = IF x < d THEN x ELSE x - d
  BY <1>4, ModTwo
<1>6. (x + 1) % d = IF x + 1 < d THEN x + 1 ELSE x + 1 - d
  BY <1>3, ModTwo
<1>7. y \in 0..d - 1 /\ y + 1 \in 0..(2 * d - 1)
  BY <1>3, <1>5
<1>8. (y + 1) % d = IF y + 1 < d THEN y + 1 ELSE y + 1 - d
  <2>1. PICK z \in 0..(2 * d - 1) : z = y + 1
    BY <1>7
  <2>2. z % d = IF z < d THEN z ELSE z - d
    BY ModTwo
  <2> QED
    BY <1>7, <2>1, <2>2
<1>9. c \in 0..(2 * d - 1)
  BY <1>1, <1>2
<1>10. c % d = IF c < d THEN c ELSE c - d
  BY <1>9, ModTwo
<1>11. c % d = c
  BY <1>1, <1>2, <1>10
<1>12. y = c => g = 0
  BY <1>1, <1>2, <1>3, <1>5
<1>13. (y + 1) % d = (x + 1) % d
  BY <1>3, <1>5, <1>6, <1>8
<1> QED
  BY <1>2, <1>3, <1>4, <1>11, <1>12, <1>13

\* How far the library is ahead when nothing is on its way.
LEMMA AheadBy ==
  ASSUME NEW m \in Modes, NEW g \in 0..(read' - Hopeful'), g = 0 <=> lost' # card'.session.number, ~Flying',
         card'.session.chain \in Chain,
         secInfo'[m].chain = (card'.session.chain + g) % ChainLength
  PROVE  Ahead(m)'
<1>1. Flight' = 0
  BY DEF Flight
<1>2. card'.session.chain + g + 0 = card'.session.chain + g
  BY DEF Chain
<1> QED
  BY <1>1, <1>2 DEF Ahead

Open == card.session.st = "open"

\* The bound on how far it is ahead does not fall.
LEMMA StaysAhead ==
  ASSUME NEW m \in Modes, Ahead(m), ~Flying, ~Flying', UNCHANGED <<card, lost>>, secInfo'[m] = secInfo[m],
         read \in Nat, read' \in Nat, read' - Hopeful' >= read - Hopeful
  PROVE  Ahead(m)'
<1>0. PICK a \in Int, b \in Int : a = read - Hopeful /\ b = read' - Hopeful'
  BY DEF Hopeful
<1>1. PICK g \in 0..a :
        /\ g = 0 <=> lost # card.session.number
        /\ secInfo[m].chain = (card.session.chain + g + Flight) % ChainLength
  BY <1>0 DEF Ahead
<1>2. g \in 0..b
  BY <1>0, <1>1
<1>3. Flight = 0 /\ Flight' = 0
  BY DEF Flight
<1> QED
  BY <1>0, <1>1, <1>2, <1>3 DEF Ahead

LEMMA SessionQuiet ==
  ASSUME Types, SessionInv, Quiet
  PROVE  SessionInv'
<1>0. /\ xfer = Idle /\ xfer' = Idle /\ ~Busy /\ ~Busy' /\ UNCHANGED <<secInfo, lost, read>>
      /\ card' = card \/ card' = Reset(card)
      /\ script = "read" /\ read \in Nat
  BY DEF Types, ScriptTypes, Quiet, Busy
<1>1. Reset(card).session = NoSession /\ NoSession.st = "none"
  BY ResetType DEF Types, CardTypes, NoSession
<1>2. Challenge' /\ Authentication' /\ Proof'
  BY <1>0 DEF Challenge, Authentication, Proof
<1>3. Numbered'
  <2>1. handle' # "open" => card'.session.st = "none"
    BY <1>0, <1>1 DEF Quiet, SessionInv, Numbered
  <2> QED
    BY <1>0, <1>1, <2>1 DEF SessionInv, Numbered
<1>4. Known'
  <2>0. Hopeful = 0 /\ Hopeful' = 0 /\ ~Forgets /\ ~Flying /\ ~Flying'
    BY <1>0 DEF Hopeful, Forgets, Flying, Idle
  <2>1. CASE card' = card
    <3> SUFFICES ASSUME Open PROVE Known'
      BY <2>1 DEF Known, Open
    <3>1. PICK m \in Modes : /\ secInfo[m].key = card.session.key /\ secInfo[m].number = card.session.number
                             /\ secInfo[m].level = card.session.level
                             /\ card.session.level \in MacLevels => Ahead(m)
                             /\ card.session.level \notin MacLevels => lost # card.session.number
      BY <1>0, <2>0 DEF SessionInv, Known, Open
    <3>2. Ahead(m) => Ahead(m)'
      BY <1>0, <2>0, <2>1, StaysAhead
    <3> QED
      BY <1>0, <2>0, <2>1, <3>1, <3>2 DEF Known
  <2>2. CASE card' = Reset(card)
    BY <1>1, <2>2 DEF Known
  <2> QED
    BY <1>0, <2>1, <2>2
<1> QED
  BY <1>2, <1>3, <1>4 DEF SessionInv

\* Nothing of the session changes.
LEMMA SessionKept ==
  ASSUME SessionInv, UNCHANGED <<card, handle, secInfo, lost>>, xfer' = Idle, xfer = Idle \/ ~Flying,
         Authentication', read \in Nat, read' \in Nat, read' - Hopeful' >= read - Hopeful,
         script' = "read" \/ Busy' => (script = "read" \/ Busy) /\ ~Forgets
  PROVE  SessionInv'
<1>1. Challenge' /\ Proof' /\ Numbered'
  BY DEF Challenge, Proof, SessionInv, Numbered
<1>2. ~Flying /\ ~Flying'
  BY DEF Flying, Idle
<1>3. Known'
  <2> SUFFICES ASSUME Open, script' = "read" \/ Busy' PROVE Known'
    BY DEF Known, Open
  <2>1. PICK m \in Modes : /\ secInfo[m].key = card.session.key /\ secInfo[m].number = card.session.number
                           /\ secInfo[m].level = card.session.level
                           /\ card.session.level \in MacLevels => Ahead(m)
                           /\ card.session.level \notin MacLevels => lost # card.session.number
    BY DEF SessionInv, Known, Open
  <2>2. Ahead(m) => Ahead(m)'
    BY <1>2, StaysAhead
  <2> QED
    BY <1>2, <2>1, <2>2 DEF Known
<1> QED
  BY <1>1, <1>3 DEF SessionInv

\* What wrapping a command does to the numbers of the sessions.
LEMMA WrapNumbers ==
  ASSUME Types, Busy, SessionInv, NEW i, Wrapping(i)
  PROVE  /\ mode \in Modes /\ i \in Infos /\ secInfo'[mode] = i /\ (\A m \in Modes : m # mode => secInfo'[m] = secInfo[m])
         /\ \A m \in Modes : secInfo'[m].number \in {0, secInfo[m].number}
         /\ secInfo'[201].number = secInfo'[211].number => secInfo'[201].number = 0
<1>0. mode \in Modes /\ secInfo \in [Modes -> Infos] /\ secInfo' = [secInfo EXCEPT ![mode] = i] /\ i \in NewInfos
  BY DEF Types, ShellTypes, Wrapping
<1>1. /\ secInfo'[mode] = i /\ (\A m \in Modes : m # mode => secInfo'[m] = secInfo[m])
  BY <1>0
<1>2. i \in Infos /\ i.number \in {0, secInfo[mode].number}
  <2>1. i \in Infos
    BY <1>0, NewInfoType
  <2>2. CASE Head(command.todo) = "init_update"
    BY <1>0, <2>2, OpenedType
  <2>3. CASE Head(command.todo) # "init_update"
    BY <1>0, <2>3, NewInfoType
  <2> QED
    BY <2>1, <2>2, <2>3
<1>3. \A m \in Modes : secInfo'[m].number \in {0, secInfo[m].number}
  BY <1>1, <1>2
<1>4. secInfo'[201].number = secInfo'[211].number => secInfo'[201].number = 0
  BY <1>3 DEF SessionInv, Numbered, Modes
<1> QED
  BY <1>0, <1>1, <1>2, <1>3, <1>4

\* A command of the session that is open, or another.
LEMMA WrapKnown ==
  ASSUME Types, Busy, SessionInv, NEW i, Wrapping(i), Open, Head(command.todo) \notin {"init_update", "ext_auth"},
         NEW m \in Modes, secInfo[m].number = card.session.number
  PROVE  /\ secInfo'[m].key = secInfo[m].key /\ secInfo'[m].number = secInfo[m].number /\ secInfo'[m].level = secInfo[m].level
         /\ Misses(Protects, Info.number) <=> Protects /\ mode = m
         /\ Protects /\ mode = m =>
              /\ secInfo[m].level \in MacLevels /\ Info.chain = secInfo[m].chain /\ Info.number = card.session.number
              /\ secInfo'[m].chain = (secInfo[m].chain + 1) % ChainLength
         /\ ~(Protects /\ mode = m) => secInfo'[m].chain = secInfo[m].chain
<1>0. mode \in Modes /\ InfoType /\ i \in NewInfos /\ card.session.number \in 1..5
  BY DEF Types, ShellTypes, InfoType, Wrapping, SessionInv, Numbered, Open
<1>1. secInfo'[mode] = i /\ (\A k \in Modes : k # mode => secInfo'[k] = secInfo[k])
  BY WrapNumbers
<1>2. /\ i.level = secInfo[mode].level /\ i.number = secInfo[mode].number /\ i.key = secInfo[mode].key
      /\ Info.level = secInfo[mode].level /\ Info.chain = secInfo[mode].chain /\ Info.number = secInfo[mode].number
      /\ i.chain = IF Protects THEN (secInfo[mode].chain + 1) % ChainLength ELSE secInfo[mode].chain
  BY <1>0, NewInfoType, InfoFields
<1>3. mode # m => secInfo[mode].number # card.session.number
  BY <1>0 DEF SessionInv, Numbered, Modes
<1>4. Misses(Protects, Info.number) <=> Protects /\ mode = m
  BY <1>2, <1>3 DEF Misses, Open
<1>5. Protects => Info.level \in MacLevels
  BY DEF Protects
<1> QED
  BY <1>1, <1>2, <1>4, <1>5

LEMMA SessionSend ==
  ASSUME MaxCommands < ChainLength, Types, SessionInv, NEW i, Sending(i)
  PROVE  SessionInv'
<1> DEFINE ins == Head(command.todo)
           s == card.session
<1>0. /\ Busy /\ xfer = Idle /\ xfer'.at = "first" /\ xfer'.apdu = Out /\ xfer'.ran = Nothing /\ xfer' # Idle
      /\ Wrapping(i) /\ mode \in Modes /\ InfoType
      /\ UNCHANGED <<card, handle, read, mode, script, command, lost>>
      /\ s \in Sessions /\ lost \in 0..5 /\ ~Flying /\ Flight = 0 /\ read \in 0..MaxCommands
  BY DEF Sending, Xfers, Idle, Types, ShellTypes, ScriptTypes, InfoType, CardTypes, Cards, HistoryTypes, Flying, Flight
<1>1. /\ secInfo'[mode] = i /\ (\A m \in Modes : m # mode => secInfo'[m] = secInfo[m])
      /\ \A m \in Modes : secInfo'[m].number \in {0, secInfo[m].number}
      /\ secInfo'[201].number = secInfo'[211].number => secInfo'[201].number = 0
  BY <1>0, WrapNumbers
<1>3. Numbered'
  BY <1>0, <1>1 DEF SessionInv, Numbered
<1>4. Challenge'
  <2> SUFFICES ASSUME Out.ins = "init_update"
               PROVE  LET n == Out.arg[2] IN
                      n # lost /\ (\A m \in Modes : secInfo'[m].number # n) /\ s.number # n
    BY <1>0, StatusWords DEF Challenge
  <2>1. Out.arg = <<"number", FreshNumber>>
    BY <1>0, OutContent
  <2>2. /\ FreshNumber # lost /\ FreshNumber # s.number /\ FreshNumber \in 1..5
        /\ \A m \in Modes : secInfo[m].number # FreshNumber
    BY <1>0, FreshIsFresh DEF Sessions
  <2>3. \A m \in Modes : secInfo'[m].number # FreshNumber
    BY <1>1, <2>2
  <2> QED
    BY <2>1, <2>2, <2>3
<1>5. Authentication'
  BY <1>0 DEF SessionInv, Authentication, Busy
<1>6. Proof'
  <2> SUFFICES ASSUME Out.ins = "ext_auth"
               PROVE  /\ Out.mac = Mac(i.impl, MacKey(i.impl), i.key, i.number, 0)
                      /\ i.level = command.level /\ i.chain = 1 % ChainLength
    BY <1>0, <1>1 DEF Proof
  <2>1. ins = "ext_auth" /\ i \in NewInfos
    BY <1>0, OutType DEF Wrapping
  <2>2. Out.mac = Mac(Info.impl, MacKey(Info.impl), Info.key, Info.number, 0)
    BY <1>0, <2>1, OutType
  <2>3. /\ i.key = Info.key /\ i.number = Info.number /\ i.impl = Info.impl
        /\ i.level = command.level /\ i.chain = 1 % ChainLength
    BY <1>0, <2>1, NewInfoType, InfoFields
  <2> QED
    BY <2>2, <2>3
<1>7. Known'
  <2>0. Forgets' <=> ins = "init_update"
    BY <1>0, OutContent DEF Forgets, Busy
  <2> SUFFICES ASSUME Open, ins # "init_update"
               PROVE  Known'
    BY <1>0, <2>0 DEF Known, Open
  <2>1. ins # "ext_auth"
    BY <1>0 DEF SessionInv, Authentication, Open
  <2>2. PICK m \in Modes : /\ secInfo[m].key = s.key /\ secInfo[m].number = s.number /\ secInfo[m].level = s.level
                           /\ s.level \in MacLevels => Ahead(m)
                           /\ s.level \notin MacLevels => lost # s.number
    BY <1>0 DEF SessionInv, Known, Open, Forgets
  <2>3. /\ secInfo'[m].key = s.key /\ secInfo'[m].number = s.number /\ secInfo'[m].level = s.level
        /\ Misses(Protects, Info.number) <=> Protects /\ mode = m
        /\ Protects /\ mode = m =>
              /\ s.level \in MacLevels /\ Info.chain = secInfo[m].chain
              /\ secInfo'[m].chain = (secInfo[m].chain + 1) % ChainLength
        /\ ~(Protects /\ mode = m) => secInfo'[m].chain = secInfo[m].chain
    BY <1>0, <2>1, <2>2, WrapKnown
  <2>6. /\ Protects => Out.mac # NULL /\ Out.mac.number = Info.number /\ Out.mac.previous = Info.chain
        /\ ~Protects => Out.mac = NULL
    <3>1. Info \in Infos
      BY <1>0, InfoFields
    <3>2. Info.chain \in Chain
      BY <3>1 DEF Infos, Chain
    <3> QED
      BY <1>0, <2>1, <3>1, <3>2, OutType, MacType
  <2>7. Flying' <=> Protects /\ mode = m
    <3>1. Flying' <=> Out.mac # NULL /\ Out.mac.number = s.number
      BY <1>0 DEF Flying
    <3>2. Misses(Protects, Info.number) <=> Protects /\ s.number = Info.number
      BY DEF Misses, Open
    <3> QED
      BY <2>3, <2>6, <3>1, <3>2
  <2>8. Hopeful = 1 /\ Hopeful' = 1
    BY <1>0 DEF Hopeful, Failing, Busy
  <2>9. CASE s.level \notin MacLevels
    <3>1. ~Flying'
      BY <2>3, <2>7, <2>9
    <3> QED
      BY <1>0, <2>2, <2>3, <2>9, <3>1 DEF Known
  <2>10. CASE s.level \in MacLevels
    <3>1. PICK g \in 0..(read - 1) : /\ g = 0 <=> lost # s.number
                                     /\ secInfo[m].chain = (s.chain + g + Flight) % ChainLength
      BY <2>2, <2>8, <2>10 DEF Ahead
    <3>2. s.chain \in Chain /\ g \in Nat /\ g < ChainLength
      BY <1>0, <3>1, ShellAssumption, ChainAssumption DEF Sessions
    <3>3. secInfo[m].chain = (s.chain + g) % ChainLength
      <4>1. s.chain + g + 0 = s.chain + g
        BY <3>2 DEF Chain
      <4> QED
        BY <1>0, <3>1, <4>1
    <3>4. CASE Protects /\ mode = m
      <4>1. Flight' = 1 /\ Flying'
        BY <2>7, <3>4 DEF Flight
      <4>2. secInfo'[m].chain = (s.chain + g + 1) % ChainLength
        BY <2>3, <3>2, <3>3, <3>4, ChainBack
      <4>3. xfer'.apdu.mac.previous = (s.chain + g) % ChainLength
        BY <1>0, <2>3, <2>6, <3>3, <3>4
      <4>4. Ahead(m)'
        BY <1>0, <2>8, <3>1, <4>1, <4>2, <4>3 DEF Ahead
      <4> QED
        BY <1>0, <2>3, <2>10, <4>4 DEF Known
    <3>5. CASE ~(Protects /\ mode = m)
      <4>1. ~Flying'
        BY <2>7, <3>5
      <4>2. secInfo'[m].chain = (s.chain + g) % ChainLength
        BY <2>3, <3>3, <3>5
      <4>3. g \in 0..(read' - Hopeful')
        BY <1>0, <2>8, <3>1
      <4>4. Ahead(m)'
        BY <1>0, <3>1, <3>2, <4>1, <4>2, <4>3, AheadBy
      <4> QED
        BY <1>0, <2>3, <2>10, <4>4 DEF Known
    <3> QED
      BY <3>4, <3>5
  <2> QED
    BY <2>9, <2>10
<1> QED
  BY <1>3, <1>4, <1>5, <1>6, <1>7 DEF SessionInv

\* A command that is refused when it has its code: the library is one further
\* ahead.
LEMMA SessionRefuse ==
  ASSUME MaxCommands < ChainLength, Types, SessionInv, Refusing
  PROVE  SessionInv'
<1> DEFINE ins == Head(command.todo)
           s == card.session
<1>0. /\ Busy /\ xfer = Idle /\ xfer' = Idle /\ script' \in {"read", "ended"} /\ ~Busy' /\ Fail
      /\ UNCHANGED <<card, handle, read, mode>> /\ mode \in Modes /\ InfoType /\ command \in CommandSet
      /\ s \in Sessions /\ read \in 0..MaxCommands /\ read > 0 /\ ~Flying /\ ~Flying' /\ Flight = 0
      /\ Hopeful = 1 /\ Hopeful' = 0 /\ ~Forgets
  BY DEF Refusing, Types, ShellTypes, ScriptTypes, InfoType, CardTypes, Cards, Flying, Flight, Hopeful, Failing, Forgets, Busy, Idle
<1>1. Authentication' /\ Challenge' /\ Proof'
  BY <1>0 DEF Authentication, Challenge, Proof
<1>2. CASE UNCHANGED <<secInfo, lost>>
  BY <1>0, <1>1, <1>2, ShellAssumption, SessionKept
<1>3. ASSUME NEW i \in Infos, Wrapping(i), lost' = IF Misses(Protects, Info.number) THEN Info.number ELSE lost
      PROVE  SessionInv'
  <2>1. secInfo'[201].number = secInfo'[211].number => secInfo'[201].number = 0
    BY <1>0, <1>3, WrapNumbers
  <2>2. s.st = "init" => lost' = lost
    BY <1>3 DEF Misses
  <2>3. Numbered'
    BY <1>0, <2>1, <2>2 DEF SessionInv, Numbered
  <2>4. ASSUME Open, script' = "read" PROVE Known'
    <3>1. ins \notin {"init_update", "ext_auth"}
      <4>1. command.op \in GoesOn
        BY <1>0, <2>4 DEF Fail
      <4> QED
        BY <1>0, <4>1, HeadCases DEF GoesOn, ContentCommands
    <3>2. PICK m \in Modes : /\ secInfo[m].key = s.key /\ secInfo[m].number = s.number /\ secInfo[m].level = s.level
                             /\ s.level \in MacLevels => Ahead(m)
                             /\ s.level \notin MacLevels => lost # s.number
      BY <1>0, <2>4 DEF SessionInv, Known, Open
    <3>3. /\ secInfo'[m].key = s.key /\ secInfo'[m].number = s.number /\ secInfo'[m].level = s.level
          /\ Misses(Protects, Info.number) <=> Protects /\ mode = m
          /\ Protects /\ mode = m =>
                /\ s.level \in MacLevels /\ Info.number = s.number
                /\ secInfo'[m].chain = (secInfo[m].chain + 1) % ChainLength
          /\ ~(Protects /\ mode = m) => secInfo'[m].chain = secInfo[m].chain
      BY <1>0, <1>3, <2>4, <3>1, <3>2, WrapKnown
    <3>4. CASE s.level \notin MacLevels
      BY <1>0, <1>3, <3>2, <3>3, <3>4 DEF Known
    <3>5. CASE s.level \in MacLevels
      <4>1. PICK g \in 0..(read - 1) : /\ g = 0 <=> lost # s.number
                                       /\ secInfo[m].chain = (s.chain + g + Flight) % ChainLength
        BY <1>0, <3>2, <3>5 DEF Ahead
      <4>2. s.chain \in Chain /\ g \in Nat /\ g < ChainLength
        BY <1>0, <4>1, ShellAssumption, ChainAssumption DEF Sessions
      <4>3. secInfo[m].chain = (s.chain + g) % ChainLength
        <5>1. s.chain + g + 0 = s.chain + g
          BY <4>2 DEF Chain
        <5> QED
          BY <1>0, <4>1, <5>1
      <4>4. CASE Protects /\ mode = m
        <5> DEFINE h == g + 1
        <5>1. s.chain + g + 1 = s.chain + h /\ h \in 0..(read' - Hopeful') /\ h # 0
          BY <1>0, <4>1, <4>2 DEF Chain
        <5>2. (((s.chain + g) % ChainLength) + 1) % ChainLength = (s.chain + g + 1) % ChainLength
          BY <4>2, ChainBack
        <5>3. secInfo'[m].chain = (s.chain + h) % ChainLength
          BY <3>3, <4>3, <4>4, <5>1, <5>2
        <5>4. lost' = s.number
          BY <1>3, <3>3, <4>4
        <5> HIDE DEF h
        <5>5. h = 0 <=> lost' # card'.session.number
          BY <1>0, <5>1, <5>4
        <5>6. Ahead(m)'
          BY <1>0, <4>2, <5>1, <5>3, <5>5, AheadBy
        <5> QED
          BY <1>0, <3>3, <3>5, <5>6 DEF Known
      <4>5. CASE ~(Protects /\ mode = m)
        <5>1. g \in 0..(read' - Hopeful') /\ lost' = lost
          BY <1>0, <1>3, <3>3, <4>1, <4>5
        <5>2. secInfo'[m].chain = (s.chain + g) % ChainLength
          BY <3>3, <4>3, <4>5
        <5>3. Ahead(m)'
          BY <1>0, <4>1, <4>2, <5>1, <5>2, AheadBy
        <5> QED
          BY <1>0, <3>3, <3>5, <5>3 DEF Known
      <4> QED
        BY <4>4, <4>5
    <3> QED
      BY <3>4, <3>5
  <2>5. Known'
    BY <1>0, <2>4 DEF Known, Open
  <2> QED
    BY <1>1, <2>3, <2>5 DEF SessionInv
<1> QED
  BY <1>2, <1>3 DEF Refusing

\* A command the card did not get, of a session that is open.
Gap ==
  /\ xfer'.at = "failed" /\ xfer'.ran = Nothing /\ xfer.apdu.mac # NULL
  /\ card.session.st = "open" /\ card.session.number = xfer.apdu.mac.number

\* What an exchange means to the session: a command is lost, nothing happens to
\* it, or the card executes one.
LEMMA SessionExchanged ==
  ASSUME Types, ExchangeInv, Exchange
  PROVE  \/ Gap /\ Flying /\ card' = card /\ lost' = card.session.number
         \/ /\ card' = card /\ lost' = lost /\ (Flying => ~Open)
            /\ (xfer'.ran = xfer.ran /\ xfer'.heard = xfer.heard) \/ xfer'.ran = Nothing
         \/ /\ xfer.ran = Nothing /\ handle = "open" /\ lost' = lost
            /\ xfer.apdu.mac # NULL => xfer.at = "first"
            /\ \E e \in Execute(xfer.apdu) : card' = e.card /\ xfer'.ran = e.sw /\ xfer'.heard = e.card.session
<1>0. Exchanged /\ xfer \in Xfers /\ xfer # Idle /\ lost' = IF Gap THEN card.session.number ELSE lost
  BY ExchangeBase DEF Exchange, Gap, Misses, Types, ConnTypes
<1>1. xfer.at \in {"first", "get", "loop", "tail"}
  BY DEF Exchange, SendAPDU, First, GetResponse, AskAgain, FetchMore, FetchAnswer
<1>2. xfer.apdu.mac # NULL /\ xfer.ran = Nothing => xfer.at = "first"
  BY <1>0, <1>1 DEF ExchangeInv
<1>3. xfer.at = "first" => xfer.ran = Nothing
  BY <1>0 DEF ExchangeInv, ExchangeAt, Unanswered
<1>4. CASE card' = card /\ xfer'.ran = xfer.ran /\ xfer'.heard = xfer.heard /\ (xfer'.at = "failed" \/ xfer.at # "first")
  <2>1. CASE Gap
    BY <1>0, <1>2, <1>4, <2>1 DEF Gap, Flying
  <2>2. CASE ~Gap
    <3>1. Flying => ~Open
      BY <1>3, <1>4, <2>2 DEF Gap, Flying, Open
    <3> QED
      BY <1>0, <1>4, <2>2, <3>1
  <2> QED
    BY <2>1, <2>2
<1>5. CASE card' = card /\ xfer.apdu.case = 2 /\ xfer.ran = Nothing /\ xfer'.ran = Nothing
  <2>1. xfer.apdu.mac = NULL
    BY <1>0, <1>5 DEF Xfers, Apdus
  <2> QED
    BY <1>0, <1>5, <2>1 DEF Gap, Flying
<1>6. ASSUME xfer.ran = Nothing, handle = "open",
             NEW e \in Execute(xfer.apdu), card' = e.card, xfer'.ran = e.sw, xfer'.heard = e.card.session
      PROVE  lost' = lost
  <2>1. Summary(xfer.apdu, e)
    BY <1>0, ExecuteSummary DEF Types, Xfers
  <2>2. e.sw # Nothing
    BY <2>1, StatusWords DEF Summary
  <2> QED
    BY <1>0, <1>6, <2>2 DEF Gap
<1> QED
  BY <1>0, <1>2, <1>4, <1>5, <1>6 DEF Exchanged

\* The first of them: the library is one further ahead.
LEMMA SessionLost ==
  ASSUME MaxCommands < ChainLength, Types, ExchangeInv, Sent, SessionInv, Exchange,
         Gap, Flying, card' = card, lost' = card.session.number
  PROVE  SessionInv'
<1> DEFINE s == card.session
<1>0. /\ Exchanged /\ xfer'.at = "failed" /\ xfer'.apdu = xfer.apdu /\ s.st = "open" /\ handle = "open"
      /\ UNCHANGED <<handle, secInfo, mode, script, command>> /\ xfer # Idle /\ xfer' # Idle
      /\ read' = read /\ read \in 0..MaxCommands /\ s \in Sessions /\ xfer'.ran = Nothing /\ Busy
  BY ExchangeBase DEF Exchange, Exchanged, Gap, shellVars, SessionInv, Numbered, Types, ScriptTypes, ConnTypes, CardTypes, Cards, Xfers, Idle
<1>1. Numbered'
  BY <1>0 DEF SessionInv, Numbered
<1>2. xfer.apdu.ins # "init_update"
  BY <1>0 DEF Gap, Sent
<1>3. Challenge' /\ Authentication' /\ Proof'
  BY <1>0, <1>2 DEF Challenge, Authentication, Proof
<1>4. PICK m \in Modes : /\ secInfo[m].key = s.key /\ secInfo[m].number = s.number /\ secInfo[m].level = s.level
                         /\ s.level \in MacLevels => Ahead(m)
                         /\ s.level \notin MacLevels => lost # s.number /\ ~Flying
  BY <1>0, <1>2 DEF SessionInv, Known, Forgets
<1>5. s.level \in MacLevels
  BY <1>4
<1>60. Hopeful = 1 /\ Hopeful' = 0
  BY <1>0 DEF Flying, Hopeful, Failing, Busy
<1>6. PICK g \in 0..(read - 1) : secInfo[m].chain = (s.chain + g + Flight) % ChainLength
  BY <1>4, <1>5, <1>60 DEF Ahead
<1>7. Flight = 1 /\ ~Flying'
  BY <1>0 DEF Flight, Flying
<1>8. g + 1 \in 0..(read' - Hopeful') /\ g + 1 # 0 /\ s.chain + g + 1 = s.chain + (g + 1)
  BY <1>0, <1>6, <1>60, ShellAssumption, ChainAssumption DEF Sessions, Chain
<1>9. secInfo'[m].chain = (s.chain + (g + 1)) % ChainLength
  BY <1>0, <1>6, <1>7, <1>8
<1>10. card'.session.chain \in Chain /\ lost' = card'.session.number
  BY <1>0 DEF Sessions
<1>11. Ahead(m)'
  <2> DEFINE h == g + 1
  <2>1. h \in 0..(read' - Hopeful') /\ (h = 0 <=> lost' # card'.session.number) /\ secInfo'[m].chain = (card'.session.chain + h) % ChainLength
    BY <1>8, <1>9, <1>10
  <2> HIDE DEF h
  <2> QED
    BY <1>7, <1>10, <2>1, AheadBy
<1>12. Known'
  BY <1>0, <1>4, <1>5, <1>11 DEF Known
<1> QED
  BY <1>1, <1>3, <1>12 DEF SessionInv

\* The second: nothing was on its way in this session.
LEMMA SessionSame ==
  ASSUME Types, ExchangeInv, SessionInv, Exchange, card' = card, lost' = lost, Flying => ~Open,
         (xfer'.ran = xfer.ran /\ xfer'.heard = xfer.heard) \/ xfer'.ran = Nothing
  PROVE  SessionInv'
<1> DEFINE s == card.session
<1>0. /\ xfer'.at \notin {"first", "idle"} /\ xfer'.apdu = xfer.apdu
      /\ UNCHANGED <<handle, secInfo, mode, script, command>> /\ xfer # Idle /\ xfer' # Idle
      /\ read' = read /\ read \in Nat /\ Nothing # Ok
  BY ExchangeBase, StatusWords, ShellAssumption DEF Exchange, Exchanged, shellVars, Types, ScriptTypes, ConnTypes, Xfers, Idle
<1>00. ~Failing
  BY DEF Exchange, SendAPDU, First, GetResponse, AskAgain, FetchMore, FetchAnswer, Failing
<1>1. Numbered'
  BY <1>0 DEF SessionInv, Numbered
<1>2. Challenge' /\ Authentication' /\ Proof'
  BY <1>0 DEF SessionInv, Challenge, Authentication, Proof
<1>3. ASSUME Open, script = "read" \/ Busy, ~Forgets PROVE Known'
  <2>1. PICK m \in Modes : /\ secInfo[m].key = s.key /\ secInfo[m].number = s.number /\ secInfo[m].level = s.level
                           /\ s.level \in MacLevels => Ahead(m)
                           /\ s.level \notin MacLevels => lost # s.number /\ ~Flying
    BY <1>3 DEF SessionInv, Known, Open
  <2>2. ~Flying /\ ~Flying'
    BY <1>0, <1>3 DEF Flying
  <2>3. read' - Hopeful' >= read - Hopeful
    BY <1>0, <1>00 DEF Hopeful, Busy
  <2>4. Ahead(m) => Ahead(m)'
    BY <1>0, <2>2, <2>3, StaysAhead
  <2> QED
    BY <1>0, <2>1, <2>2, <2>4 DEF Known
<1>4. Known'
  BY <1>0, <1>3 DEF Known, Open, Forgets, Busy
<1> QED
  BY <1>1, <1>2, <1>4 DEF SessionInv

\* The third: the card has accepted the command, or has dropped the session.
LEMMA SessionDone ==
  ASSUME MaxCommands < ChainLength, Types, ExchangeInv, Sent, SessionInv, Exchange, lost' = lost, handle = "open",
         xfer.apdu.mac # NULL => xfer.at = "first", xfer.ran = Nothing,
         NEW e \in Execute(xfer.apdu), card' = e.card, xfer'.ran = e.sw, xfer'.heard = e.card.session
  PROVE  SessionInv'
<1> DEFINE s == card.session
           t == e.card.session
           a == xfer.apdu
<1>0. /\ xfer'.at \notin {"first", "idle"} /\ xfer'.apdu = a
      /\ UNCHANGED <<handle, secInfo, mode, script, command>> /\ xfer # Idle /\ xfer' # Idle
      /\ read' = read /\ read \in 0..MaxCommands /\ read > 0 /\ s \in Sessions
      /\ a \in Apdus /\ t \in Sessions /\ xfer \in Xfers /\ Busy /\ mode \in Modes
  BY ExchangeBase DEF Exchange, Exchanged, shellVars, Types, ScriptTypes, ConnTypes, ShellTypes, CardTypes, Cards, Xfers, Idle
<1>1. Summary(a, e) /\ SessionAfter(a, e)
  BY <1>0, ExecuteSummary DEF Types, Summary
<1>2. a.ins = "init_update" =>
        /\ a.arg[2] \in 1..5 /\ a.arg[2] # lost
        /\ e.sw = Ok => t.st = "init" /\ t.number = a.arg[2]
  <2> SUFFICES ASSUME a.ins = "init_update"
               PROVE  a.arg[2] \in 1..5 /\ a.arg[2] # lost /\ (e.sw = Ok => t.st = "init" /\ t.number = a.arg[2])
    OBVIOUS
  <2>1. a.arg \in Numbers
    BY <1>0 DEF Apdus, InsArgs
  <2>2. a.arg[2] \in 1..5
    BY <2>1 DEF Numbers
  <2>3. a.arg[2] # lost
    BY <1>0 DEF SessionInv, Challenge
  <2>4. e \in InitializeUpdate(a)
    BY DEF Execute
  <2>5. e.sw = Ok => t.st = "init"
    BY <1>0, <2>4, InitializeSummary DEF Types
  <2> QED
    BY <1>1, <2>2, <2>3, <2>5 DEF SessionAfter, NoSession
<1>3. t = NoSession \/ t = s \/ (a.ins = "init_update" /\ e.sw = Ok) \/ t.st = "open"
  <2>1. Authentic(a) => Accepted.session.st = "open"
    BY AcceptedType DEF Authentic, Types
  <2> QED
    BY <1>1, <2>1 DEF SessionAfter
<1>4. Numbered'
  <2>1. t.st = "none" => t = NoSession
    BY <1>2, <1>3 DEF SessionInv, Numbered
  <2>2. t.st # "none" => t.number \in 1..5
    <3>1. Authentic(a) => Accepted.session.number = s.number /\ s.st = "open"
      BY AcceptedType DEF Authentic, Types
    <3> QED
      BY <1>1, <1>2, <3>1 DEF SessionAfter, SessionInv, Numbered, NoSession
  <2>3. t.st = "init" => lost # t.number
    BY <1>2, <1>3 DEF SessionInv, Numbered, NoSession
  <2> QED
    BY <1>0, <2>1, <2>2, <2>3 DEF SessionInv, Numbered
<1>5. Challenge'
  BY <1>0, <1>2 DEF SessionInv, Challenge
<1>6. Authentication' /\ Proof'
  BY <1>0 DEF Authentication, Proof
<1>7. ~Flying'
  BY <1>0 DEF Flying
<1>70. ~Failing
  BY DEF Exchange, SendAPDU, First, GetResponse, AskAgain, FetchMore, FetchAnswer, Failing
<1>71. Hopeful = 1 /\ Hopeful' \in {0, 1} /\ read' - Hopeful' >= read - Hopeful /\ 0 \in 0..(read' - Hopeful')
  BY <1>0, <1>70, ShellAssumption DEF Hopeful, Busy
<1>8. Known'
  <2> SUFFICES ASSUME t.st = "open", a.ins # "init_update" PROVE Known'
    BY <1>0 DEF Known, Forgets, Busy
  <2>0. ~Forgets
    BY DEF Forgets
  <2>1. CASE t = s /\ a.ins = "card_data"
    <3>1. PICK m \in Modes : /\ secInfo[m].key = s.key /\ secInfo[m].number = s.number /\ secInfo[m].level = s.level
                             /\ s.level \in MacLevels => Ahead(m)
                             /\ s.level \notin MacLevels => lost # s.number /\ ~Flying
      BY <1>0, <2>0, <2>1 DEF SessionInv, Known
    <3>2. a.mac = NULL
      BY <1>0, <2>1 DEF Sent
    <3>3. ~Flying
      BY <3>2 DEF Flying
    <3>4. read \in Nat
      BY <1>0, ShellAssumption
    <3>5. ASSUME s.level \in MacLevels PROVE Ahead(m)'
      <4>1. PICK g \in 0..(read - Hopeful) : /\ g = 0 <=> lost # s.number
                                             /\ secInfo[m].chain = (s.chain + g + Flight) % ChainLength
        BY <3>1, <3>5 DEF Ahead
      <4>2. Flight = 0 /\ s.chain \in Chain
        BY <1>0, <3>3 DEF Flight, Sessions
      <4>3. read' \in Nat
        BY <1>0, <3>4
      <4>4. PICK h \in {0, 1} : h = Hopeful'
        BY <1>71
      <4>5. PICK r \in Nat : r = read'
        BY <4>3
      <4>6. g \in 0..(r - h) /\ r - h = read' - Hopeful'
        BY <1>0, <1>71, <3>4, <4>1, <4>5, <4>4
      <4>7. s.chain + g + Flight = s.chain + g
        BY <4>1, <4>2, ChainAssumption DEF Chain
      <4> QED
        BY <1>0, <1>7, <2>1, <4>1, <4>2, <4>6, <4>7, AheadBy
    <3> QED
      BY <1>0, <1>7, <2>1, <3>1, <3>2, <3>5 DEF Known
  <2>2. CASE /\ a.ins = "ext_auth" /\ s.st = "init" /\ a.mac = Mac(card.kind.impl, "mac", s.key, s.number, 0)
             /\ t.key = s.key /\ t.number = s.number /\ t.level = a.arg[2]
             /\ t.level \in MacLevels => t.chain = 1 % ChainLength
    <3>1. a.mac # NULL
      <4>1. a.mac \in Macs \cup {NULL}
        BY <1>0 DEF Apdus, ApduRecords
      <4>2. card.kind.impl \in Impls /\ s.key \in Keys \cup {NULL} /\ s.number \in 0..5 /\ 0 \in Chain
        BY <1>0, ChainAssumption DEF Types, CardTypes, Cards, Kinds, Sessions, Chain
      <4>3. Mac(card.kind.impl, "mac", s.key, s.number, 0) \in Macs
        BY <4>2 DEF Mac, Macs, Impls, Chain
      <4> QED
        BY <2>2, <4>3, MacAssumption
    <3>2. /\ a.mac = Mac(secInfo[mode].impl, MacKey(secInfo[mode].impl), secInfo[mode].key, secInfo[mode].number, 0)
          /\ secInfo[mode].level = command.level /\ secInfo[mode].chain = 1 % ChainLength
      BY <1>0, <2>2, <3>1 DEF SessionInv, Proof
    <3>3. secInfo[mode].key = s.key /\ secInfo[mode].number = s.number
      BY <2>2, <3>2 DEF Mac
    <3>4. a.arg = <<"level", command.level>>
      BY <1>0, <2>2 DEF Sent
    <3>5. t.level = secInfo[mode].level
      BY <2>2, <3>2, <3>4
    <3>6. lost # s.number
      BY <2>2 DEF SessionInv, Numbered
    <3>7. ASSUME t.level \in MacLevels PROVE Ahead(mode)'
      <4>1. t.chain = 1 % ChainLength /\ t.chain \in Chain
        BY <1>0, <2>2, <3>7 DEF Sessions
      <4>2. 0 \in 0..(read' - Hopeful') /\ 0 \in Nat /\ 0 < ChainLength
        BY <1>71, ChainAssumption
      <4>3. t.chain % ChainLength = t.chain /\ t.chain + 0 = t.chain
        BY <4>1, <4>2, ChainBack DEF Chain
      <4>4. secInfo'[mode].chain = (card'.session.chain + 0) % ChainLength
        BY <1>0, <3>2, <4>1, <4>3
      <4> QED
        BY <1>0, <1>7, <2>2, <3>6, <4>1, <4>2, <4>4, AheadBy
    <3>8. t.level \notin MacLevels => lost' # t.number /\ ~Flying'
      BY <1>7, <2>2, <3>6
    <3> QED
      BY <1>0, <2>2, <3>3, <3>5, <3>7, <3>8 DEF Known
  <2>3. CASE a.ins \notin {"select", "card_data", "init_update", "ext_auth"} /\ Authentic(a) /\ t = Accepted.session
    <3>1. s.st = "open" /\ a.mac = IF s.level \in MacLevels THEN Mac(card.kind.impl, "mac", s.key, s.number, s.chain) ELSE NULL
      BY <2>3 DEF Authentic
    <3>2. /\ t.st = s.st /\ t.key = s.key /\ t.number = s.number /\ t.level = s.level /\ t \in Sessions
          /\ t.chain = IF s.level \in MacLevels THEN (s.chain + 1) % ChainLength ELSE s.chain
      BY <2>3, AcceptedType DEF Types
    <3>3. PICK m \in Modes : /\ secInfo[m].key = s.key /\ secInfo[m].number = s.number /\ secInfo[m].level = s.level
                             /\ s.level \in MacLevels => Ahead(m)
                             /\ s.level \notin MacLevels => lost # s.number /\ ~Flying
      BY <1>0, <2>0, <3>1 DEF SessionInv, Known
    <3>4. ASSUME s.level \in MacLevels PROVE Ahead(m)'
      <4>1. a.mac.previous = s.chain /\ a.mac.number = s.number /\ a.mac # NULL
        <5>1. a.mac = Mac(card.kind.impl, "mac", s.key, s.number, s.chain)
          BY <3>1, <3>4
        <5>2. card.kind.impl \in Impls /\ s.key \in Keys \cup {NULL} /\ s.number \in 0..5 /\ s.chain \in Chain
          BY <1>0 DEF Types, CardTypes, Cards, Kinds, Sessions
        <5>3. Mac(card.kind.impl, "mac", s.key, s.number, s.chain) \in Macs
          BY <5>2 DEF Mac, Macs, Impls, Chain
        <5> QED
          BY <5>1, <5>3, MacAssumption DEF Mac
      <4>2. Flying /\ Flight = 1
        BY <4>1 DEF Flying, Flight
      <4>3. PICK g \in 0..(read - 1) : /\ g = 0 <=> lost # s.number
                                       /\ secInfo[m].chain = (s.chain + g + Flight) % ChainLength
                                       /\ Flying => a.mac.previous = (s.chain + g) % ChainLength
        BY <1>71, <3>3, <3>4 DEF Ahead
      <4>4. s.chain \in Chain /\ g \in Nat /\ g < ChainLength
        BY <1>0, <4>3, ShellAssumption, ChainAssumption DEF Sessions
      <4>5. g = 0
        BY <4>1, <4>2, <4>3, <4>4, ChainBack
      <4>6. secInfo[m].chain = (s.chain + 1) % ChainLength
        <5>1. s.chain + g + Flight = s.chain + 1
          BY <4>2, <4>4, <4>5 DEF Chain
        <5> QED
          BY <4>3, <5>1
      <4>7. t.chain = (s.chain + 1) % ChainLength /\ t.chain \in Chain
        BY <3>2, <3>4 DEF Sessions
      <4>8. 0 \in 0..(read' - Hopeful') /\ 0 \in Nat /\ 0 < ChainLength
        BY <1>71, ChainAssumption
      <4>9. t.chain % ChainLength = t.chain /\ t.chain + 0 = t.chain
        BY <4>7, <4>8, ChainBack DEF Chain
      <4>10. secInfo'[m].chain = (card'.session.chain + 0) % ChainLength
        BY <1>0, <4>6, <4>7, <4>9
      <4>11. lost # t.number
        BY <3>2, <4>3, <4>5
      <4> QED
        BY <1>0, <1>7, <4>7, <4>8, <4>10, <4>11, AheadBy
    <3> QED
      BY <1>0, <1>7, <3>2, <3>3, <3>4 DEF Known
  <2> QED
    BY <1>1, <2>1, <2>2, <2>3 DEF SessionAfter, NoSession
<1> QED
  BY <1>4, <1>5, <1>6, <1>8 DEF SessionInv

LEMMA SessionExchange ==
  ASSUME MaxCommands < ChainLength, Types, ExchangeInv, Sent, SessionInv, Exchange
  PROVE  SessionInv'
BY SessionExchanged, SessionLost, SessionSame, SessionDone

LEMMA SessionReturn ==
  ASSUME Types, ExchangeInv, Sent, SessionInv, Returning
  PROVE  SessionInv'
<1> DEFINE ins == Head(command.todo)
           s == card.session
           n == xfer.heard.number
<1>0. /\ command \in CommandSet /\ xfer # Idle /\ xfer \in Xfers /\ Busy /\ xfer' = Idle
      /\ UNCHANGED <<card, handle, mode, lost, read>> /\ xfer.apdu.ins = ins /\ mode \in Modes
      /\ xfer.at \in {"done", "failed"} /\ ~Flying /\ s \in Sessions /\ read \in Nat
  BY ShellAssumption DEF Returning, Types, ScriptTypes, ShellTypes, CardTypes, Cards, Xfers, Idle, Sent, Reply, Flying
<1>1. StatusOk /\ ins = "init_update" => s.st # "open" /\ (\A m \in Modes : secInfo[m].number # n)
  <2> SUFFICES ASSUME StatusOk, ins = "init_update" PROVE s.st # "open" /\ (\A m \in Modes : secInfo[m].number # n)
    OBVIOUS
  <2>1. command.op = "open_sc"
    BY <1>0, HeadCases DEF ContentCommands
  <2>2. xfer.at = "done" /\ xfer.sw = Ok
    BY <2>1 DEF StatusOk
  <2>3. xfer.ran = Ok
    BY <1>0, <2>2, StatusWords DEF ExchangeInv, ExchangeAt, Unanswered
  <2> QED
    BY <1>0, <2>3 DEF SessionInv, Challenge
<1>2. Authentication'
  <2> SUFFICES ASSUME Busy', Head(command'.todo) = "ext_auth" PROVE s.st # "open"
    BY <1>0 DEF Authentication
  <2>1. ~CardRefused /\ Advanced.todo # <<>> /\ command' = Advanced
    BY DEF Returning, Fail, Succeed, Busy
  <2>2. Advanced \in CommandSet /\ Advanced.op = command.op
    BY <1>0, <2>1, AdvancedCases
  <2>3. command.op = "open_sc"
    BY <2>1, <2>2, HeadCases DEF ContentCommands
  <2>4. ins \in {"card_data", "init_update", "ext_auth"} /\ ~MoreStatus
    BY <1>0, <2>3, HeadCases DEF MoreStatus
  <2>5. CASE ins = "card_data"
    <3>1. Advanced.todo = <<"init_update", "ext_auth">>
      BY <1>0, <2>4, <2>5, AdvancedCases
    <3> QED
      BY <2>1, <3>1, Two
  <2>6. CASE ins = "init_update"
    <3>1. StatusOk
      BY <1>0, <2>1, <2>4, <2>6, CommandCases DEF CardRefused
    <3> QED
      BY <1>1, <2>6, <3>1
  <2>7. CASE ins = "ext_auth"
    <3>1. Advanced.todo = Tail(command.todo)
      BY <1>0, <2>4, <2>7, AdvancedCases
    <3>2. Tail(command.todo) = <<>>
      BY <1>0, <2>3, <2>7, HeadCases
    <3> QED
      BY <2>1, <3>1, <3>2
  <2> QED
    BY <2>4, <2>5, <2>6, <2>7
<1>3. CASE ~Challenges
  <2>1. secInfo' = secInfo
    BY <1>3 DEF Returning
  <2>2. Failing => CardRefused
    <3> SUFFICES ASSUME xfer.at = "failed" PROVE CardRefused
      BY DEF Failing
    <3>1. ~StatusOk /\ ~MoreStatus /\ command.todo # <<>>
      BY <1>0, CommandCases DEF StatusOk, MoreStatus
    <3> QED
      BY <3>1 DEF CardRefused
  <2>3. ~Busy' \/ (Busy' /\ ~CardRefused)
    BY DEF Returning, Fail, Busy
  <2>4. read' - Hopeful' >= read - Hopeful
    BY <1>0, <2>2, <2>3 DEF Hopeful, Failing
  <2>5. Forgets => script' = "ended"
    <3> SUFFICES ASSUME ins = "init_update" PROVE script' = "ended"
      BY <1>0 DEF Forgets
    <3>1. command.op = "open_sc" /\ command.todo # <<>>
      BY <1>0, HeadCases, CommandCases DEF ContentCommands
    <3>2. ~MoreStatus /\ (~StatusOk \/ ~Consistent)
      BY <1>3, <3>1 DEF MoreStatus, Challenges
    <3>3. CardRefused
      BY <3>1, <3>2 DEF CardRefused
    <3> QED
      BY <3>1, <3>3 DEF Returning, Fail, GoesOn
  <2> QED
    BY <1>0, <1>2, <2>1, <2>4, <2>5, SessionKept DEF Busy
<1>4. CASE Challenges
  <2>1. s.st # "open" /\ (\A m \in Modes : secInfo[m].number # n)
    BY <1>1, <1>4 DEF Challenges
  <2>2. /\ secInfo' = [secInfo EXCEPT ![mode] = Challenged] /\ Challenged.number = n
    BY <1>0, <1>4, ChallengedType DEF Challenges, Returning
  <2>3. secInfo'[mode].number = n /\ \A m \in Modes : m # mode => secInfo'[m] = secInfo[m]
    BY <1>0, <2>2 DEF Types, ShellTypes
  <2>4. Numbered'
    BY <1>0, <2>1, <2>3 DEF SessionInv, Numbered, Modes
  <2>5. Challenge' /\ Proof' /\ Known'
    BY <1>0, <2>1 DEF Challenge, Proof, Known
  <2> QED
    BY <1>2, <2>4, <2>5 DEF SessionInv
<1> QED
  BY <1>3, <1>4

LEMMA SessionStep ==
  ASSUME MaxCommands < ChainLength, Base, Shape, SessionInv, [Next]_vars
  PROVE  SessionInv'
<1>0. Types /\ ExchangeInv /\ Sent
  BY DEF Base, Shape
<1>1. CASE QuietSteps
  BY <1>0, <1>1, QuietStep, SessionQuiet
<1>2. CASE BeginCommand
  <2>1. /\ xfer = Idle /\ xfer' = Idle /\ NewlyRead(command') /\ UNCHANGED <<card, handle, secInfo, lost>>
        /\ script = "read" /\ read' = read + 1
    BY <1>0, <1>2, BeginBase DEF BeginCommand, connVars, shellVars
  <2>10. read \in Nat
    BY <1>0, ShellAssumption DEF Types, ScriptTypes
  <2>2. Head(command'.todo) # "ext_auth"
    <3>1. command' \in CommandSet
      BY <2>1 DEF NewlyRead
    <3>2. command'.op = "open_sc" => Head(command'.todo) \in {"card_data", "init_update"}
      BY <2>1, Two, Three DEF NewlyRead
    <3> QED
      BY <3>1, <3>2, HeadCases DEF ContentCommands
  <2>3. Authentication'
    BY <2>2 DEF Authentication
  <2>4. ~Forgets /\ read' \in Nat /\ read' - Hopeful' >= read - Hopeful
    BY <2>1, <2>10 DEF Forgets, Hopeful
  <2> QED
    BY <2>1, <2>10, <2>3, <2>4, SessionKept
<1>3. CASE SendNothing
  <2>1. /\ xfer = Idle /\ xfer' = Idle /\ UNCHANGED <<card, handle, secInfo, lost, read>> /\ ~Busy' /\ script' # "read"
        /\ read \in Nat
    BY <1>0, <1>3, ShellAssumption DEF SendNothing, Crash, connVars, shellVars, Busy, Types, ScriptTypes
  <2>2. Authentication' /\ read' - Hopeful' >= read - Hopeful
    BY <2>1 DEF Authentication, Hopeful
  <2> QED
    BY <2>1, <2>2, SessionKept
<1>30. CASE RefuseSend
  BY <1>0, <1>30, RefusingStep, SessionRefuse
<1>4. CASE Send
  <2>1. PICK i \in Infos : Sending(i)
    BY <1>0, <1>4, SendingStep
  <2> QED
    BY <1>0, <2>1, SessionSend
<1>5. CASE Exchange
  BY <1>0, <1>5, SessionExchange
<1>6. CASE Return
  BY <1>0, <1>6, ReturnStep, SessionReturn
<1>7. CASE Interrupted
  <2>1. /\ card'.session = NoSession /\ NoSession.st = "none" /\ NoSession.number = 0
        /\ UNCHANGED <<xfer, mode, secInfo, script, command, lost>>
    BY <1>0, <1>7, InterruptedBase, ResetType DEF Interrupted, ResetByOther, shellVars, Types, CardTypes, NoSession
  <2>2. Known' /\ Authentication'
    BY <2>1 DEF Known, Authentication
  <2>3. Proof'
    BY <2>1 DEF SessionInv, Proof
  <2>4. Numbered'
    BY <2>1 DEF SessionInv, Numbered
  <2>5. xfer # Idle /\ xfer.apdu.ins = "init_update" => xfer.apdu.arg[2] \in 1..5
    <3> SUFFICES ASSUME xfer # Idle, xfer.apdu.ins = "init_update" PROVE xfer.apdu.arg[2] \in 1..5
      OBVIOUS
    <3>1. xfer.apdu \in Apdus
      BY <1>0 DEF Types, ConnTypes, Xfers
    <3>2. xfer.apdu.arg \in Numbers
      BY <3>1 DEF Apdus, InsArgs
    <3> QED
      BY <3>2 DEF Numbers
  <2>6. Challenge'
    BY <2>1, <2>5 DEF SessionInv, Challenge
  <2> QED
    BY <2>2, <2>3, <2>4, <2>6 DEF SessionInv
<1>8. CASE NextScript
  <2>1. /\ xfer' = Idle /\ ~Busy' /\ secInfo' = [m \in Modes |-> NoInfo] /\ card' = IF handle = "open" THEN Reset(card) ELSE card
    BY <1>8 DEF NextScript, Busy
  <2>2. card'.session = NoSession
    BY <1>0, <2>1, ResetType DEF SessionInv, Numbered, Types, CardTypes
  <2>3. Known' /\ Challenge' /\ Proof' /\ Authentication'
    BY <2>1, <2>2 DEF Known, Challenge, Proof, Authentication, NoSession
  <2>4. Numbered'
    BY <2>1, <2>2 DEF Numbered, NoSession, NoInfo, Modes
  <2> QED
    BY <2>3, <2>4 DEF SessionInv
<1>9. CASE UNCHANGED vars
  <2>1. UNCHANGED <<card, handle, xfer, read, mode, secInfo, script, command, lost>>
    BY <1>9 DEF vars, connVars, shellVars, history
  <2>2. Numbered' /\ Challenge' /\ Authentication' /\ Proof'
    BY <2>1 DEF SessionInv, Numbered, Challenge, Authentication, Proof, Busy
  <2>3. Known'
    BY <2>1 DEF SessionInv, Known, Ahead, Flying, Flight, Hopeful, Failing, Forgets, Busy
  <2> QED
    BY <2>2, <2>3 DEF SessionInv
<1> QED
  BY <1>1, <1>2, <1>3, <1>30, <1>4, <1>5, <1>6, <1>7, <1>8, <1>9 DEF Next, ShellStep, QuietSteps

LEMMA SessionInit == Init => SessionInv
<1> SUFFICES ASSUME Init PROVE SessionInv
  OBVIOUS
<1>1. card.session = NoSession /\ xfer = Idle /\ ~Busy /\ secInfo = [m \in Modes |-> NoInfo]
  BY CardInitType DEF Init, ConnInit, Busy
<1>2. Known /\ Challenge /\ Proof /\ Authentication
  BY <1>1 DEF Known, Challenge, Proof, Authentication, NoSession
<1>3. Numbered
  BY <1>1 DEF Numbered, NoSession, NoInfo, Modes
<1> QED
  BY <1>2, <1>3 DEF SessionInv

LEMMA SessionInvariant ==
  ASSUME MaxCommands < ChainLength
  PROVE  Spec => []SessionInv
<1>1. Init => SessionInv
  BY SessionInit
<1>2. Base /\ Shape /\ SessionInv /\ [Next]_vars => SessionInv'
  BY SessionStep
<1> QED
  BY <1>1, <1>2, BaseInvariant, ShapeInvariant, PTL DEF Spec

\* A secure channel the card has open is one some mode of the shell can go on
\* with wherever the script goes on, as long as there are more codes in a chain
\* than commands: each may miss one (mutual_authentication, wrap_command).
THEOREM ChannelsAgree ==
  ASSUME MaxCommands < ChainLength
  PROVE  Spec => []SessionAgrees
<1>1. Base /\ SessionInv => SessionAgrees
  <2> SUFFICES ASSUME Base, SessionInv, script = "read", Open, lost # card.session.number
               PROVE  \E m \in Modes :
                        /\ secInfo[m].key = card.session.key /\ secInfo[m].number = card.session.number
                        /\ secInfo[m].level = card.session.level
                        /\ card.session.level \in MacLevels => secInfo[m].chain = card.session.chain
    BY DEF SessionAgrees, Open
  <2>1. PICK m \in Modes : /\ secInfo[m].key = card.session.key /\ secInfo[m].number = card.session.number
                           /\ secInfo[m].level = card.session.level
                           /\ card.session.level \in MacLevels => Ahead(m)
    BY DEF SessionInv, Known, Open, Forgets, Busy
  <2>2. Flight = 0 /\ card.session.chain \in Chain
    BY DEF Base, Types, ScriptTypes, CardTypes, Cards, Sessions, Flight, Flying, Idle, Busy
  <2>3. ASSUME card.session.level \in MacLevels PROVE secInfo[m].chain = card.session.chain
    <3>1. PICK g \in 0..(read - Hopeful) : /\ g = 0 <=> lost # card.session.number
                                           /\ secInfo[m].chain = (card.session.chain + g + Flight) % ChainLength
      BY <2>1, <2>3 DEF Ahead
    <3>2. g = 0
      BY <3>1
    <3>3. card.session.chain + g + Flight = card.session.chain /\ 0 \in Nat /\ 0 < ChainLength
      BY <2>2, <3>2, ChainAssumption DEF Chain
    <3> QED
      BY <2>2, <3>1, <3>3, ChainBack
  <2> QED
    BY <2>1, <2>3
<1> QED
  BY <1>1, BaseInvariant, SessionInvariant, PTL

\* Once the card has missed a command of a secure channel it accepts no other
\* of that channel.
THEOREM GapsAreNoticed ==
  ASSUME MaxCommands < ChainLength
  PROVE  Spec => NoGap
<1> DEFINE Closed == (Open /\ card.session.number = lost /\ card'.session.number = lost) => card'.session.chain = card.session.chain
<1>1. Base /\ Shape /\ SessionInv /\ [Next]_vars => [Closed]_vars
  <2> SUFFICES ASSUME Base, Shape, SessionInv, Next, Open, card.session.number = lost, card'.session.number = lost
               PROVE  card'.session.chain = card.session.chain
    OBVIOUS
  <2>0. Types /\ ExchangeInv /\ Sent /\ lost \in 1..5
    BY DEF Base, Shape, SessionInv, Numbered, Open
  <2>1. CASE card' = card
    BY <2>1
  <2>2. CASE card' = Reset(card)
    BY <2>0, <2>2, ResetType DEF Types, CardTypes, NoSession
  <2>3. CASE Exchange
    <3> DEFINE s == card.session
               a == xfer.apdu
    <3>1. SUFFICES ASSUME NEW e \in Execute(a), card' = e.card, xfer.ran = Nothing, a.mac # NULL => xfer.at = "first"
                   PROVE  e.card.session.chain = s.chain
      BY <2>0, <2>1, <2>3, SessionExchanged
    <3>2. xfer \in Xfers /\ xfer # Idle /\ a \in Apdus /\ s \in Sessions
      BY <2>0, <2>3 DEF Exchange, Types, ConnTypes, CardTypes, Cards, Xfers
    <3>3. Summary(a, e)
      BY <2>0, <3>2, ExecuteSummary DEF Types
    <3>4. a.ins = "init_update" => a.arg[2] # lost
      BY <3>2 DEF SessionInv, Challenge
    <3>5. SUFFICES ASSUME Authentic(a), e.card.session = Accepted.session, s.level \in MacLevels
                   PROVE  FALSE
      <4>1. Authentic(a) => Accepted.session.chain = IF s.level \in MacLevels THEN (s.chain + 1) % ChainLength ELSE s.chain
        BY <2>0, AcceptedType DEF Types
      <4>2. \/ e.card.session = NoSession \/ e.card.session = s
            \/ a.ins = "init_update" /\ e.card.session.number = a.arg[2]
            \/ a.ins = "ext_auth" /\ s.st = "init"
            \/ Authentic(a) /\ e.card.session = Accepted.session
        BY <3>3 DEF Summary, SessionAfter
      <4>3. e.card.session # NoSession
        BY <2>0, <3>1 DEF NoSession
      <4> QED
        BY <3>1, <3>4, <3>5, <4>1, <4>2, <4>3 DEF Open
    <3>6. a.mac.previous = s.chain /\ a.mac.number = s.number /\ a.mac # NULL
      <4>1. a.mac = Mac(card.kind.impl, "mac", s.key, s.number, s.chain)
        BY <3>5 DEF Authentic
      <4>2. card.kind.impl \in Impls /\ s.key \in Keys \cup {NULL} /\ s.number \in 0..5 /\ s.chain \in Chain
        BY <2>0, <3>2 DEF Types, CardTypes, Cards, Kinds, Sessions
      <4>3. Mac(card.kind.impl, "mac", s.key, s.number, s.chain) \in Macs
        BY <4>2 DEF Mac, Macs, Impls, Chain
      <4> QED
        BY <4>1, <4>3, MacAssumption DEF Mac
    <3>7. Flying
      BY <3>1, <3>6 DEF Flying
    <3>70. a.ins # "init_update" /\ Busy /\ Hopeful \in {0, 1} /\ read \in 0..MaxCommands
      BY <2>0, <2>3, <3>2, <3>6 DEF Sent, Exchange, Hopeful, Types, ScriptTypes
    <3>8. PICK m \in Modes : Ahead(m)
      BY <3>5, <3>70 DEF SessionInv, Known, Open, Forgets
    <3>9. PICK g \in 0..(read - Hopeful) : /\ g = 0 <=> lost # s.number
                                           /\ Flying => a.mac.previous = (s.chain + g) % ChainLength
      BY <3>8 DEF Ahead
    <3>10. s.chain \in Chain /\ g \in Nat /\ g < ChainLength
      BY <3>2, <3>9, <3>70, ShellAssumption, ChainAssumption DEF Sessions
    <3>11. g = 0
      BY <3>6, <3>7, <3>9, <3>10, ChainBack
    <3> QED
      BY <3>9, <3>11
  <2>4. CASE QuietSteps
    BY <2>0, <2>1, <2>2, <2>4, QuietStep DEF Quiet
  <2>5. CASE Interrupted \/ NextScript
    BY <2>0, <2>1, <2>2, <2>5, InterruptedBase, NextScriptBase
  <2>6. CASE BeginCommand \/ RefuseSend \/ SendNothing \/ Send \/ Return
    BY <2>1, <2>6 DEF BeginCommand, RefuseSend, SendNothing, Crash, Send, Return
  <2> QED
    BY <2>3, <2>4, <2>5, <2>6 DEF Next, ShellStep, QuietSteps
<1>2. [Closed]_vars => [(card.session.st = "open" /\ card.session.number = lost /\ card'.session.number = lost)
                          => card'.session.chain = card.session.chain]_vars
  BY DEF Open
<1> HIDE DEF Closed
<1> QED
  BY <1>1, <1>2, BaseInvariant, ShapeInvariant, SessionInvariant, PTL DEF Spec, NoGap


-----------------------------------------------------------------------------
(* The opening of a secure channel *)

LEMMA OpeningStages ==
  ASSUME Types, Busy, command.op = "open_sc"
  PROVE  /\ command \in CommandSet /\ command.arg \in KeyItems
         /\ \/ Head(command.todo) = "card_data" /\ Tail(command.todo) = <<"init_update", "ext_auth">>
            \/ Head(command.todo) = "init_update" /\ Tail(command.todo) = <<"ext_auth">>
            \/ Head(command.todo) = "ext_auth" /\ Tail(command.todo) = <<>>
         /\ ~MoreStatus /\ (StatusOk <=> xfer.at = "done" /\ xfer.sw = Ok)
<1>1. command \in CommandSet
  BY DEF Types, ScriptTypes
<1>2. ~MoreStatus /\ (StatusOk <=> xfer.at = "done" /\ xfer.sw = Ok)
  BY DEF MoreStatus, StatusOk
<1> QED
  BY <1>1, <1>2, HeadCases

\* A key that is not on the card, or the wrong one, is a reason.
LEMMA OnlyKey ==
  ASSUME OneKey, NEW i \in KeyItems, NEW k, Key(k) \in card.registry, k \in Keys, i \in card.registry
  PROVE  i[2] = k
<1>1. Key(k) \in KeyItems /\ Key(k)[2] = k
  BY DEF KeyItems, Key
<1> QED
  BY <1>1 DEF OneKey

LEMMA OpeningIdle ==
  ASSUME ~Busy', script' # "ended" \/ command' = NULL \/ command'.op # "open_sc" \/ handle' # "open"
  PROVE  OpeningInv'
BY DEF OpeningInv, Opening, Undisturbed, RightKeyOpens

LEMMA OpeningBegin ==
  ASSUME Types, ExchangeInv, BeginCommand
  PROVE  OpeningInv'
<1>1. /\ xfer' = Idle /\ NewlyRead(command') /\ mode' = mode /\ script' = "busy"
  BY BeginBase DEF BeginCommand, shellVars
<1>2. ASSUME command'.op = "open_sc"
      PROVE  Head(command'.todo) = IF mode = 211 THEN "card_data" ELSE "init_update"
  BY <1>1, <1>2, Two, Three DEF NewlyRead
<1> QED
  BY <1>1, <1>2 DEF OpeningInv, Opening, Undisturbed, Spoken, Announced, KeyTold, Authenticates, RightKeyOpens

LEMMA OpeningSend ==
  ASSUME Types, OpeningInv, NEW i \in Infos, Sending(i)
  PROVE  OpeningInv'
<1> DEFINE ins == Head(command.todo)
<1>0. /\ Busy /\ xfer = Idle /\ xfer'.at = "first" /\ xfer'.apdu = Out /\ xfer'.ran = Nothing
      /\ secInfo' = [secInfo EXCEPT ![mode] = i] /\ i \in NewInfos /\ mode \in Modes /\ InfoType
      /\ UNCHANGED <<card, handle, mode, script, command, disturbed>> /\ Protocol' = Protocol
  BY DEF Sending, Wrapping, Types, ShellTypes, InfoType, Protocol
<1>00. secInfo'[mode] = i
  BY <1>0 DEF InfoType
<1>1. SUFFICES ASSUME Undisturbed PROVE Opening'
  BY <1>0 DEF OpeningInv, Opening, Undisturbed, RightKeyOpens, Busy
<1>2. Spoken' /\ KeyTold'
  BY <1>0, <1>1 DEF OpeningInv, Opening, Spoken, KeyTold
<1>20. Announced'
  BY <1>0, <1>00, OpenedType DEF Announced
<1>3. Authenticates'
  <2> SUFFICES ASSUME ins = "ext_auth" PROVE xfer'.apdu.mac # NULL /\ Prepared'
    BY <1>0 DEF Authenticates
  <2>1. Out.mac # NULL
    <3>1. Info \in Infos /\ 0 \in Chain
      BY <1>0, InfoFields, ChainAssumption DEF Chain
    <3> QED
      BY <1>0, <3>1, OutType, MacType
  <2>2. Prepared
    BY <1>0, <1>1 DEF OpeningInv, Opening, Authenticates
  <2>3. /\ i.key = secInfo[mode].key /\ i.number = secInfo[mode].number
        /\ i.impl = Info.impl /\ Info.impl = IF mode = 201 THEN "i05" ELSE secInfo[mode].impl
    BY <1>0, NewInfoType, InfoFields
  <2>4. i.impl = Protocol[2]
    BY <2>2, <2>3 DEF Prepared, Protocol
  <2> QED
    BY <1>0, <1>00, <2>1, <2>2, <2>3, <2>4 DEF Prepared
<1> QED
  BY <1>0, <1>2, <1>20, <1>3 DEF Opening

\* What the card makes of INITIALIZE UPDATE and of EXTERNAL AUTHENTICATE.
LEMMA OpeningExecuted ==
  ASSUME Types, ExchangeInv, Sent, SessionInv, Opening, Undisturbed, xfer \in Xfers,
         xfer.apdu.mac # NULL => xfer.at = "first", xfer.ran = Nothing,
         xfer' \in Xfers, xfer'.apdu = xfer.apdu,
         UNCHANGED <<mode, secInfo, command>>,
         NEW e \in Execute(xfer.apdu), card' = e.card, xfer'.ran = e.sw, xfer'.heard = e.card.session
  PROVE  KeyTold' /\ Authenticates'
<1> DEFINE a == xfer.apdu
           s == card.session
<1>0. /\ a \in Apdus /\ xfer # Idle /\ xfer' # Idle /\ a.ins = Head(command.todo) /\ CardTypes /\ card.kind.impl \in Impls
  BY DEF Xfers, Idle, Sent, Types, CardTypes, Cards, Kinds
<1>1. e.sw # Nothing /\ e.card.kind = card.kind
  BY <1>0, ExecuteSummary, StatusWords DEF Summary
<1>2. KeyTold'
  <2> SUFFICES ASSUME a.ins = "init_update"
               PROVE  /\ e.sw = Ok => e.card.session.st = "init" /\ Key(e.card.session.key) \in e.card.registry
                      /\ e.sw # Ok => e.card.selected # "isd" \/ KeyItems \cap e.card.registry = {}
    BY DEF KeyTold
  <2>1. e \in InitializeUpdate(a)
    BY DEF Execute
  <2>2. /\ Summary(a, e) /\ e.card.selected = card.selected /\ e.card.registry = card.registry
        /\ e.sw = Ok => e.card.session.st = "init"
        /\ e.sw # Ok => card.selected # "isd" \/ KeyItems \cap card.registry = {}
    BY <1>0, <2>1, InitializeSummary
  <2>3. e.sw = Ok => Key(e.card.session.key) \in card.registry
    <3>1. SessionAfter(a, e)
      BY <2>2 DEF Summary
    <3> QED
      BY <2>2, <3>1 DEF SessionAfter, NoSession
  <2> QED
    BY <2>2, <2>3
<1>3. Authenticates'
  <2> SUFFICES ASSUME a.ins = "ext_auth", e.sw # Ok PROVE Excused'
    BY <1>0, <1>1 DEF Opening, Authenticates
  <2>1. Prepared /\ Spoken /\ a.mac # NULL
    BY <1>0 DEF Opening, Authenticates
  <2>2. a.mac = Mac(secInfo[mode].impl, MacKey(secInfo[mode].impl), s.key, s.number, 0)
    BY <1>0, <2>1 DEF SessionInv, Proof, Prepared
  <2>3. e \in ExternalAuthenticate(a)
    BY DEF Execute
  <2>4. ~(s.st = "init" /\ a.mac = Mac(card.kind.impl, "mac", s.key, s.number, 0))
    BY <1>0, <2>3, AuthenticateSummary
  <2>5. card.kind.impl \notin BaseKeyImpls => MacKey(card.kind.impl) = "mac"
    BY DEF MacKey
  <2>6. secInfo[mode].impl # card.kind.impl \/ card.kind.impl \in BaseKeyImpls
    BY <2>1, <2>2, <2>4, <2>5 DEF Prepared
  <2>7. secInfo[mode].impl # card.kind.impl => mode = 201 /\ card.kind.impl # "i05"
    BY <1>0, <2>1 DEF Prepared, Protocol, Spoken, Types, ShellTypes, Modes
  <2> QED
    BY <1>1, <2>6, <2>7 DEF Excused
<1> QED
  BY <1>2, <1>3

LEMMA OpeningExchange ==
  ASSUME Types, ExchangeInv, Sent, SessionInv, OpeningInv, Exchange
  PROVE  OpeningInv'
<1>0. /\ Busy /\ xfer \in Xfers /\ xfer # Idle /\ Exchanged /\ UNCHANGED <<mode, secInfo, script, command>>
      /\ disturbed' = (disturbed \/ faults' # faults) /\ handle' = handle /\ faults \in Nat /\ Protocol' = Protocol
      /\ xfer' \in Xfers /\ xfer' # Idle /\ xfer'.apdu = xfer.apdu /\ xfer'.at # "first" /\ card'.kind = card.kind
      /\ xfer.apdu.ins = Head(command.todo) /\ xfer.apdu \in Apdus
  BY ExchangeBase DEF Exchange, Types, ConnTypes, shellVars, Exchanged, Xfers, Idle, Protocol, Sent
<1>1. SUFFICES ASSUME Undisturbed' PROVE Opening'
  BY <1>0 DEF OpeningInv, Opening, RightKeyOpens, Busy
<1>2. Undisturbed /\ faults' = faults /\ handle = "open" /\ Opening
  BY <1>0, <1>1 DEF Undisturbed, Busy, OpeningInv
<1>3. xfer'.at # "failed" /\ Spoken' /\ Announced'
  BY <1>0, <1>2 DEF Exchanged, Opening, Spoken, Announced
<1>4. CASE card' = card /\ xfer'.ran = xfer.ran /\ xfer'.heard = xfer.heard
  <2>1. KeyTold'
    BY <1>0, <1>2, <1>4 DEF Opening, KeyTold
  <2>2. Authenticates'
    BY <1>0, <1>2, <1>4 DEF Opening, Authenticates, Prepared, Excused
  <2> QED
    BY <1>3, <2>1, <2>2 DEF Opening
<1>5. CASE card' = card /\ xfer.apdu.case = 2 /\ xfer.ran = Nothing /\ xfer'.ran = Nothing
  <2>1. KeyTold'
    BY <1>0, <1>5 DEF KeyTold
  <2>2. Authenticates'
    BY <1>0, <1>2, <1>5 DEF Opening, Authenticates, Prepared, Excused
  <2> QED
    BY <1>3, <2>1, <2>2 DEF Opening
<1>6. ASSUME xfer.ran = Nothing, NEW e \in Execute(xfer.apdu), card' = e.card, xfer'.ran = e.sw, xfer'.heard = e.card.session
      PROVE  Opening'
  <2>1. xfer.apdu.mac # NULL => xfer.at = "first"
    <3>1. xfer.at \in {"first", "get", "loop", "tail"}
      BY <1>0 DEF Exchange, SendAPDU, First, GetResponse, AskAgain, FetchMore, FetchAnswer
    <3> QED
      BY <1>0, <1>6, <3>1 DEF ExchangeInv
  <2>2. KeyTold' /\ Authenticates'
    BY <1>0, <1>2, <1>6, <2>1, OpeningExecuted
  <2> QED
    BY <1>3, <2>2 DEF Opening
<1> QED
  BY <1>0, <1>4, <1>5, <1>6 DEF Exchanged

\* Why the shell may give up on a secure channel.
LEMMA OpeningRefused ==
  ASSUME Types, ExchangeInv, Sent, OneKey, Opening, Undisturbed, xfer \in Xfers, Reply, CardRefused
  PROVE  \/ Head(command.todo) = "card_data"
         \/ command.arg \notin card.registry \/ card.selected # "isd"
         \/ mode = 201 /\ <<card.kind.scp, card.kind.impl>> # <<1, "i05">>
         \/ card.kind.impl \in BaseKeyImpls \/ ~Supported(card.kind.scp, card.kind.impl)
<1> DEFINE ins == Head(command.todo)
<1> SUFFICES ASSUME ins # "card_data"
             PROVE  \/ command.arg \notin card.registry \/ card.selected # "isd"
                    \/ mode = 201 /\ <<card.kind.scp, card.kind.impl>> # <<1, "i05">>
                    \/ card.kind.impl \in BaseKeyImpls \/ ~Supported(card.kind.scp, card.kind.impl)
  OBVIOUS
<1>00. /\ Busy /\ command.op = "open_sc" /\ xfer # Idle /\ xfer.at = "done" /\ xfer.ran # Nothing
       /\ xfer.apdu.ins = ins /\ xfer.apdu \in Apdus /\ ins \in {"init_update", "ext_auth"}
       /\ xfer.sw = xfer.ran \/ Unanswered
  <2>1. Busy /\ command.op = "open_sc" /\ xfer # Idle /\ xfer.at = "done" /\ xfer.apdu.ins = ins /\ xfer.apdu \in Apdus
    BY DEF Undisturbed, Xfers, Idle, Reply, Opening, Sent
  <2>2. ins \in {"init_update", "ext_auth"}
    BY <2>1, OpeningStages
  <2> QED
    BY <2>1, <2>2 DEF ExchangeInv, ExchangeAt
<1>01. ~Unanswered
  BY <1>00 DEF Unanswered, Answering, Apdus
<1>0. /\ Busy /\ command.op = "open_sc" /\ xfer # Idle /\ xfer.at = "done" /\ xfer.sw = xfer.ran /\ xfer.ran # Nothing
      /\ xfer.apdu.ins = ins
  BY <1>00, <1>01
<1>1. /\ command.arg \in KeyItems /\ command.todo # <<>> /\ ins \in {"init_update", "ext_auth"}
      /\ ~MoreStatus /\ (StatusOk <=> xfer.ran = Ok)
  <2>1. command.todo # <<>>
    BY <1>0, CommandCases DEF Types, ScriptTypes
  <2> QED
    BY <1>00, <1>0, <2>1, OpeningStages
<1>2. CASE ins = "ext_auth"
  <2>1. ~StatusOk
    BY <1>1, <1>2 DEF CardRefused
  <2> QED
    BY <1>0, <1>1, <1>2, <2>1 DEF Opening, Authenticates, Excused
<1>3. CASE ins = "init_update" /\ ~StatusOk
  BY <1>0, <1>1, <1>3 DEF Opening, KeyTold
<1>4. CASE ins = "init_update" /\ StatusOk
  <2>1. ~Consistent \/ ~CryptogramVerified
    BY <1>1, <1>4 DEF CardRefused
  <2>2. CASE Protocol[1] # card.kind.scp
    BY <1>0, <1>4, <2>2 DEF Protocol, Opening, Spoken, Types, ShellTypes, Modes
  <2>30. CASE ~Supported(Protocol[1], Protocol[2]) \/ card.kind.scp = 3
    <3>1. ~Supported(3, card.kind.impl) /\ Supported(1, "i05")
      BY DEF Supported
    <3>2. mode # 201 => Protocol[1] = card.kind.scp /\ Protocol[2] = card.kind.impl
      BY <1>0, <1>4 DEF Protocol, Opening, Spoken, Types, ShellTypes, Modes
    <3>3. mode = 201 => Protocol[1] = 1 /\ Protocol[2] = "i05"
      BY DEF Protocol
    <3> QED
      BY <2>30, <3>1, <3>2, <3>3
  <2>3. CASE Protocol[1] = card.kind.scp /\ Supported(Protocol[1], Protocol[2]) /\ card.kind.scp # 3
    <3>1. command.arg[2] # xfer.heard.key
      BY <2>1, <2>3 DEF Consistent, CryptogramVerified
    <3>2. Key(xfer.heard.key) \in card.registry
      BY <1>0, <1>1, <1>4 DEF Opening, KeyTold
    <3>3. xfer.heard.key \in Keys
      <4>1. PICK i \in Items : i = Key(xfer.heard.key)
        BY <3>2 DEF Types, CardTypes, Cards
      <4> QED
        BY <4>1 DEF Items, File, App, Key
    <3> QED
      BY <1>1, <3>1, <3>2, <3>3, OnlyKey
  <2> QED
    BY <2>2, <2>30, <2>3
<1> QED
  BY <1>1, <1>2, <1>3, <1>4

LEMMA OpeningReturn ==
  ASSUME Types, ExchangeInv, Sent, OneKey, OpeningInv, Returning
  PROVE  OpeningInv'
<1> DEFINE ins == Head(command.todo)
<1>0. /\ Busy /\ xfer \in Xfers /\ xfer # Idle /\ xfer' = Idle /\ Reply /\ mode \in Modes /\ xfer.apdu.ins = ins
      /\ UNCHANGED <<card, handle, mode, disturbed>>
      /\ secInfo' = IF Challenges THEN [secInfo EXCEPT ![mode] = Challenged] ELSE secInfo
  BY DEF Returning, Xfers, Idle, Types, ShellTypes, Sent
<1>1. CASE CardRefused /\ Fail
  <2>1. ~Busy' /\ (script' = "ended" => command' = command)
    BY <1>1 DEF Fail, Busy
  <2>2. RightKeyOpens'
    <3> SUFFICES ASSUME script' = "ended", command.op = "open_sc", handle = "open", ~disturbed PROVE RightKeyOpens'
      BY <1>0, <2>1 DEF RightKeyOpens
    <3>1. Opening /\ Undisturbed
      BY <1>0 DEF OpeningInv, Undisturbed
    <3> QED
      BY <1>0, <1>1, <2>1, <3>1, OpeningRefused DEF RightKeyOpens
  <2> QED
    BY <2>1, <2>2 DEF OpeningInv, Opening, Undisturbed
<1>2. CASE ~CardRefused /\ Succeed
  BY <1>2, OpeningIdle DEF Succeed, Busy
<1>3. CASE ~CardRefused /\ Advanced.todo # <<>> /\ command' = Advanced /\ script' = script
  <2>1. Busy' /\ RightKeyOpens'
    BY <1>0, <1>3 DEF Busy, RightKeyOpens
  <2>2. SUFFICES ASSUME Undisturbed' PROVE Spoken' /\ KeyTold' /\ Authenticates'
    BY <1>0, <2>1 DEF OpeningInv, Opening, Announced
  <2>3. Undisturbed /\ Opening /\ command.op = "open_sc" /\ command'.arg = command.arg
    BY <1>0, <1>3, <2>2, AdvancedCases DEF Undisturbed, OpeningInv
  <2>4. /\ ~MoreStatus /\ command.arg \in KeyItems
        /\ \/ ins = "card_data"
           \/ ins = "init_update"
           \/ ins = "ext_auth" /\ Tail(command.todo) = <<>>
    BY <1>0, <2>3, OpeningStages
  <2>5. KeyTold'
    BY <1>0 DEF KeyTold
  <2>6. CASE ins = "card_data"
    <3>1. Head(command'.todo) = "init_update" /\ command'.scp = card.kind.scp /\ command'.impl = card.kind.impl
      BY <1>0, <1>3, <2>4, <2>6, AdvancedCases, Two
    <3> QED
      BY <1>0, <2>5, <3>1 DEF Spoken, Authenticates
  <2>7. CASE ins = "init_update"
    <3>1. command'.scp = command.scp /\ command'.impl = command.impl
      BY <1>0, <1>3, <2>4, <2>7, AdvancedCases
    <3>2. Protocol' = Protocol /\ Spoken'
      BY <1>0, <2>3, <2>7, <3>1 DEF Protocol, Opening, Spoken
    <3>3. StatusOk /\ Consistent /\ CryptogramVerified
      <4>1. command.todo # <<>>
        BY <1>0, CommandCases DEF Types, ScriptTypes
      <4> QED
        BY <1>3, <2>4, <2>7, <4>1 DEF CardRefused
    <3>4. /\ card.session.st = "init" /\ card.session.number = xfer.heard.number /\ card.session.key = xfer.heard.key
      <4>1. xfer.at = "done" /\ xfer.sw = Ok
        BY <1>0, <2>3, <3>3, OpeningStages
      <4>2. xfer.ran = Ok /\ xfer.ran # Nothing
        BY <1>0, <4>1, StatusWords DEF ExchangeInv, ExchangeAt, Unanswered
      <4> QED
        BY <1>0, <2>3, <2>7, <4>2 DEF Opening, KeyTold
    <3>5. secInfo'[mode] = Challenged
      BY <1>0, <2>7, <3>3 DEF Challenges, Types, ShellTypes
    <3>6. Challenged.impl = Protocol[2] /\ Challenged.key = xfer.heard.key /\ Challenged.number = xfer.heard.number
      BY <1>0, <2>3, <2>7, <3>3, ChallengedType DEF CryptogramVerified, Opening, Announced
    <3>7. Prepared'
      BY <1>0, <3>2, <3>4, <3>5, <3>6 DEF Prepared
    <3> QED
      BY <1>0, <2>5, <3>2, <3>7 DEF Authenticates
  <2>8. CASE ins = "ext_auth" /\ Tail(command.todo) = <<>>
    BY <1>0, <1>3, <2>4, <2>8, AdvancedCases
  <2> QED
    BY <2>4, <2>6, <2>7, <2>8
<1> QED
  BY <1>1, <1>2, <1>3 DEF Returning

LEMMA OpeningStep ==
  Base /\ Shape /\ RegistryInv /\ SessionInv /\ OpeningInv /\ [Next]_vars => OpeningInv'
<1> SUFFICES ASSUME Base, Shape, RegistryInv, SessionInv, OpeningInv, [Next]_vars PROVE OpeningInv'
  OBVIOUS
<1>0. Types /\ ExchangeInv /\ Sent /\ OneKey
  BY DEF Base, Shape, RegistryInv
<1>1. CASE QuietSteps
  <2>1. Quiet /\ command = NULL
    BY <1>0, <1>1, QuietStep DEF Quiet, Types, ScriptTypes
  <2> QED
    BY <2>1, OpeningIdle DEF Quiet, Busy
<1>2. CASE BeginCommand
  BY <1>0, <1>2, OpeningBegin
<1>3. CASE RefuseSend
  <2>1. command.op = "open_sc" => handle = "none"
    BY <1>0, <1>3, OpeningStages DEF RefuseSend, Unwrapped, Unsent, Protects, Secured
  <2>2. handle' = handle /\ ~Busy' /\ (script' = "ended" => command' = command)
    BY <1>3 DEF RefuseSend, Fail, connVars, Busy
  <2> QED
    BY <2>1, <2>2, OpeningIdle
<1>4. CASE SendNothing \/ NextScript
  BY <1>4, OpeningIdle DEF SendNothing, Crash, NextScript, Busy
<1>5. CASE Send
  <2>1. PICK i \in Infos : Sending(i)
    BY <1>0, <1>5, SendingStep
  <2> QED
    BY <1>0, <2>1, OpeningSend
<1>6. CASE Exchange
  BY <1>0, <1>6, OpeningExchange
<1>7. CASE Return
  BY <1>0, <1>7, ReturnStep, OpeningReturn
<1>8. CASE Interrupted
  BY <1>8 DEF Interrupted, ResetByOther, OpeningInv, Opening, Undisturbed, RightKeyOpens
<1>9. CASE UNCHANGED vars
  <2>1. UNCHANGED <<card, handle, xfer, mode, secInfo, script, command, disturbed>>
    BY <1>9 DEF vars, connVars, shellVars, history
  <2>2. RightKeyOpens' /\ Undisturbed' = Undisturbed
    BY <2>1 DEF OpeningInv, RightKeyOpens, Undisturbed, Busy
  <2>3. Spoken' = Spoken /\ KeyTold' = KeyTold
    BY <2>1 DEF Spoken, KeyTold
  <2>4. Authenticates' = Authenticates
    BY <2>1 DEF Authenticates, Prepared, Excused, Protocol
  <2>5. Announced' = Announced
    BY <2>1 DEF Announced, Protocol
  <2> QED
    BY <2>1, <2>2, <2>3, <2>4, <2>5 DEF OpeningInv, Opening
<1> QED
  BY <1>1, <1>2, <1>3, <1>4, <1>5, <1>6, <1>7, <1>8, <1>9 DEF Next, ShellStep, QuietSteps

LEMMA OpeningInit == Init => OpeningInv
<1> SUFFICES ASSUME Init PROVE OpeningInv
  OBVIOUS
<1>1. script = "read"
  BY DEF Init
<1> QED
  BY <1>1 DEF OpeningInv, Opening, Undisturbed, RightKeyOpens, Busy

\* A secure channel that is opened with the key of the card, in its mode and
\* protocol and with nothing in the way, is opened (open_sc,
\* GP211_mutual_authentication), but for the implementations with a base key and
\* those the library has no session keys for.
THEOREM TheRightKeyOpens ==
  ASSUME MaxCommands < ChainLength
  PROVE  Spec => []RightKeyOpens
<1>1. Init => OpeningInv
  BY OpeningInit
<1>2. Base /\ Shape /\ RegistryInv /\ SessionInv /\ OpeningInv /\ [Next]_vars => OpeningInv'
  BY OpeningStep
<1>3. OpeningInv => RightKeyOpens
  BY DEF OpeningInv
<1> QED
  BY <1>1, <1>2, <1>3, BaseInvariant, ShapeInvariant, RegistryInvariant, SessionInvariant, PTL DEF Spec
=============================================================================
