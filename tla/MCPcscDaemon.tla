---------------------------- MODULE MCPcscDaemon ----------------------------
(***************************************************************************)
(* Two processes and two clients for TLC; and, looked at once, the list    *)
(* and the parsers over all small inputs.                                  *)
(***************************************************************************)
EXTENDS PcscDaemon

\* A run follows what at most two signals, failing calls and crashes do together.
MCTwoTroubles == signals + faults + (IF killed THEN 1 ELSE 0) <= 2

-----------------------------------------------------------------------------
(* The files of a configuration.                                           *)

\* The value on each line.
MCValues == <<"v1", "v2", "v3", "v4", "v5">>

Word(line, text) == [line |-> line, kind |-> "word", text |-> text]

\* The lines of a file: a keyword with a value that names its line, with the
\* name of what is not there, alone, or spoilt by a stray character.
MCLine(n, k, form) ==
  CASE form = "pair" -> <<Word(n, k), Word(n, MCValues[n])>>
    [] form = "missing" -> <<Word(n, k), Word(n, "nowhere")>>
    [] form = "alone" -> <<Word(n, k)>>
    [] form = "stray" -> <<Word(n, k), [line |-> n, kind |-> "bad", text |-> ""], Word(n, MCValues[n])>>

MCForms == {<<k, "pair">> : k \in Keywords}
           \cup {<<"LIBPATH", "missing">>, <<"CHANNELID", "alone">>, <<"FRIENDLYNAME", "stray">>,
                 <<"SPEED", "pair">>}

MCTokens(lines) ==
  FoldLeft(LAMBDA tokens, n : tokens \o MCLine(n, lines[n][1], lines[n][2]), <<>>,
           [n \in 1..Len(lines) |-> n])

File(tokens) == [regular |-> TRUE, hidden |-> FALSE, readable |-> TRUE, tokens |-> tokens]

MCGood == File(MCTokens(<<<<"FRIENDLYNAME", "pair">>, <<"LIBPATH", "pair">>, <<"CHANNELID", "pair">>>>))
MCBad == File(MCTokens(<<<<"SPEED", "pair">>>>))

\* Directories: a good file, alone and followed by a bad one.
MCFiles == {<<MCGood>>, <<MCGood, MCBad>>}

MCSymmetry == Permutations(Daemons) \cup Permutations(Clients)

\* One of the initial states.
MCOnce ==
  /\ \A d \in Daemons : pc[d] = "off"
  /\ ~activated /\ ~autoExit /\ conf = <<MCGood>>

-----------------------------------------------------------------------------
(* Lists.                                                                  *)

\* Lists of n elements after deletions at either end.
MCLists ==
  LET Grown[n \in 0..9] == IF n = 0 THEN EmptyList ELSE list_append(Grown[n - 1], 10 * n).list
      Shrunk(l, k, first) ==
        LET w[i \in 0..k] ==
              IF i = 0 THEN l
              ELSE list_delete_at(w[i - 1], IF first THEN 0 ELSE w[i - 1].numels - 1).list
        IN w[k]
  IN {Shrunk(Grown[n + k], k, first) : n \in 0..5, k \in 0..(MaxSpares + 1), first \in BOOLEAN}

Case(r, contents, value) == [r |-> r, contents |-> contents, value |-> value]
Cut(s, i, j) == SubSeq(s, 1, i) \o SubSeq(s, j + 1, Len(s))

\* Every operation on l, with the sequence it must leave and its value.
Operations(l, v) ==
  LET s == Contents(l)
      n == l.numels
  IN {Case(list_insert_at(l, v, p), SubSeq(s, 1, p) \o <<v>> \o SubSeq(s, p + 1, n), 1) : p \in 0..n}
     \cup {Case(list_insert_at(l, v, n + 1), s, -1), Case(list_delete_at(l, n), s, -1),
           Case(list_extract_at(l, n), s, Null), Case(list_clear(l), <<>>, n),
           Case(list_prepend(l, v), <<v>> \o s, 1), Case(list_append(l, v), s \o <<v>>, 1),
           Case(list_delete(l, v + 1), s, -1)}
     \cup {Case(list_delete_at(l, p - 1), Cut(s, p - 1, p), 0) : p \in 1..n}
     \cup {Case(list_delete(l, s[p]), Cut(s, p - 1, p), 0) : p \in 1..n}
     \cup {Case(list_extract_at(l, p - 1), Cut(s, p - 1, p), s[p]) : p \in 1..n}
     \cup {Case(list_delete_range(l, p - 1, q - 1), Cut(s, p - 1, q), q - p + 1) :
             p \in {1} \cap 1..n, q \in 1..n}
     \cup {Case(list_delete_range(l, p - 1, n - 1), Cut(s, p - 1, n), n - p + 1) : p \in 1..n}
     \cup {Case(list_delete_range(l, p - 1, p), Cut(s, p - 1, p + 1), 2) : p \in 1..(n - 1)}

Agrees(c) ==
  /\ RepOk(c.r.list) /\ EntriesOk(c.r.list)
  /\ Contents(c.r.list) = c.contents
  /\ c.r.value = c.value

Reads(l) ==
  LET s == Contents(l)
      started == list_iterator_start(l).list
      at[i \in 0..l.numels] == IF i = 0 THEN started ELSE list_iterator_next(at[i - 1]).list
  IN /\ \A p \in 1..l.numels :
          /\ list_get_at(l, p - 1) = s[p]
          /\ list_locate(l, s[p]) = p - 1
          /\ list_seek(l, {s[p]}) = s[p]
          /\ list_iterator_hasnext(at[p - 1])
          /\ list_iterator_next(at[p - 1]).value = s[p]
          /\ list_extract_at(at[p], 0) = Returns(at[p], Null)
     /\ ~list_iterator_hasnext(at[l.numels])
     /\ list_clear(started).value = -1 /\ list_append(started, 0).value = -1
     /\ list_iterator_stop(at[l.numels]).list.iter_active = FALSE

\* The list is a sequence: after one operation and after two, every operation
\* leaves the sequence it should, with a middle, a chain and entries in order
\* (simclist.c asserts the first two), and every reader finds what is there.
ListIsSequence ==
  MCOnce =>
    \A l \in MCLists :
      /\ Reads(l)
      /\ \A m \in MCLists :
           LET c == list_concat(l, m) IN RepOk(c) /\ Contents(c) = Contents(l) \o Contents(m)
      /\ \A c \in Operations(l, 7) :
           Agrees(c) /\ (Len(l.spareels) \in {0, MaxSpares} => \A e \in Operations(c.r.list, 5) : Agrees(e))

-----------------------------------------------------------------------------
(* Configuration files.                                                    *)

\* The lines that give the part k, in order: a keyword alone on the last line
\* gives nothing, and is no error.
Given(lines, k) ==
  SelectSeq([n \in 1..Len(lines) |-> n], LAMBDA n : lines[n][1] = k /\ lines[n][2] # "alone")

\* In a file that is accepted, the n-th reader has the n-th name, the n-th
\* library and the n-th channel of the file, and none that has all three is
\* left out (configfile.c:1796-1946).
ReadersInOrder ==
  MCOnce =>
    \A size \in 1..5 : \A lines \in [1..size -> MCForms] :
      LET a == DBGetReaderList(File(MCTokens(lines)), <<>>)
          mandatory == Keywords \ {"DEVICENAME"}
      IN a.ret = 0 =>
           /\ \A n \in 1..Len(a.reader_list) : \A k \in mandatory :
                Len(Given(lines, k)) >= n /\ a.reader_list[n][k] = MCValues[Given(lines, k)[n]]
           /\ \E k \in mandatory : Len(Given(lines, k)) = Len(a.reader_list)

\* The strings of a bundle belong to the key before them, and the last entry
\* with a key is the one found (tokenparser.c:1815-1925).
MCBundleTokens == {[kind |-> "key", text |-> k] : k \in {1, 2}} \cup {[kind |-> "string", text |-> 0]}

StringsOfTheirKey ==
  MCOnce =>
    \A size \in 1..5 : \A tokens \in [1..size -> MCBundleTokens] :
      \A k \in {1, 2} :
        LET at == {i \in 1..size : tokens[i] = [kind |-> "key", text |-> k]}
            last == CHOOSE i \in at : \A j \in at : j <= i
            after == {j \in (last + 1)..size : \A i \in (last + 1)..j : tokens[i].kind = "string"}
            values == FindValueWithKey(bundleParse(tokens), k)
        IN IF at = {} THEN values = None ELSE Len(values) = Cardinality(after)

\* Both parsers give each value to what it was written for.
ValuesToTheirOwner == ReadersInOrder /\ StringsOfTheirKey
=============================================================================
