----------------------------- MODULE ReaderConf -----------------------------
(***************************************************************************)
(* The two files the daemon reads about its readers: reader.conf, or the   *)
(* directory of such files, which declares the serial readers              *)
(* (configfile.c), and the Info.plist of a driver bundle (tokenparser.c).  *)
(* The scanners are generated; what is modelled is what their actions do   *)
(* with the tokens.  A token of reader.conf is [line, kind, text], kind    *)
(* being "word" or "bad" for a character no rule takes; a token of         *)
(* Info.plist is a key or a string.                                        *)
(***************************************************************************)
EXTENDS Integers, Sequences, FiniteSets, SequencesExt

CONSTANTS Missing,   \* the paths of devices and libraries that do not exist
          None       \* nothing: NULL

Keywords == {"FRIENDLYNAME", "DEVICENAME", "LIBPATH", "CHANNELID"}

\* The state of the parser when DBGetReaderList has reset it.
CleanParser(reader_list) ==
  [previous |-> None, oldLine |-> -1, badError |-> FALSE,
   parts |-> [k \in Keywords |-> None], reader_list |-> reader_list]

tok_error(p) == [p EXCEPT !.badError = TRUE]

\* A reader is complete once its name, library and channel are there: what
\* comes later belongs to the next one.
Complete(p) ==
  /\ \A k \in Keywords \ {"DEVICENAME"} : p.parts[k] # None
  /\ ~p.badError

EmitReader(p) ==
  IF Complete(p)
    THEN [p EXCEPT !.reader_list = Append(@, p.parts), !.parts = [k \in Keywords |-> None]]
    ELSE p

\* A part is given once in a reader; a missing device or library is an
\* error, but is kept.
SetPart(p, text) ==
  [p EXCEPT !.parts[p.previous] = text,
            !.badError = @ \/ (p.previous \in {"DEVICENAME", "LIBPATH"} /\ text \in Missing)]

\* Mutant: a value is taken from the line that follows its key.
EvaluateTokenAnyLine(p, t) ==
  IF p.previous = None THEN EmitReader([p EXCEPT !.previous = t.text, !.oldLine = t.line])
  ELSE IF p.previous \notin Keywords THEN [tok_error(p) EXCEPT !.previous = None]
  ELSE IF p.parts[p.previous] # None THEN [p EXCEPT !.parts[p.previous] = t.text]
  ELSE EmitReader([SetPart(p, t.text) EXCEPT !.previous = None])

\* The first token of a pair is its key, the second its value, which must be
\* on the same line.  A part given twice leaves its key waiting: the next
\* line puts the parser back in step.
EvaluateToken(p, t) ==
  IF p.previous = None THEN EmitReader([p EXCEPT !.previous = t.text, !.oldLine = t.line])
  ELSE IF p.oldLine # t.line
    THEN [tok_error(p) EXCEPT !.previous = t.text, !.oldLine = t.line]
  ELSE IF p.previous \notin Keywords THEN [tok_error(p) EXCEPT !.previous = None]
  ELSE IF p.parts[p.previous] # None THEN tok_error(p)
  ELSE EmitReader([SetPart(p, t.text) EXCEPT !.previous = None])

Scan(p, t) ==
  IF t.kind = "bad" THEN tok_error([p EXCEPT !.oldLine = t.line]) ELSE EvaluateToken(p, t)

Answer(ret, reader_list, caller) == [ret |-> ret, reader_list |-> reader_list, caller |-> caller]

\* DBGetReaderList: what the caller gets is the list of all files so far, or
\* nothing when this file cannot be opened.
DBGetReaderList(file, reader_list) ==
  IF ~file.readable THEN Answer(1, reader_list, <<>>)
  ELSE LET p == FoldLeft(Scan, CleanParser(reader_list), file.tokens)
       IN Answer(IF p.badError THEN -1 ELSE 0, p.reader_list, p.reader_list)

\* DBGetReaderListDir: the latest error counts, and the list of the last file.
DBGetReaderListDir(files) ==
  LET read == SelectSeq(files, LAMBDA f : f.regular /\ ~f.hidden)
      Next(answer, file) ==
        LET a == DBGetReaderList(file, answer.reader_list)
        IN [a EXCEPT !.ret = IF a.ret # 0 THEN a.ret ELSE answer.ret]
  IN FoldLeft(Next, Answer(0, <<>>, <<>>), read)

\* RFStartSerialReaders and its caller: a file named by -c must be perfect,
\* the default directory only free of errors in what could be read last.
StartRefused(files, custom) ==
  LET rv == DBGetReaderListDir(files).ret
  IN IF custom THEN rv # 0 ELSE rv = -1

-----------------------------------------------------------------------------
(* Info.plist: a list of keys, each with the strings that follow it.       *)

\* ListValues is a global that outlives the parse; before the first key it
\* is what the bundle read before has left.
EmptyBundle == [keys |-> <<>>, stray |-> 0]

EvalToken(bundle, t) ==
  IF t.kind = "key" THEN [bundle EXCEPT !.keys = Append(@, [key |-> t.text, values |-> <<>>])]
  ELSE IF bundle.keys = <<>> THEN [bundle EXCEPT !.stray = @ + 1]
  ELSE [bundle EXCEPT !.keys[Len(bundle.keys)].values = Append(@, t.text)]

bundleParse(tokens) == FoldLeft(EvalToken, EmptyBundle, tokens)

\* LTPBundleFindValueWithKey: the last entry with the key.
FindValueWithKey(bundle, key) ==
  LET found == {i \in 1..Len(bundle.keys) : bundle.keys[i].key = key}
  IN IF found = {} THEN None
     ELSE bundle.keys[CHOOSE i \in found : \A j \in found : j <= i].values
=============================================================================
