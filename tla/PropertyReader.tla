--------------------------- MODULE PropertyReader ---------------------------
(***************************************************************************)
(* PropertyReader (PropertyReader.cpp): a map of properties that is read   *)
(* from a text file and saved when its object is destroyed.                *)
(*                                                                         *)
(* Strings are sequences of characters, because lines, spaces and escapes  *)
(* decide what is read back.  Several objects may have the same path.      *)
(***************************************************************************)
EXTENDS Integers, SequencesExt

CONSTANTS
  Chars,          \* the characters of texts
  Readers,        \* the objects of one path
  Keys,           \* their keys, without spaces (PropertyReader.cpp:8)
  Values,         \* values given to setProp(), the empty one among them
  FirstFiles,     \* what the path may hold at first
  NoFile, Unknown

Newline == "\n"
Backslash == "\\"
Space == " "

Texts == Seq(Chars)
KeyTexts == Seq(Chars \ {Space})

\* Of the constants; the module that gives them values assumes it.
ReadersAssumption ==
  /\ {Newline, Backslash, Space, "n"} \subseteq Chars
  /\ Keys \subseteq KeyTexts /\ Values \subseteq Texts
  /\ FirstFiles \subseteq Texts \cup {NoFile}
  /\ NoFile # Unknown /\ NoFile \notin Texts /\ Unknown \notin Texts

VARIABLES
  file,           \* the text at the path, or NoFile
  alive,          \* the objects that exist and have not been moved
  reader,         \* the members of each, and
                  \*   base: what the path held when it last read or wrote it
                  \*   unsaved: keys set or emptied by setProp() since
                  \*   loose: other keys that differ from the base
  terminated      \* an exception left a destructor

rdrVars == <<file, alive, reader, terminated>>

-----------------------------------------------------------------------------
\* What is there after a turn for each element of a sequence.
Loop(Turn(_, _), first, seq) ==
  LET after[i \in 0..Len(seq)] == IF i = 0 THEN first ELSE Turn(after[i - 1], seq[i])
  IN  after[Len(seq)]

\* A backslash takes the next character, n for a newline; a last one is dropped.
ParseChar(r, c) ==
  IF r.escaped THEN [str |-> Append(r.str, IF c = "n" THEN Newline ELSE c), escaped |-> FALSE]
  ELSE IF c = Backslash THEN [r EXCEPT !.escaped = TRUE]
  ELSE [r EXCEPT !.str = Append(@, c)]

parseSpecial(str) == Loop(ParseChar, [str |-> <<>>, escaped |-> FALSE], str).str

SerializeChar(str, c) ==
  str \o CASE c = Newline   -> <<Backslash, "n">>
           [] c = Backslash -> <<Backslash, Backslash>>
           [] OTHER         -> <<c>>

serializeSpecial(str) == Loop(SerializeChar, <<>>, str)

\* insert_or_assign()
Put(props, k, value) == [l \in DOMAIN props \cup {k} |-> IF l = k THEN value ELSE props[l]]

\* A line's key ends at its first space, and lines without one are skipped.
KeyLength(line) == SelectInSeq(line, LAMBDA c : c = Space) - 1

Assign(props, line) ==
  IF KeyLength(line) < 0 THEN props
  ELSE Put(props, parseSpecial(SubSeq(line, 1, KeyLength(line))),
                  parseSpecial(SubSeq(line, KeyLength(line) + 2, Len(line))))

\* getline() and what is done with each line; the last one needs no newline.
ReadChar(r, c) ==
  IF c = Newline THEN [props |-> Assign(r.props, r.line), line |-> <<>>]
  ELSE [r EXCEPT !.line = Append(@, c)]

Load(text) ==
  IF text = NoFile THEN <<>>
  ELSE LET r == Loop(ReadChar, [props |-> <<>>, line |-> <<>>], text)
       IN  Assign(r.props, r.line)

LineOf(k, value) ==
  serializeSpecial(k) \o <<Space>> \o serializeSpecial(value) \o <<Newline>>

Save(props) == Loop(LAMBDA text, k : text \o LineOf(k, props[k]), <<>>, SetToSeq(DOMAIN props))

-----------------------------------------------------------------------------
Fresh(text) ==
  [props |-> Load(text), propsChanged |-> FALSE, base |-> text, unsaved |-> {}, loose |-> {}]

MovedFrom == [props |-> <<>>, propsChanged |-> FALSE, base |-> Unknown, unsaved |-> {}, loose |-> {}]

RdrInit ==
  /\ file \in FirstFiles
  /\ alive = {}
  /\ reader = [r \in Readers |-> MovedFrom]
  /\ terminated = FALSE

constructReader(r) ==
  /\ r \notin alive
  /\ alive' = alive \cup {r}
  /\ reader' = [reader EXCEPT ![r] = Fresh(file)]
  /\ UNCHANGED <<file, terminated>>

\* A copy, which is flagged if the original is.
copy(r, q) ==
  /\ r \in alive /\ q \notin alive
  /\ alive' = alive \cup {q}
  /\ reader' = [reader EXCEPT ![q] = reader[r]]
  /\ UNCHANGED <<file, terminated>>

\* The moved object is not flagged, and its destructor does nothing.
moveReader(r, q) ==
  /\ r \in alive /\ q \notin alive
  /\ alive' = (alive \cup {q}) \ {r}
  /\ reader' = [reader EXCEPT ![q] = reader[r], ![r] = MovedFrom]
  /\ UNCHANGED <<file, terminated>>

Overlaid(p, q) == [k \in DOMAIN p \cup DOMAIN q |-> IF k \in DOMAIN p THEN p[k] ELSE q[k]]

\* What the file has replaces what the object has; nothing is removed.
Reread(o, text) ==
  LET loaded == Load(text)
  IN  [o EXCEPT !.props = Overlaid(loaded, @), !.base = text,
                !.unsaved = @ \ DOMAIN loaded,
                !.loose = (DOMAIN o.props \ DOMAIN loaded) \ o.unsaved]

readFromDisk(r) ==
  /\ r \in alive
  /\ reader' = [reader EXCEPT ![r] = Reread(@, file)]
  /\ UNCHANGED <<file, alive, terminated>>

RemoveThrows(r) == reader[r].props = <<>> /\ file = NoFile

\* The file is written, or removed if there is nothing to write; that it cannot
\* be opened is not noticed.
AfterWrite(r) ==
  IF reader[r].props = <<>> THEN {NoFile} ELSE {Save(reader[r].props), file}

\* The flag stays set.
Written(o, text) == [o EXCEPT !.base = text, !.unsaved = {}, !.loose = {}]

writeToDisk(r, force) ==
  /\ r \in alive
  /\ reader[r].propsChanged \/ force
  /\ file' \in AfterWrite(r)
  /\ reader' = IF reader[r].props # <<>> /\ file' # Save(reader[r].props) THEN reader
               ELSE [reader EXCEPT ![r] = Written(@, file')]
  /\ UNCHANGED <<alive, terminated>>

\* A destructor that throws ends the program.
destruct(r) ==
  /\ r \in alive
  /\ alive' = alive \ {r}
  /\ file' \in IF reader[r].propsChanged THEN AfterWrite(r) ELSE {file}
  /\ reader' = [reader EXCEPT ![r] = MovedFrom]
  /\ terminated' = (reader[r].propsChanged /\ RemoveThrows(r))

Without(props, k) == [l \in DOMAIN props \ {k} |-> props[l]]

Deleted(o, k) == [o EXCEPT !.props = Without(@, k), !.loose = @ \cup {k}]

\* delProp() by the program: nothing notes that the file is outdated.
delProp(r, k) ==
  /\ r \in alive /\ k \in DOMAIN reader[r].props
  /\ reader' = [reader EXCEPT ![r] = Deleted(@, k)]
  /\ UNCHANGED <<file, alive, terminated>>

Assigned(o, k, value) ==
  [o EXCEPT !.props = Put(@, k, value), !.propsChanged = TRUE,
            !.unsaved = @ \cup {k}, !.loose = @ \ {k}]

\* Mutant: the result of delProp() is ignored.
EmptiedUnnoticed(o, k) ==
  IF k \in DOMAIN o.props
  THEN [o EXCEPT !.props = Without(@, k), !.unsaved = @ \cup {k}, !.loose = @ \ {k}]
  ELSE o

Emptied(o, k) ==
  IF k \in DOMAIN o.props
  THEN [o EXCEPT !.props = Without(@, k), !.propsChanged = TRUE,
                 !.unsaved = @ \cup {k}, !.loose = @ \ {k}]
  ELSE o

\* An empty value deletes.
setProp(r, k, value) ==
  /\ r \in alive
  /\ reader' = [reader EXCEPT ![r] = IF value = <<>> THEN Emptied(@, k)
                                                     ELSE Assigned(@, k, value)]
  /\ UNCHANGED <<file, alive, terminated>>

getOrSetProp(r, k, defval) == k \notin DOMAIN reader[r].props /\ setProp(r, k, defval)

\* The program says that the file is as the object.
Marked(o) == [o EXCEPT !.propsChanged = FALSE, !.base = Unknown, !.unsaved = {}, !.loose = {}]

markAsWritten(r) ==
  /\ r \in alive
  /\ reader' = [reader EXCEPT ![r] = Marked(@)]
  /\ UNCHANGED <<file, alive, terminated>>

RdrNext ==
  /\ ~terminated
  /\ \/ \E r \in Readers : \/ constructReader(r) \/ readFromDisk(r) \/ destruct(r) \/ markAsWritten(r)
                           \/ \E force \in BOOLEAN : writeToDisk(r, force)
     \/ \E r \in Readers, k \in Keys :
          delProp(r, k) \/ \E v \in Values : setProp(r, k, v) \/ getOrSetProp(r, k, v)
     \/ \E r, q \in Readers : copy(r, q) \/ moveReader(r, q)

RdrSpec == RdrInit /\ [][RdrNext]_rdrVars

-----------------------------------------------------------------------------
(* Properties *)

AgreeOn(p, q, k) ==
  IF k \in DOMAIN p THEN k \in DOMAIN q /\ p[k] = q[k] ELSE k \notin DOMAIN q

\* An object knows whether its file is outdated.  As long as nobody else
\* changed the file, what the program would read there differs from the object
\* only in what was set since it was read or written, for which the flag is
\* set, and in keys that delProp() removed or that the file lost before it was
\* read again, for which it need not be.
OutdatedIsFlagged ==
  \A r \in alive : reader[r].base = file =>
    /\ \A k \in DOMAIN Load(file) \cup DOMAIN reader[r].props :
         k \notin reader[r].unsaved \cup reader[r].loose => AgreeOn(Load(file), reader[r].props, k)
    /\ reader[r].unsaved # {} => reader[r].propsChanged
=============================================================================
