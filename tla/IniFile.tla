------------------------------ MODULE IniFile ------------------------------
(***************************************************************************)
(* The INI library (src/minIni.c, glue in src/minGlue.h) as the relay uses *)
(* it: ini_gets and ini_puts on one file.  A setting that keeps its length *)
(* is overwritten in place; any other change copies the file, line by line *)
(* and through a cache, to a second file that then takes its place.  The   *)
(* process may die at any step; what it has handed to the system stays.    *)
(* Every call to the system may fail, and but for the opening of a file    *)
(* that is to be written no answer is looked at.                           *)
(*                                                                         *)
(* Data.  A file is a sequence of lines, a line a sequence of symbols; a   *)
(* section's or a key's name is one symbol.  Position p of a file is behind *)
(* its p-th line.  Erasing (a null key or value) is never asked for.  What *)
(* a call writes reaches the file when it is closed, all of it or nothing. *)
(***************************************************************************)
EXTENDS Integers, FiniteSets, FiniteSetsExt, Sequences, SequencesExt

CONSTANTS
    INI_BUFFERSIZE,     \* 512 in the code
    Missing             \* no such file

ASSUME IniAssumption == INI_BUFFERSIZE \in Nat \ {0}

VARIABLES
    file,       \* the INI file
    temp,       \* the file of the same name that ends in ~
    phase,      \* where ini_puts is
    put,        \* its arguments: the setting <<section, key>> and its value
    rfp,        \* position in file that is read next
    mark,       \* position in file that the cache starts at
    cachelen    \* length of the cache

copyVars == <<rfp, mark, cachelen>>
iniVars  == <<file, temp, phase, put, copyVars>>

LF        == "\n"
QuoteMark == "''"
Backslash == "bs"
Comment   == {";", "#"}
Unset     == <<"unset">>

-----------------------------------------------------------------------------
(* Values: ini_strncpy, check_enquote, cleanstring *)

Enquoted(value) ==
    LET quoted[i \in 0 .. Len(value)] ==
            IF i = 0 THEN <<QuoteMark>>
            ELSE IF value[i] = QuoteMark THEN quoted[i - 1] \o <<Backslash, QuoteMark>>
            ELSE Append(quoted[i - 1], value[i])
    IN  Append(quoted[Len(value)], QuoteMark)

check_enquote(value) == ToSet(value) \cap ({QuoteMark} \cup Comment) # {}

\* The positions of the quotes and backslashes that escape the quote they
\* stand before; an escaped quote escapes nothing.
Escapes(s) ==
    LET escape[i \in 1 .. Len(s)] ==
            /\ i < Len(s) /\ s[i] \in {QuoteMark, Backslash} /\ s[i + 1] = QuoteMark
            /\ i = 1 \/ ~escape[i - 1]
    IN  {i \in 1 .. Len(s) : escape[i]}

\* QUOTE_DEQUOTE: of an escaped quote only the quote is kept.
Dequoted(s) ==
    LET kept[i \in 0 .. Len(s)] ==
            IF i = 0 THEN <<>>
            ELSE IF i \in Escapes(s) THEN kept[i - 1]
            ELSE Append(kept[i - 1], s[i])
    IN  kept[Len(s)]

\* Where a trailing comment begins, or the end: at a semicolon or number sign
\* that does not stand between quotes.
CommentAt(s) ==
    LET escapes == Escapes(s)
        quotes  == {i \in 1 .. Len(s) : s[i] = QuoteMark /\ {i - 1, i} \cap escapes = {}}
        isstring(i) == Cardinality({q \in quotes : q < i}) % 2 = 1
    IN  Min({i \in 1 .. Len(s) : s[i] \in Comment /\ ~isstring(i)} \cup {Len(s) + 1})

cleanstring(raw) ==
    LET s == SubSeq(raw, 1, CommentAt(raw) - 1)
    IN  IF s # <<>> /\ s[1] = QuoteMark /\ Last(s) = QuoteMark
          THEN Dequoted(SubSeq(s, 2, Len(s) - 1))
          ELSE s

-----------------------------------------------------------------------------
(* Lines *)

writesection(section) == <<"[", section, "]", LF>>

writekey_Bare(key, value) == <<key, "=">> \o value \o <<LF>>

writekey(key, value) ==
    <<key, "=">> \o (IF check_enquote(value) THEN Enquoted(value) ELSE value) \o <<LF>>

IsHeading(line) == line[1] = "["
IsEntry(line, key) == Len(line) > 2 /\ line[1] = key /\ line[2] = "="
ValueOn(line) == cleanstring(SubSeq(line, 3, Len(line) - 1))

\* Whether line i holds the setting: the first such line of the first such
\* section.
getkeystring(f, n, i) ==
    /\ IsEntry(f[i], n[2])
    /\ \E p \in 1 .. i - 1 :
          /\ f[p] = writesection(n[1])
          /\ \A q \in 1 .. p - 1 : f[q] # writesection(n[1])
          /\ \A q \in p + 1 .. i - 1 : ~IsHeading(f[q]) /\ ~IsEntry(f[q], n[2])

Holds(f, n) == {i \in DOMAIN f : getkeystring(f, n, i)}

\* The line of a setting; one that is not found has its default.
LineOf(f, n) ==
    IF f = Missing \/ Holds(f, n) = {} THEN Unset
    ELSE f[CHOOSE i \in Holds(f, n) : TRUE]

ini_gets(f, n) == IF LineOf(f, n) = Unset THEN Unset ELSE ValueOn(LineOf(f, n))

-----------------------------------------------------------------------------
(* ini_puts: the short cuts *)

section == put.name[1]
key == put.name[2]
NewEntry == writekey(key, put.value)
AtRest == phase = "idle"

\* The call returns, or the process dies: what was local to the call is gone.
NoPut == [name |-> <<>>, value |-> <<>>]
Done ==
    /\ phase' = "idle" /\ put' = NoPut
    /\ rfp' = 0 /\ mark' = 0 /\ cachelen' = 0

\* The file does not open for reading: whether there is one or not, an empty one
\* is made in its place, and written when it is closed.
PutsCreate(n, v) ==
    /\ AtRest
    /\ file' = <<>>
    /\ phase' = "create" /\ put' = [name |-> n, value |-> v]
    /\ UNCHANGED <<temp, copyVars>>

Created ==
    /\ phase = "create"
    /\ file' = <<writesection(section), NewEntry>>
    /\ Done
    /\ UNCHANGED temp

\* The setting has the value already, or its line keeps its length.
PutsInPlace(n, v) ==
    /\ AtRest /\ file # Missing
    /\ \E i \in Holds(file, n) :
          \/ ValueOn(file[i]) = v /\ UNCHANGED file
          \/ /\ ValueOn(file[i]) # v
             /\ Len(writekey(n[2], v)) = Len(file[i])
             /\ file' = [file EXCEPT ![i] = writekey(n[2], v)]
    /\ UNCHANGED <<temp, phase, put, copyVars>>

PutsCopy(n, v) ==
    /\ AtRest /\ file # Missing
    /\ \A i \in Holds(file, n) :
          Len(writekey(n[2], v)) # Len(file[i]) /\ ValueOn(file[i]) # v
    /\ temp' = <<>>
    /\ phase' = "section" /\ put' = [name |-> n, value |-> v]
    /\ rfp' = 0 /\ mark' = 0 /\ cachelen' = 0
    /\ UNCHANGED file

\* A file that is to be written does not open, or takes no write in place.
\* (Nothing is written for a setting that has its value already.)
PutsFails(n, v) ==
    /\ AtRest
    /\ ini_gets(file, n) # v
    /\ UNCHANGED iniVars

-----------------------------------------------------------------------------
(* ini_puts: the copy *)

Line == file[rfp + 1]
AtEnd == rfp = Len(file)

\* The length of the lines of f between two positions.
Symbols(f, from, to) ==
    LET length[p \in from .. Len(f)] ==
            IF p = from THEN 0 ELSE length[p - 1] + Len(f[p])
    IN  length[to]

\* cache_flush writes cachelen symbols of file from mark on and leaves the read
\* position behind them.
Flushed == Min({p \in mark .. Len(file) : Symbols(file, mark, p) >= cachelen})
Flush == temp \o SubSeq(file, mark + 1, Flushed)

\* Whether what was flushed ended with a line; a new line is begun if not.
EndedLine == cachelen > 1
NewLine == IF EndedLine THEN <<>> ELSE <<<<LF>>>>

cache_accum(len) == cachelen + len < INI_BUFFERSIZE

Accumulate_Skips ==
    IF cache_accum(Len(Line))
      THEN /\ cachelen' = cachelen + Len(Line) /\ rfp' = rfp + 1
           /\ UNCHANGED <<mark, temp>>
      ELSE /\ temp' = Flush
           /\ mark' = rfp + 1 /\ rfp' = rfp + 1 /\ cachelen' = 0

\* Line is read and goes to the cache.  If it does not fit, the cache is
\* flushed and the line is read again.
Accumulate ==
    IF cache_accum(Len(Line))
      THEN /\ cachelen' = cachelen + Len(Line) /\ rfp' = rfp + 1
           /\ UNCHANGED <<mark, temp>>
      ELSE /\ temp' = Flush
           /\ mark' = Flushed /\ rfp' = Flushed + 1
           /\ cachelen' = Len(file[Flushed + 1])

Closing ==
    /\ phase' = "close"
    /\ mark' = Flushed /\ rfp' = Flushed /\ cachelen' = 0

\* The lines up to the heading of the section.
SkipLine ==
    /\ phase = "section" /\ ~AtEnd
    /\ Line # writesection(section)
    /\ Accumulate
    /\ UNCHANGED <<file, phase, put>>

\* The heading goes through the cache like the others; then the cache is
\* flushed.
FoundSection ==
    /\ phase = "section" /\ ~AtEnd
    /\ Line = writesection(section)
    /\ Accumulate
    /\ phase' = "found"
    /\ UNCHANGED <<file, put>>

EnterSection ==
    /\ phase = "found"
    /\ temp' = Flush
    /\ mark' = Flushed /\ rfp' = Flushed /\ cachelen' = 0
    /\ phase' = "entry"
    /\ UNCHANGED <<file, put>>

NoSection ==
    /\ phase = "section" /\ AtEnd
    /\ temp' = Flush \o NewLine \o <<writesection(section), NewEntry>>
    /\ Closing
    /\ UNCHANGED <<file, put>>

\* The section's other lines.
KeepLine ==
    /\ phase = "entry" /\ ~AtEnd
    /\ ~IsEntry(Line, key) /\ ~IsHeading(Line)
    /\ Accumulate
    /\ UNCHANGED <<file, phase, put>>

NoEntry ==
    /\ phase = "entry" /\ AtEnd
    /\ temp' = Flush \o NewLine \o <<NewEntry>>
    /\ Closing
    /\ UNCHANGED <<file, put>>

\* The entry, which is forgotten, or the heading of the next section, which is
\* kept.
WriteEntry ==
    /\ phase = "entry" /\ ~AtEnd
    /\ temp' = Flush \o <<NewEntry>>
    /\ rfp' = Flushed + 1
    /\ \/ /\ IsHeading(Line)
          /\ mark' = Flushed /\ cachelen' = Len(file[Flushed + 1])
       \/ /\ IsEntry(Line, key)
          /\ mark' = Flushed + 1 /\ cachelen' = 0
    /\ phase' = "rest"
    /\ UNCHANGED <<file, put>>

CopyRest ==
    /\ phase = "rest" /\ ~AtEnd
    /\ Accumulate
    /\ UNCHANGED <<file, phase, put>>

EndRest ==
    /\ phase = "rest" /\ AtEnd
    /\ temp' = Flush
    /\ Closing
    /\ UNCHANGED <<file, put>>

\* close_rename: both files are closed, the old one is deleted ...
RemoveOld ==
    /\ phase = "close"
    /\ file' = Missing
    /\ phase' = "removed"
    /\ UNCHANGED <<temp, put, copyVars>>

\* ... and the new one gets its name.
Rename ==
    /\ phase = "removed"
    /\ file' = temp /\ temp' = Missing
    /\ Done

\* The new file is closed without what was written to it.
CreateFails ==
    /\ phase = "create"
    /\ Done
    /\ UNCHANGED <<file, temp>>

\* So is the copy, and the old file is deleted all the same.
CloseFails ==
    /\ phase = "close"
    /\ temp' = <<>> /\ file' = Missing
    /\ phase' = "removed"
    /\ UNCHANGED <<put, copyVars>>

\* The old file is neither deleted nor replaced.  (If only the delete fails, the
\* rename replaces it.)
RemoveFails ==
    /\ phase = "close"
    /\ temp' = Missing
    /\ Done
    /\ UNCHANGED file

\* The copy does not get the name of the file that was deleted.
RenameFails ==
    /\ phase = "removed"
    /\ temp' = Missing
    /\ Done
    /\ UNCHANGED file

FailingStep == CreateFails \/ CloseFails \/ RemoveFails \/ RenameFails

CopyStep ==
    \/ Created
    \/ SkipLine \/ FoundSection \/ EnterSection \/ NoSection
    \/ KeepLine \/ NoEntry \/ WriteEntry
    \/ CopyRest \/ EndRest
    \/ RemoveOld \/ Rename

ini_puts(n, v) ==
    \/ file = Missing /\ PutsCreate(n, v)
    \/ PutsInPlace(n, v)
    \/ PutsCopy(n, v)

\* The call fails at its start: a file does not open.
ini_puts_fails(n, v) ==
    \/ file # Missing /\ PutsCreate(n, v)
    \/ PutsFails(n, v)

\* The process ends.  What it leaves in temp is never read, and left out: the
\* next copy starts by emptying it.
Stopped ==
    /\ Done
    /\ temp' = Missing
    /\ UNCHANGED file

IniInit ==
    /\ file = Missing /\ temp = Missing
    /\ phase = "idle" /\ put = NoPut
    /\ rfp = 0 /\ mark = 0 /\ cachelen = 0

=============================================================================
