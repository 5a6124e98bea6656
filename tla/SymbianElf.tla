------------------------------ MODULE SymbianElf ------------------------------
(***************************************************************************)
(* The format of a Symbian ELF core dump, as formatter, file writer and    *)
(* editor share it, and what a reader gets out of such a file.             *)
(*                                                                         *)
(* A file is a sequence of cells; every structure of symbianelfdefs.h, a   *)
(* register, a string of the string table and a unit of memory take one    *)
(* cell, and offsets count cells from 0.  That keeps apart what matters of *)
(* a layout, where a thing stands and who points at it, and leaves out how *)
(* many bytes it has.  (A ROM note is followed by a spare word of its own, *)
(* for its descriptor gives the size of the shorter lock note.)            *)
(***************************************************************************)
EXTENDS Naturals, Sequences, FiniteSets, SequencesExt

KErrNotFound == 65535      \* as an unsigned word
ESYM_STR_UNDEF == 0
KSymbianElfCoreDumpVersion == "1.0.0"
KSymbianElfCoreDumpVersionV2 == "2.0.0"

Ehdr(phoff, phnum) == [k |-> "ehdr", phoff |-> phoff, phnum |-> phnum]
PtNote(offset) == [k |-> "phdr", type |-> "note", offset |-> offset]
PtLoad(s, offset, filesz) ==
  [k |-> "phdr", type |-> "load", offset |-> offset,
   base |-> s.base, memsz |-> s.size, filesz |-> filesz]
Dhdr(type, name, size, num, version) ==
  [k |-> "dhdr", type |-> type, name |-> name, size |-> size, num |-> num,
   version |-> version]

-------------------------------------------------------------------------------
(* The string table, and a file that is being written: offset is iOffset.  *)

StandardStrings ==
  <<"", "SYMBIAN", "THREAD", "PROCESS", "EXECUTABLE", "STR", KSymbianElfCoreDumpVersion>>

GetIndex(table, s) ==
  IF \E i \in DOMAIN table : table[i] = s
  THEN (CHOOSE i \in DOMAIN table :
          table[i] = s /\ \A j \in 1..i - 1 : table[j] # s) - 1
  ELSE KErrNotFound

AddString(w, s) == [w EXCEPT !.table = Append(@, s)]
Added(w) == Len(w.table)   \* the index the next string gets
StringCells(table) == [i \in DOMAIN table |-> [k |-> "str", s |-> table[i]]]

(* RFile writes at the end of the file when the position is beyond it.     *)
WriteAt(f, pos, cells) ==
  LET p == IF pos > Len(f) THEN Len(f) ELSE pos
  IN  SubSeq(f, 1, p) \o cells \o SubSeq(f, p + Len(cells) + 1, Len(f))

Put(w, cells) ==
  [w EXCEPT !.file = WriteAt(@, w.offset, cells), !.offset = @ + Len(cells)]

-------------------------------------------------------------------------------
(* The reader: elfdump, which follows the ELF header to the program        *)
(* headers, these to the notes and segments, and finds the names in the    *)
(* string note.  Facts(f) is all it learns.                                *)

At(f, o) == IF o < Len(f) THEN f[o + 1] ELSE [k |-> "end"]
Stretch(f, o, n) == {At(f, i) : i \in o..o + n - 1}

Headers(f) == {At(f, At(f, 0).phoff + i) : i \in 0..At(f, 0).phnum - 1}
NoteOf(f, h) == At(f, h.offset)
IsNote(f, h) == h.k = "phdr" /\ h.type = "note" /\ NoteOf(f, h).k = "dhdr"

Strings(f) ==
  LET strs == {h \in Headers(f) : IsNote(f, h) /\ NoteOf(f, h).type = "str"}
      h == CHOOSE x \in strs : TRUE
  IN  IF strs = {} THEN <<>>
      ELSE [i \in 1..NoteOf(f, h).size |-> At(f, h.offset + i)]

Str(strings, i) ==
  IF i + 1 \in DOMAIN strings /\ strings[i + 1].k = "str" THEN strings[i + 1].s ELSE "?"

RegisterFacts(f, o) ==
  LET info == At(f, o)
      Tell(rd) == [k |-> "reg", thread |-> info.thread, reg |-> rd.reg,
                   value |-> At(f, rd.data)]
  IN  {IF rd.k = "regdata" THEN Tell(rd) ELSE [k |-> "garbage"]
       : rd \in Stretch(f, o + 1, info.num)}

RawFacts(f, type, e) == IF type \in {"trace", "var"} THEN Stretch(f, e.data, e.size) ELSE {e}
ElementFacts(f, strings, type, o) ==
  LET e == At(f, o)
  IN  CASE e.k # type -> {[k |-> "garbage"]}
        [] type = "reg" -> RegisterFacts(f, o)
        [] type \in {"sym", "thrd", "proc", "exec"} ->
             {[k |-> type, id |-> e.id, name |-> Str(strings, e.name)]}
        [] OTHER -> RawFacts(f, type, e)

NoteFacts(f, strings, h) ==
  LET d == NoteOf(f, h)
  IN  {[k |-> "note", type |-> d.type, name |-> Str(strings, d.name)]}
      \cup IF d.type = "str" THEN {}
           ELSE UNION {ElementFacts(f, strings, d.type, h.offset + 1 + i * d.size)
                       : i \in 0..d.num - 1}

LoadFacts(f, h) ==
  {[k |-> "range", base |-> h.base, size |-> h.memsz]}
  \cup Stretch(f, h.offset, h.filesz)

FactsOf(f, headers) ==
  LET strings == Strings(f)
  IN  UNION {CASE IsNote(f, h) -> NoteFacts(f, strings, h)
               [] h.k = "phdr" /\ h.type = "load" -> LoadFacts(f, h)
               [] OTHER -> {[k |-> "garbage"]} : h \in headers}
Facts(f) == FactsOf(f, Headers(f))
===============================================================================
