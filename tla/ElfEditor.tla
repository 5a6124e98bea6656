------------------------------ MODULE ElfEditor ------------------------------
(***************************************************************************)
(* CSELFEditor, which adds variant specific data to a dump: it writes the  *)
(* dump anew into a temporary file, with the offsets that change, and puts *)
(* this in the place of the dump by way of a backup.                       *)
(*                                                                         *)
(* Each call of the file server may fail, and the process may end between  *)
(* any two of them.  An editor whose swap has failed has no file any more  *)
(* and can only be deleted.                                                *)
(***************************************************************************)
EXTENDS SymbianElf

CONSTANTS MaxInserts, MaxMishaps   \* bounds: data inserted; calls that fail, processes that end

VARIABLES
  pc,       \* where WriteELFUpdatesL and SwapFilesL are; "none" without an editor
  files,    \* the dump, the temporary file and the backup
  phdrs,    \* iProgramHeaders
  renewed,  \* newProgramHeaders
  table,    \* iStringTable
  new,      \* iNewSegments with their iRawData
  inserts, mishaps,   \* bounds
  facts,    \* what a reader of the dump found at first
  added     \* the data that have become part of the dump

vars == <<pc, files, phdrs, renewed, table, new, inserts, mishaps, facts, added>>
editor == <<phdrs, renewed, table, new>>
history == <<inserts, facts, added>>

Missing == <<>>

-------------------------------------------------------------------------------
(* What the editor reads of a dump.                                        *)

ProgramHeaders(f) == [i \in 1..At(f, 0).phnum |-> At(f, At(f, 0).phoff + i - 1)]
Table(f) == LET cells == Strings(f) IN [i \in DOMAIN cells |-> cells[i].s]

(* Each header with what it is followed by in the new file.                *)
Cells(f, o, n) == SubSeq(f, o + 1, o + n)

\* Mutant: register notes are copied as they are.
CopyRegistersBlindly(f, o, dest) ==
  LET n == At(f, o + 1).num
  IN  Cells(f, o, 2 + n) \o [i \in 1..n |-> At(f, At(f, o + 1 + i).data)]

CopyRegisters(f, o, dest) ==
  LET n == At(f, o + 1).num
  IN  Cells(f, o, 2)
      \o [i \in 1..n |-> [At(f, o + 1 + i) EXCEPT !.data = dest + 1 + n + i]]
      \o [i \in 1..n |-> At(f, At(f, o + 1 + i).data)]

CopyVariantData(f, o, dest) ==
  LET v == At(f, o + 1)
  IN  <<At(f, o), [v EXCEPT !.data = dest + 2]>> \o Cells(f, o + 2, v.size)

Copy(f, h, dest) ==
  LET d == At(f, h.offset)
  IN  CASE h.type = "load" /\ h.filesz # 0 /\ h.offset # 0 -> Cells(f, h.offset, h.filesz)
        [] h.type = "note" /\ d.type = "reg" -> CopyRegisters(f, h.offset, dest)
        [] h.type = "note" /\ d.type = "var" -> CopyVariantData(f, h.offset, dest)
        [] h.type = "note" /\ d.type \notin {"reg", "var"} ->
             Cells(f, h.offset, 1 + d.size * d.num)
        [] OTHER -> <<>>

IsStringNote(f, h) == h.type = "note" /\ At(f, h.offset).type = "str"

(* The new file as far as it has been written: headers, data behind them.  *)
Append1(acc, h, cells) ==
  [headers |-> Append(acc.headers, IF cells = <<>> THEN h ELSE [h EXCEPT !.offset = acc.pos]),
   data |-> acc.data \o cells, pos |-> acc.pos + Len(cells), table |-> acc.table]

Inserted(n) == [k |-> "data", of |-> "inserted", i |-> n]
AppendNew(acc, n) ==
  Append1([acc EXCEPT !.table = Append(@, "VARDATA")], PtNote(0),
          <<Dhdr("var", Len(acc.table), 1, 1, GetIndex(acc.table, KSymbianElfCoreDumpVersionV2)),
            [k |-> "var", data |-> acc.pos + 2, size |-> 1], Inserted(n)>>)

AppendStrings(acc) ==
  Append1(acc, PtNote(0),
          <<Dhdr("str", GetIndex(acc.table, "STR"), Len(acc.table), 1,
                 GetIndex(acc.table, KSymbianElfCoreDumpVersionV2))>>
          \o StringCells(acc.table))

Rewritten ==
  LET f == files.dump
      start == [headers |-> <<>>, data |-> <<>>, pos |-> 1 + Len(new) + Len(phdrs),
                table |-> table]
      old == FoldLeft(LAMBDA acc, h : IF IsStringNote(f, h) THEN acc
                                      ELSE Append1(acc, h, Copy(f, h, acc.pos)), start, phdrs)
  IN  AppendStrings(FoldLeft(AppendNew, old, new))

-------------------------------------------------------------------------------
Fails == mishaps < MaxMishaps /\ mishaps' = mishaps + 1
Goes(here, next) == pc = here /\ pc' = next

Begin(f) ==
  /\ pc = "none" /\ files = [dump |-> f, tmp |-> Missing, bak |-> Missing]
  /\ phdrs = <<>> /\ renewed = <<>> /\ table = <<>> /\ new = <<>>
  /\ inserts = 0 /\ mishaps = 0 /\ added = {}

(* NewL fails without a dump.                                              *)
Construct ==
  /\ Goes("none", "ready") /\ files.dump # Missing
  /\ phdrs' = ProgramHeaders(files.dump) /\ table' = Table(files.dump) /\ new' = <<>>
  /\ UNCHANGED <<files, renewed, mishaps, history>>

InsertVariantSpecificData ==
  /\ Goes("ready", "ready") /\ inserts < MaxInserts
  /\ inserts' = inserts + 1 /\ new' = Append(new, inserts')
  /\ UNCHANGED <<files, phdrs, renewed, table, mishaps, facts, added>>

(* WriteELFUpdatesL up to the swap; the dump is closed then.               *)
WriteELFUpdates ==
  /\ Goes("ready", "written") /\ new # <<>>
  /\ LET r == Rewritten
     IN  /\ files' = [files EXCEPT !.tmp = <<Ehdr(1, Len(r.headers))>> \o r.headers \o r.data]
         /\ renewed' = r.headers /\ table' = r.table
  /\ UNCHANGED <<phdrs, new, mishaps, history>>

(* Part of the file has been written, and some of the names are known.     *)
WriteELFUpdatesFails ==
  /\ Goes("ready", "ready") /\ new # <<>> /\ Fails
  /\ files' = [files EXCEPT !.tmp = <<[k |-> "part"]>>]
  /\ \E n \in 0..Len(new) : table' = table \o [i \in 1..n |-> "VARDATA"]
  /\ UNCHANGED <<phdrs, renewed, new, history>>

(* SwapFilesL, which is left by what fails.                                *)
\* Mutant: the dump is deleted, not renamed.
BackUpNothing ==
  /\ Goes("written", "backedUp")
  /\ files' = [files EXCEPT !.dump = Missing]
  /\ UNCHANGED <<editor, mishaps, history>>

BackUp ==
  /\ Goes("written", "backedUp")
  /\ files' = [files EXCEPT !.dump = Missing, !.bak = files.dump]
  /\ UNCHANGED <<editor, mishaps, history>>

Move ==
  /\ Goes("backedUp", "moved")
  /\ files' = [files EXCEPT !.dump = files.tmp, !.tmp = Missing]
  /\ added' = added \cup ToSet(new)
  /\ UNCHANGED <<editor, mishaps, inserts, facts>>

(* The original file is restored, if this does not fail, too.              *)
MoveFails ==
  /\ Goes("backedUp", "broken") /\ Fails
  /\ files' \in {files, [files EXCEPT !.dump = files.bak, !.bak = Missing]}
  /\ UNCHANGED <<editor, history>>

DeleteBackUp ==
  /\ Goes("moved", "swapped")
  /\ files' = [files EXCEPT !.bak = Missing]
  /\ UNCHANGED <<editor, mishaps, history>>

(* The first call of the swap fails, the last one, or the file cannot be   *)
(* opened again.                                                           *)
SwapFails ==
  /\ pc \in {"written", "moved", "swapped"} /\ pc' = "broken" /\ Fails
  /\ UNCHANGED <<files, editor, history>>

Reopen ==
  /\ Goes("swapped", "ready")
  /\ new' = <<>> /\ phdrs' = renewed
  /\ UNCHANGED <<files, renewed, table, mishaps, history>>

Gone == phdrs' = <<>> /\ renewed' = <<>> /\ table' = <<>> /\ new' = <<>>

Delete ==
  /\ pc \in {"ready", "broken"} /\ pc' = "none" /\ Gone
  /\ UNCHANGED <<files, mishaps, history>>

ProcessEnds ==
  /\ pc # "none" /\ pc' = "none" /\ Gone /\ Fails
  /\ UNCHANGED <<files, history>>

Next ==
  \/ Construct \/ InsertVariantSpecificData \/ WriteELFUpdates \/ WriteELFUpdatesFails
  \/ BackUp \/ Move \/ MoveFails \/ DeleteBackUp \/ SwapFails \/ Reopen \/ Delete
  \/ ProcessEnds

-------------------------------------------------------------------------------
(* What the editor can carry over: not the trace and the ROM note, which   *)
(* their descriptor does not describe completely, nor a segment of the     *)
(* first formatter that could not be read and points to nothing.           *)
Described(f, h) ==
  /\ IsNote(f, h) => NoteOf(f, h).type \notin {"trace", "rom"}
  /\ h.type = "load" /\ h.offset = 0 => h.filesz = 0

Kept(f) == FactsOf(f, {h \in Headers(f) : Described(f, h)})

InsertedFacts ==
  IF added = {} THEN {}
  ELSE {[k |-> "note", type |-> "var", name |-> "VARDATA"]} \cup {Inserted(n) : n \in added}

(* Whenever there is a dump, a reader finds in it what was there before,   *)
(* at whatever places it stands now, and the data that have been added;    *)
(* and whatever fails and wherever the process ends, the dump or its       *)
(* backup holds what was there before (WriteELFUpdatesL, SwapFilesL).      *)
Edited ==
  IF files.dump # Missing THEN Kept(files.dump) = facts \cup InsertedFacts
  ELSE files.bak # Missing /\ facts \subseteq Kept(files.bak)
===============================================================================
