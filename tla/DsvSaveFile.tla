----------------------------- MODULE DsvSaveFile -----------------------------
(***************************************************************************)
(* The save file as characters: var_save appends "name=value;" for each    *)
(* entry to be saved, var_restore finds its way through them with the      *)
(* positions of '=' and ';' (dsv_server/src/dsv_var.cpp).  A name is one   *)
(* character; an entry's value is its text.  The history `last' keeps what *)
(* the file was made to say, whether the parser can read it or not.        *)
(***************************************************************************)
EXTENDS Integers, Sequences, FiniteSets, SequencesExt

CONSTANTS Names,      \* names of system variables
          Kept,       \* those created with the SAVE flag
          Contents,   \* the texts clients give as values
          MaxLen,     \* characters of a value that fit value_buf
          MaxText,    \* bound: characters in the file
          MaxPipes,   \* the pipes that exhaust the descriptors of the server
          NoValue     \* no entry, no record

\* A restore never needs more than MaxText.
ASSUME FileAssumption ==
  /\ IsFiniteSet(Names) /\ Kept \subseteq Names
  /\ MaxLen \in Nat /\ MaxText \in Nat /\ MaxPipes \in Nat \ {0}
  /\ MaxText >= Cardinality(Kept) * (MaxLen + 3)
  /\ {"=", ";"} \cap Names = {}
  /\ LET Chars == Names \cup {"=", ";"} \cup UNION {Range(v) : v \in Contents}
     IN  Contents \subseteq Seq(Chars) /\ NoValue \notin Seq(Chars)

VARIABLES text,    \* the file
          exists,  \* whether there is one
          tab,     \* per name: its entry; the history `wrote' says that it was
                   \* set since it was created or restored from an unsound file
          pc,      \* "idle", "scan": inside var_restore, "down", or "cut":
                   \* ended in var_restore after it truncated the file
          out,     \* out_pos: where var_restore goes on, counted from 0
          pipes,   \* pipes get_proc_name has left open
          last,    \* history: per name, the value of the last record written
          sound    \* history: no record in the file is cut, no value in it has ';'

fvars == <<text, exists, tab, pc, out, pipes, last, sound>>

NoEntry == [val |-> NoValue, dirty |-> FALSE, wrote |-> FALSE]
NoTable == [n \in Names |-> NoEntry]
NoRecords == [n \in Names |-> NoValue]
Made(t) == {n \in Names : t[n].val # NoValue}

FileInit == /\ text = <<>>
            /\ exists = FALSE
            /\ tab = NoTable
            /\ pc = "idle"
            /\ out = 0
            /\ pipes = 0
            /\ last = NoRecords
            /\ sound = TRUE

-----------------------------------------------------------------------------
(* Entries.                                                                *)

Put(n, e) == /\ pc = "idle"
             /\ tab' = [tab EXCEPT ![n] = e]
             /\ UNCHANGED <<text, exists, pc, out, last, sound>>

\* var_create: the dirty byte is what the creator's memory held (DSV_Create
\* does not set it).  One default value is as good as another.
FileCreate(n, d) ==
  /\ n \notin Made(tab)
  /\ Put(n, [val |-> <<>>, dirty |-> d, wrote |-> FALSE])
  /\ UNCHANGED pipes

\* var_set.  For a tracked entry it asks `ps' for the name of the process that
\* sets it: if that has ended, get_proc_name returns without closing its pipe.
FileSet(n, v, ended) ==
  /\ n \in Made(tab)
  /\ Put(n, [val |-> v, dirty |-> TRUE, wrote |-> TRUE])
  /\ pipes' = IF ended /\ pipes < MaxPipes THEN pipes + 1 ELSE pipes

-----------------------------------------------------------------------------
(* var_save.                                                               *)

\* The file needs a descriptor.
CanOpen == pipes < MaxPipes

\* DSV_Value2Str cuts what does not fit.
Cut(v) == SubSeq(v, 1, IF Len(v) < MaxLen THEN Len(v) ELSE MaxLen)
Record(n) == <<n, "=">> \o Cut(tab[n].val) \o <<";">>

Unsaved == {n \in Kept \cap Made(tab) : tab[n].dirty}
Orders == SetToSeqs(Unsaved)
Pass(ord) == FlattenSeq([i \in DOMAIN ord |-> Record(ord[i])])

Clean == [n \in Names |-> IF n \in Unsaved THEN [tab[n] EXCEPT !.dirty = FALSE] ELSE tab[n]]
Noted(l, S) == [n \in Names |-> IF n \in S THEN Cut(tab[n].val) ELSE l[n]]
Plain(S) == \A n \in S : ";" \notin Range(Cut(tab[n].val))

\* The text b with last records l gets the records of a pass.
Append2File(b, l, ok) ==
  /\ \E ord \in Orders : text' = b \o Pass(ord) /\ Len(text') \in 0..MaxText
  /\ exists' = TRUE
  /\ last' = Noted(l, Unsaved)
  /\ sound' = (ok /\ Plain(Unsaved))

\* The process is killed after k records and j characters of the next.
AppendCut(b, l, ok) ==
  \E ord \in Orders : \E k \in 0..Len(ord) :
    LET done == SubSeq(ord, 1, k)
        next == IF k = Len(ord) THEN <<>> ELSE Record(ord[k + 1])
    IN \E j \in {0} \cup 1..Len(next) - 1 :
         /\ text' = b \o Pass(done) \o SubSeq(next, 1, j)
         /\ Len(text') \in 0..MaxText
         /\ last' = Noted(l, Range(done))
         /\ sound' = (ok /\ Plain(Range(done)) /\ j = 0)
         /\ exists' = TRUE

FileSave == /\ pc = "idle" /\ CanOpen
            /\ Append2File(text, last, sound)
            /\ tab' = Clean
            /\ UNCHANGED <<pc, out, pipes>>

\* Nothing is done without the file.  A bug's form: the marks are cleared.
FileSaveFailsMarked == /\ pc = "idle" /\ ~CanOpen
                       /\ tab' = Clean
                       /\ UNCHANGED <<text, exists, pc, out, pipes, last, sound>>
FileSaveFails == /\ pc = "idle" /\ ~CanOpen
                 /\ UNCHANGED fvars

-----------------------------------------------------------------------------
(* var_restore.                                                            *)

\* std::string: the positions are int, npos becomes -1, and a negative count
\* is a size_t beyond the end: it means the rest.
Find(c, p) == LET hits == {i \in p..Len(text) - 1 : text[i + 1] = c}
              IN IF hits = {} THEN -1 ELSE Min(hits)
Substr(p, k) == SubSeq(text, p + 1, IF k < 0 THEN Len(text) ELSE p + k)

\* A bug's form: each round looks for the ';' from the start of the file.
InPos == Find("=", out)
SemiPosFirst == Find(";", 0)
SemiPos == Find(";", out)
RecordName == Substr(out, InPos - out)

\* Bugs' forms: the value with its '='; the ';' not skipped.
RecordValueFromSign == Substr(InPos, SemiPos - InPos)
RecordValue == Substr(InPos + 1, SemiPos - (InPos + 1))
SkippedNot == IF SemiPos = -1 THEN 0 ELSE SemiPos
Skipped == SemiPos + 1

FileRestore ==
  /\ pc = "idle" /\ exists /\ CanOpen
  /\ pc' = "scan"
  /\ out' = 0
  /\ UNCHANGED <<text, exists, tab, pipes, last, sound>>

\* One round of the loop.
ScanRecord ==
  /\ pc = "scan" /\ out < Len(text)
  /\ tab' = [n \in Names |-> IF n \in Made(tab) /\ RecordName = <<n>>
                             THEN [tab[n] EXCEPT !.val = RecordValue, !.dirty = TRUE]
                             ELSE tab[n]]
  /\ out' = Skipped
  /\ UNCHANGED <<text, exists, pc, pipes, last, sound>>

Scanned == pc = "scan" /\ out >= Len(text)

\* The file is truncated and saved again.
RestoreDone == /\ Scanned
               /\ Append2File(<<>>, NoRecords, TRUE)
               /\ tab' = [n \in Names |-> [Clean[n] EXCEPT !.wrote = @ /\ sound]]
               /\ pc' = "idle"
               /\ UNCHANGED <<out, pipes>>

-----------------------------------------------------------------------------
(* The life of the process.                                                *)

\* The process ends: while it waits or reads the file; while it saves, which
\* it does last when a signal ends it; or while it rewrites the file.
FileKill ==
  /\ pc \in {"idle", "scan"}
  /\ \/ pc' = "down" /\ UNCHANGED <<text, exists, last, sound>>
     \/ pc' = "down" /\ pc = "idle" /\ CanOpen /\ AppendCut(text, last, sound)
     \/ pc' = "cut" /\ Scanned /\ AppendCut(<<>>, NoRecords, TRUE)
  /\ tab' = NoTable
  /\ out' = 0
  /\ pipes' = 0

FileStart == /\ pc \in {"down", "cut"}
             /\ pc' = "idle"
             /\ UNCHANGED <<text, exists, tab, out, pipes, last, sound>>

FileNext == \/ \E n \in Names, d \in BOOLEAN : FileCreate(n, d)
            \/ \E n \in Names, v \in Contents, ended \in BOOLEAN : FileSet(n, v, ended)
            \/ FileSave \/ FileSaveFails \/ FileRestore \/ ScanRecord \/ RestoreDone
            \/ FileKill \/ FileStart

\* var_restore is one call of a running process.
FileFairness == WF_fvars(ScanRecord) /\ WF_fvars(RestoreDone)

FileSpec == FileInit /\ [][FileNext]_fvars /\ FileFairness

-----------------------------------------------------------------------------
(* Properties.                                                             *)

\* An entry that was written and is not dirty is what the file was made to
\* say: a save that found no descriptor for the file leaves the marks
\* (var_save's early return), so that a later one can make up for it, and a
\* restore brings every entry back to the file it rewrites.  A restore from an
\* unsound file may lose records, those of clean entries too.
CleanInFile ==
  \A n \in Kept \cap Made(tab) :
    tab[n].wrote /\ ~tab[n].dirty => last[n] = Cut(tab[n].val)

\* Of a file with no cut record and no value with ';' a restore brings back
\* the last value of every name, and touches no other entry, whatever was
\* cut, repaired and written over before.
RestoredIsLast ==
  [][pc = "scan" /\ sound =>
       /\ RestoreDone => \A n \in Made(tab) : last[n] # NoValue => tab[n].val = last[n]
       /\ pc' = "scan" => \A n \in Names : last[n] = NoValue => tab'[n] = tab[n]]_fvars

\* Every record that was begun has its end.
Whole == text # <<>> => Last(text) = ";"

\* In a file without a torn record each round of the loop moves on.
ScanAdvances == [][pc = "scan" /\ pc' = "scan" /\ Whole => out' > out]_fvars

\* So a restore ends, whatever the values and the records left over by names
\* that are not created.
RestoreEndsWhole == (pc = "scan" /\ Whole) ~> (pc # "scan")

\* "restore dsv value from persistent file" (dsv.h:241): a restore ends.
RestoreEnds == (pc = "scan") ~> (pc # "scan")
=============================================================================
