------------------------------ MODULE DsvInput ------------------------------
(***************************************************************************)
(* How a client fills the dsv_info_t it sends to the server: `json' from   *)
(* the elements of a file, which share one record (dsv_ParseJsonStr), and  *)
(* `sv' from its command line, option after option (ProcessOptions) or as  *)
(* the text of a set (DSV_SetThruStr).                                     *)
(*                                                                         *)
(* A pointer of the record is a cell: null, a block of text or of ints     *)
(* with its content, or freed, when it still points to a block given back. *)
(* The value is a union, so its cell may hold a number as well.  A text is *)
(* its sequence of comma separated numbers; NUM is the widest number.      *)
(***************************************************************************)
EXTENDS Integers, Sequences, FiniteSets

CONSTANTS Texts,     \* what a file or a command line may give as a value
          Words,     \* what it may give as a name or a description
          Numbers,   \* what a file may give as a number; 0 stands for booleans, too
          FlagSets   \* what it may give as flags

Types == {"STR", "ARR", "NUM", "INV"}

\* A file or a command line gives a field as a text, as a number, or not.  A
\* boolean of a file, true or false, is read as the number 0: the code takes its
\* valuedouble, which cJSON sets for numbers only.
None == [kind |-> "none", of |-> <<>>]
Given(t) == [kind |-> "text", of |-> t]
AsText(S) == {None} \cup {Given(t) : t \in S}
AsNumber(S) == {[kind |-> "number", of |-> <<x>>] : x \in S}

Elements == [name: AsText(Words), desc: AsText(Words), type: Types \cup {"none"},
             value: AsText(Texts) \cup AsNumber(Numbers), flags: FlagSets]

ASSUME InputAssumption ==
  /\ Texts \subseteq Seq(Nat)
  /\ Words \subseteq Texts
  /\ Numbers \subseteq Nat /\ 0 \in Numbers
  /\ \A F \in FlagSets : F \subseteq {"SAVE", "TRACK"}

Cells == [kind: {"null", "text", "ints", "number", "freed"}, of: Seq(Nat)]
Null == [kind |-> "null", of |-> <<>>]
Text(t) == [kind |-> "text", of |-> t]
Ints(t) == [kind |-> "ints", of |-> t]
Number(x) == IF x = 0 THEN Null ELSE [kind |-> "number", of |-> <<x>>]
FreedCell == [kind |-> "freed", of |-> <<>>]

\* dsv_info_t
Records == [name: Cells, desc: Cells, type: Types, len: Int, val: Cells,
            flags: SUBSET {"SAVE", "TRACK"}]
Empty == [name |-> Null, desc |-> Null, type |-> "INV", len |-> 0, val |-> Null, flags |-> {}]

VARIABLES way,     \* "json" or "sv"
          fate,    \* "run", "done", "ub": ended by undefined behaviour, or
                   \* "abort": ended by an assertion
          dsv,     \* the record
          sent,    \* the message of the last element or command, if it sent one
          el,      \* history: the last element, or the options so far
          ready,   \* history: sv's last -v came after its last -y
          given    \* history: the fields any element gave, and the flags of
                   \* those that were sent

ivars == <<way, fate, dsv, sent, el, ready, given>>

NoMessage == [op |-> "none", dsv |-> Empty]
\* An element, or sv's options so far.
Asked == [name: AsText(Words), desc: AsText(Words), type: Types \cup {"none"},
          value: AsText(Texts) \cup AsNumber(Numbers), flags: FlagSets \cup {{}}]
NoElement == [name |-> None, desc |-> None, type |-> "none", value |-> None, flags |-> {}]
Nothing == [fields |-> {}, flags |-> {}]

InputInit == /\ way \in {"json", "sv"}
             /\ fate = "run"
             /\ dsv = Empty
             /\ sent = NoMessage
             /\ el = NoElement
             /\ ready = FALSE
             /\ given = Nothing

-----------------------------------------------------------------------------
(* The conversions.                                                        *)

Pointed(y) == y \in {"STR", "ARR"}

DSV_GetSizeFromType(y) == IF y = "ARR" THEN 0 ELSE IF y = "INV" THEN -1 ELSE 1

First(t) == IF t = <<>> THEN 0 ELSE t[1]

\* What a text is as a value of type y.
ReadAs(y, t) == IF y = "STR" THEN Text(t) ELSE IF y = "ARR" THEN Ints(t) ELSE Number(First(t))

\* DSV_Str2Value: the type the record has by now decides.  A bug's form: the
\* length stays.
Str2ValueKeepsLen(r, t) == IF r.type = "INV" THEN r ELSE [r EXCEPT !.val = ReadAs(r.type, t)]
Str2Value(r, t) ==
  IF r.type = "INV" THEN r
  ELSE [r EXCEPT !.val = ReadAs(r.type, t),
                 !.len = IF r.type = "STR" THEN Len(t) + 1
                         ELSE IF r.type = "ARR" THEN Len(t) ELSE @]

\* DSV_Str2Array asserts in memdup that its vector has a buffer: of an empty
\* text it has none.
Aborts(y, t) == y = "ARR" /\ t = <<>>

\* The text a pointer gets when field f is given.
Filled(p, f) == IF f = None THEN p ELSE Text(f.of)
TextAborts(r, f) == f.kind = "text" /\ Aborts(r.type, f.of)

-----------------------------------------------------------------------------
(* DSV_Create, and what its callers free after it.                         *)

\* DSV_Create copies len bytes from the pointer, if there is one.
SendsBytes(r) == Pointed(r.type) /\ r.val # Null /\ r.len # 0
Unreadable(r) == \/ r.name.kind = "freed"
                 \/ r.desc.kind = "freed"
                 \/ SendsBytes(r) /\ r.val.kind \notin {"text", "ints"}

\* The frees: of a pointer that was freed before, or of a number, undefined.
Unfreeable(r) == \/ r.name.kind = "freed"
                 \/ r.desc.kind = "freed"
                 \/ Pointed(r.type) /\ r.val.kind \in {"freed", "number"}
Gone(p) == IF p = Null THEN Null ELSE FreedCell
Freed(r) == [r EXCEPT !.name = Gone(@), !.desc = Gone(@),
                      !.val = IF Pointed(r.type) THEN Gone(@) ELSE @]

\* The value without bytes to send: the server takes what its buffer holds.
\* Names and descriptions are shorter than the 128 characters strncpy copies.
Message(r) == [op |-> "CREATE", dsv |-> IF Pointed(r.type) /\ ~SendsBytes(r)
                                        THEN [r EXCEPT !.val = Null] ELSE r]

\* A bug's form: the record is freed before it is sent.
CreateFreedFirst(r) ==
  /\ sent' = Message(Freed(r))
  /\ dsv' = Freed(r)
  /\ fate' = IF Unfreeable(r) \/ Unreadable(Freed(r)) THEN "ub" ELSE "run"
Create(r) ==
  /\ sent' = IF Unreadable(r) THEN NoMessage ELSE Message(r)
  /\ dsv' = Freed(r)
  /\ fate' = IF Unreadable(r) \/ Unfreeable(r) THEN "ub" ELSE "run"

-----------------------------------------------------------------------------
(* The elements of a JSON file.                                            *)

Typed(r, y) == IF y = "none" THEN r
               ELSE [r EXCEPT !.type = y, !.len = DSV_GetSizeFromType(y)]

\* Name, description and type, in this order; the type before the value.  A
\* bug's form: the flags before the value.
BegunFlagged(r, e) ==
  Typed([r EXCEPT !.name = Filled(@, e.name), !.desc = Filled(@, e.desc),
                  !.flags = @ \cup e.flags], e.type)
Begun(r, e) == Typed([r EXCEPT !.name = Filled(@, e.name), !.desc = Filled(@, e.desc)], e.type)

Valued(r, e) ==
  IF e.value.kind = "text" THEN Str2Value(r, e.value.of)
  ELSE IF e.value.kind = "number" THEN [r EXCEPT !.val = Number(e.value.of[1])]
  ELSE r

\* DSV_Double2Value knows numbers only.  A bug's form: it takes any type.
MistypedNever(r, e) == FALSE
Mistyped(r, e) == e.value.kind = "number" /\ r.type # "NUM"

Flagged(r, e) == [r EXCEPT !.flags = @ \cup e.flags]

Gives(e) == {f \in {"name", "desc", "value"} : e[f] # None}

Taken(e, F) == /\ way = "json" /\ fate = "run"
               /\ el' = e
               /\ given' = [fields |-> given.fields \cup Gives(e), flags |-> given.flags \cup F]
               /\ UNCHANGED <<way, ready>>

\* An element whose number does not match its type is left out: the loop goes
\* on, and what was filled stays in the record.  The log of it prints the name,
\* unless the log mask hides it: one that was freed is undefined.
SkipElement(e) ==
  /\ Taken(e, {})
  /\ Mistyped(Begun(dsv, e), e)
  /\ dsv' = Begun(dsv, e)
  /\ sent' = NoMessage
  /\ \/ UNCHANGED fate
     \/ dsv'.name.kind = "freed" /\ fate' = "ub"

CreateElement(e) ==
  /\ Taken(e, e.flags)
  /\ LET r == Begun(dsv, e)
     IN /\ ~Mistyped(r, e) /\ ~TextAborts(r, e.value)
        /\ Create(Flagged(Valued(r, e), e))

\* The rest of the file is lost with the client.
AbortElement(e) ==
  /\ Taken(e, {})
  /\ TextAborts(Begun(dsv, e), e.value)
  /\ sent' = NoMessage
  /\ fate' = "abort"
  /\ UNCHANGED dsv

-----------------------------------------------------------------------------
(* The command line of sv.                                                 *)

Parsing == way = "sv" /\ fate = "run"

Option(r, o, ok) == /\ Parsing
                    /\ dsv' = r
                    /\ el' = o
                    /\ ready' = ok
                    /\ UNCHANGED <<way, fate, sent, given>>

\* -y leaves the length alone.
OptionType(y) == Option([dsv EXCEPT !.type = y], [el EXCEPT !.type = y], FALSE)
OptionDesc(w) == Option([dsv EXCEPT !.desc = Text(w)], [el EXCEPT !.desc = Given(w)], ready)
OptionValue(t) == /\ ~Aborts(dsv.type, t)
                  /\ Option(Str2Value(dsv, t), [el EXCEPT !.value = Given(t)], TRUE)

\* A text that aborts sv, as a default value or as the value of a set.
SvAborts(y, t) ==
  /\ Parsing
  /\ dsv.type = y \/ dsv = Empty
  /\ Aborts(y, t)
  /\ sent' = NoMessage
  /\ fate' = "abort"
  /\ UNCHANGED <<way, dsv, el, ready, given>>

\* ProcessCreate, and the frees at the end of main.
ProcessCreate(w) ==
  /\ Parsing
  /\ LET r == [dsv EXCEPT !.name = Text(w)]
     IN /\ sent' = IF Unreadable(r) THEN NoMessage ELSE Message(r)
        /\ dsv' = Freed(r)
        /\ fate' = IF Unreadable(r) \/ Unfreeable(r) THEN "ub" ELSE "done"
  /\ el' = [el EXCEPT !.name = Given(w)]
  /\ UNCHANGED <<way, ready, given>>

\* What DSV_SetThruStr sends for text t to a variable of type y: of a string
\* the address of the text, since its pointer to constant characters takes
\* the DSV_Set for numbers.
Address == [kind |-> "freed", of |-> <<>>]
SetValue(y, t) == IF y = "STR" THEN Address ELSE ReadAs(y, t)

DSV_SetThruStr(y, t) ==
  /\ Parsing /\ dsv = Empty
  /\ y # "INV" /\ ~Aborts(y, t)
  /\ sent' = [op |-> "SET", dsv |-> [Empty EXCEPT !.type = y, !.val = SetValue(y, t)]]
  /\ el' = [NoElement EXCEPT !.type = y, !.value = Given(t)]
  /\ fate' = "done"
  /\ UNCHANGED <<way, dsv, ready, given>>

-----------------------------------------------------------------------------
Json == \E e \in Elements : SkipElement(e) \/ CreateElement(e) \/ AbortElement(e)

Sv == \/ \E y \in Types : OptionType(y)
      \/ \E y \in Types, t \in Texts : DSV_SetThruStr(y, t) \/ SvAborts(y, t)
      \/ \E t \in Texts : OptionValue(t)
      \/ \E w \in Words : OptionDesc(w) \/ ProcessCreate(w)

InputNext == Json \/ Sv

InputSpec == InputInit /\ [][InputNext]_ivars

-----------------------------------------------------------------------------
(* Properties.                                                             *)

InputTypeOK ==
  /\ way \in {"json", "sv"}
  /\ fate \in {"run", "done", "abort", "ub"}
  /\ dsv \in Records
  /\ sent \in [op: {"none", "CREATE", "SET"}, dsv: Records]
  /\ el \in Asked
  /\ ready \in BOOLEAN
  /\ given \in [fields: SUBSET {"name", "desc", "value"}, flags: SUBSET {"SAVE", "TRACK"}]

\* Record d holds text t as a value of its type.
Holds(d, t) == /\ d.val = ReadAs(d.type, t)
               /\ d.type = "STR" => d.len = Len(t) + 1
               /\ d.type = "ARR" => t # <<>> /\ d.len = Len(t)

\* Between two elements a pointer is not null only if an element gave it, and
\* the flags are those of the elements sent.
JsonInv ==
  way = "json" /\ fate = "run" =>
    /\ dsv.name # Null => "name" \in given.fields
    /\ dsv.desc # Null => "desc" \in given.fields
    /\ dsv.val # Null => "value" \in given.fields
    /\ dsv.flags \subseteq given.flags

\* Between two options nothing is stale, and the record holds the last value
\* if it came after the last type.
SvInv ==
  way = "sv" /\ fate = "run" =>
    /\ sent = NoMessage
    /\ dsv.name = Null /\ dsv.desc.kind # "freed" /\ dsv.val.kind # "freed"
    /\ dsv.type = IF el.type = "none" THEN "INV" ELSE el.type
    /\ el.value.kind # "number"
    /\ el.value = None => dsv.val = Null /\ ~ready
    /\ ready /\ dsv.type # "INV" => Holds(dsv, el.value.of)

\* The inductive invariant.
InputInv == InputTypeOK /\ JsonInv /\ SvInv

\* Element or command line e gives a value that fits the type it gives.
Fitting(e) == /\ e.type \in {"STR", "ARR", "NUM"}
              /\ e.value # None
              /\ e.value.kind = "number" => e.type = "NUM"
              /\ ~Aborts(e.type, e.value.of)

\* Message d carries the type and the value of e.
Carries(d, e) == d.type = e.type /\ Holds(d, e.value.of)

\* Whatever the elements before left in the record they share, one that gives
\* its name, description, type and a fitting value is created as written
\* (dsv_ParseJsonStr), a boolean as the 0 it is read as.
ElementAsWritten ==
  /\ way = "json"
  /\ el.name # None /\ el.desc # None /\ Fitting(el)
  => /\ fate = "run"
     /\ sent.op = "CREATE"
     /\ sent.dsv.name = Text(el.name.of) /\ sent.dsv.desc = Text(el.desc.of)
     /\ Carries(sent.dsv, el)

\* A created element has the flags it asks for, and no others than those of
\* the elements sent so far, the ones left out not among them (flags are added
\* to the record, libdsv.cpp:347).
FlagsFromFile ==
  way = "json" /\ sent.op = "CREATE" =>
    el.flags \subseteq sent.dsv.flags /\ sent.dsv.flags \subseteq given.flags

\* Only an omission ends a client in undefined behaviour: an element without
\* a name, description or value that one before it had, or sv's type given
\* after its value.  Values that do not fit their type, fields given twice
\* and unknown types do not.
UndefinedOnlyByGap ==
  fate = "ub" => IF way = "json" THEN given.fields \ Gives(el) # {}
                 ELSE el.value # None /\ ~ready

\* sv creates what its options say if the value comes after the type,
\* whatever other options come in whatever order and however often.
OptionsAsGiven ==
  way = "sv" /\ sent.op = "CREATE" /\ ready /\ Fitting(el) => Carries(sent.dsv, el)
=============================================================================
