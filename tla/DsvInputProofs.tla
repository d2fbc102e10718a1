--------------------------- MODULE DsvInputProofs ---------------------------
(* Theorems about DsvInput: what a client sends is what it was given,         *)
(* whatever its record held before.                                           *)
EXTENDS DsvInput, SequenceTheorems, TLAPS

LEMMA ConversionType ==
  ASSUME NEW t \in Seq(Nat)
  PROVE  /\ Len(t) \in Nat
         /\ Text(t) \in Cells /\ Ints(t) \in Cells
         /\ First(t) \in Nat
         /\ \A x \in Nat : Number(x) \in Cells
         /\ \A y \in Types : ReadAs(y, t) \in Cells
<1>1. Len(t) \in Nat /\ (t # <<>> => t[1] \in Nat)
  BY EmptySeq, LenProperties, ElementOfSeq
<1>2. Text(t) \in Cells /\ Ints(t) \in Cells
  BY DEF Text, Ints, Cells
<1>3. First(t) \in Nat
  BY <1>1 DEF First
<1>4. \A x \in Nat : Number(x) \in Cells
  <2>1. <<>> \in Seq(Nat) /\ \A x \in Nat : <<x>> \in Seq(Nat)
    OBVIOUS
  <2> QED
    BY <2>1 DEF Number, Null, Cells
<1> QED
  BY <1>1, <1>2, <1>3, <1>4 DEF ReadAs

LEMMA NullType == Null \in Cells /\ FreedCell \in Cells /\ Empty \in Records
<1>1. <<>> \in Seq(Nat)
  OBVIOUS
<1> QED
  BY <1>1 DEF Null, FreedCell, Empty, Cells, Records, Types

(* A text read as a value of a pointed type is a block.                       *)
LEMMA PointedText ==
  ASSUME NEW y \in Types, Pointed(y), NEW t
  PROVE  ReadAs(y, t).kind \in {"text", "ints"} /\ ReadAs(y, t) # Null
BY DEF Pointed, ReadAs, Text, Ints, Null, Types

(* What an element and an option leave in a record.                           *)
LEMMA FilledType ==
  ASSUME NEW p \in Cells, NEW f \in AsText(Words)
  PROVE  /\ Filled(p, f) \in Cells
         /\ f # None => Filled(p, f) = Text(f.of)
         /\ f = None => Filled(p, f) = p
<1>1. f # None => f.of \in Seq(Nat)
  BY InputAssumption DEF AsText, Given
<1> QED
  BY <1>1, ConversionType DEF Filled

LEMMA Str2ValueFacts ==
  ASSUME NEW r \in Records, NEW t \in Seq(Nat)
  PROVE  LET v == Str2Value(r, t)
         IN /\ v \in Records
            /\ v.name = r.name /\ v.desc = r.desc /\ v.type = r.type /\ v.flags = r.flags
            /\ r.type = "INV" => v = r
            /\ r.type # "INV" /\ ~Aborts(r.type, t) => Holds(v, t)
<1> DEFINE v == Str2Value(r, t)
<1>1. CASE r.type = "INV"
  BY <1>1 DEF Str2Value
<1>2. CASE r.type # "INV"
  <2> DEFINE n == IF r.type = "STR" THEN Len(t) + 1 ELSE IF r.type = "ARR" THEN Len(t) ELSE r.len
  <2>1. v = [r EXCEPT !.val = ReadAs(r.type, t), !.len = n]
    BY <1>2 DEF Str2Value
  <2>2. n \in Int /\ ReadAs(r.type, t) \in Cells
    BY ConversionType DEF Records
  <2> HIDE DEF v, n
  <2>3. v \in Records /\ v.val = ReadAs(r.type, t) /\ v.len = n
        /\ v.name = r.name /\ v.desc = r.desc /\ v.type = r.type /\ v.flags = r.flags
    BY <2>1, <2>2 DEF Records
  <2>4. ~Aborts(r.type, t) => Holds(v, t)
    BY <2>3 DEF Holds, Aborts, n
  <2> QED
    BY <1>2, <2>3, <2>4 DEF v
<1> QED
  BY <1>1, <1>2

(* A record as an element finds it and leaves it before its value.            *)
LEMMA BegunFacts ==
  ASSUME NEW r \in Records, NEW e \in Elements
  PROVE  LET b == Begun(r, e)
         IN /\ b \in Records
            /\ b.name = Filled(r.name, e.name) /\ b.desc = Filled(r.desc, e.desc)
            /\ b.val = r.val /\ b.flags = r.flags
            /\ b.type = IF e.type = "none" THEN r.type ELSE e.type
<1> DEFINE a == [r EXCEPT !.name = Filled(r.name, e.name), !.desc = Filled(r.desc, e.desc)]
<1>1. Filled(r.name, e.name) \in Cells /\ Filled(r.desc, e.desc) \in Cells
  BY FilledType DEF Records, Elements
<1>2. /\ a \in Records
      /\ a.name = Filled(r.name, e.name) /\ a.desc = Filled(r.desc, e.desc)
      /\ a.val = r.val /\ a.flags = r.flags /\ a.type = r.type
  BY <1>1 DEF Records
<1>3. Begun(r, e) = Typed(a, e.type)
  BY DEF Begun
<1> HIDE DEF a
<1>4. CASE e.type = "none"
  BY <1>2, <1>3, <1>4 DEF Typed
<1>5. CASE e.type # "none"
  <2> DEFINE b == [a EXCEPT !.type = e.type, !.len = DSV_GetSizeFromType(e.type)]
  <2>1. e.type \in Types /\ DSV_GetSizeFromType(e.type) \in Int
    BY <1>5 DEF Elements, DSV_GetSizeFromType
  <2>2. /\ b \in Records /\ b.name = a.name /\ b.desc = a.desc
        /\ b.val = a.val /\ b.flags = a.flags /\ b.type = e.type
    BY <1>2, <2>1 DEF Records
  <2>3. Begun(r, e) = b
    BY <1>3, <1>5 DEF Typed
  <2> QED
    BY <1>2, <1>5, <2>2, <2>3
<1> QED
  BY <1>4, <1>5

LEMMA ElementTexts ==
  ASSUME NEW e \in Elements
  PROVE  /\ e.value.kind = "text" => e.value.of \in Seq(Nat)
         /\ e.value.kind = "number" => /\ e.value.of[1] \in Nat
                                       /\ e.value.of # <<>>
                                       /\ First(e.value.of) = e.value.of[1]
         /\ e.value = None \/ e.value.kind = "text" \/ e.value.kind = "number"
         /\ e.value.kind \in {"text", "number"} => e.value # None
         /\ e.flags \subseteq {"SAVE", "TRACK"}
<1>1. /\ e.value \in AsText(Texts) \cup AsNumber(Numbers)
      /\ e.flags \in FlagSets
  BY DEF Elements
<1>2. CASE e.value \in AsText(Texts)
  BY <1>1, <1>2, InputAssumption DEF AsText, Given, None
<1>3. CASE e.value \in AsNumber(Numbers)
  <2>1. PICK x \in Numbers : e.value = [kind |-> "number", of |-> <<x>>]
    BY <1>3 DEF AsNumber
  <2>2. x \in Nat /\ e.value.of = <<x>> /\ e.value.kind = "number"
    BY <2>1, InputAssumption
  <2>3. e.value.of[1] = x /\ e.value.of # <<>> /\ First(e.value.of) = x
    BY <2>2 DEF First
  <2> QED
    BY <1>1, <2>2, <2>3, InputAssumption DEF None
<1> QED
  BY <1>1, <1>2, <1>3

(* The record that an element that is neither left out nor fatal creates.     *)
LEMMA FullFacts ==
  ASSUME NEW r \in Records, NEW e \in Elements,
         ~Mistyped(Begun(r, e), e), ~TextAborts(Begun(r, e), e.value)
  PROVE  LET f == Flagged(Valued(Begun(r, e), e), e)
         IN /\ f \in Records
            /\ f.name = Filled(r.name, e.name) /\ f.desc = Filled(r.desc, e.desc)
            /\ f.type = IF e.type = "none" THEN r.type ELSE e.type
            /\ f.flags = r.flags \cup e.flags
            /\ e.value = None => f.val = r.val
            /\ e.value # None /\ f.type # "INV" => Holds(f, e.value.of)
            /\ e.value # None /\ f.type = "INV" => f.val = r.val
<1> DEFINE b == Begun(r, e)
           v == Valued(b, e)
           f == Flagged(v, e)
           Facts(w) == /\ w \in Records
                       /\ w.name = b.name /\ w.desc = b.desc /\ w.type = b.type
                       /\ w.flags = b.flags
                       /\ e.value = None => w.val = b.val
                       /\ e.value # None /\ w.type # "INV" => Holds(w, e.value.of)
                       /\ e.value # None /\ w.type = "INV" => w.val = b.val
<1>1. b \in Records
  BY BegunFacts
<1>2. Facts(v)
  <2> HIDE DEF b
  <2>1. CASE e.value.kind = "text"
    <3>1. e.value.of \in Seq(Nat) /\ v = Str2Value(b, e.value.of) /\ ~Aborts(b.type, e.value.of)
      BY <2>1, ElementTexts DEF Valued, TextAborts, b
    <3> QED
      BY <1>1, <2>1, <3>1, Str2ValueFacts, ElementTexts
  <2>2. CASE e.value.kind = "number"
    <3>1. b.type = "NUM"
      BY <2>2 DEF Mistyped, b
    <3>2. v = [b EXCEPT !.val = Number(e.value.of[1])] /\ Number(e.value.of[1]) \in Cells
      BY <2>2, ElementTexts, ConversionType, EmptySeq DEF Valued
    <3>3. /\ v \in Records /\ v.name = b.name /\ v.desc = b.desc /\ v.type = b.type
          /\ v.flags = b.flags /\ v.val = Number(e.value.of[1])
      BY <1>1, <3>2 DEF Records
    <3>4. Holds(v, e.value.of)
      BY <2>2, <3>1, <3>3, ElementTexts DEF Holds, ReadAs
    <3> QED
      BY <3>1, <3>3, <3>4, <2>2, ElementTexts
  <2>3. CASE e.value = None
    BY <1>1, <2>3 DEF Valued, None
  <2> QED
    BY <2>1, <2>2, <2>3, ElementTexts
<1>3. f = [v EXCEPT !.flags = v.flags \cup e.flags]
  BY DEF Flagged
<1>4. e.flags \subseteq {"SAVE", "TRACK"}
  BY ElementTexts
<1> HIDE DEF v
<1>5. /\ f \in Records /\ f.name = v.name /\ f.desc = v.desc /\ f.type = v.type
      /\ f.flags = v.flags \cup e.flags /\ f.val = v.val /\ f.len = v.len
  BY <1>2, <1>3, <1>4 DEF Records
<1>6. /\ b.name = Filled(r.name, e.name) /\ b.desc = Filled(r.desc, e.desc)
      /\ b.val = r.val /\ b.flags = r.flags
      /\ b.type = IF e.type = "none" THEN r.type ELSE e.type
  BY BegunFacts
<1> HIDE DEF b, f
<1>7. Holds(v, e.value.of) => Holds(f, e.value.of)
  BY <1>5 DEF Holds
<1>8. /\ f \in Records
      /\ f.name = Filled(r.name, e.name) /\ f.desc = Filled(r.desc, e.desc)
      /\ f.type = IF e.type = "none" THEN r.type ELSE e.type
      /\ f.flags = r.flags \cup e.flags
      /\ e.value = None => f.val = r.val
      /\ e.value # None /\ f.type # "INV" => Holds(f, e.value.of)
      /\ e.value # None /\ f.type = "INV" => f.val = r.val
  BY <1>2, <1>5, <1>6, <1>7
<1> QED
  BY <1>8 DEF f, v, b

LEMMA FreedFacts ==
  ASSUME NEW r \in Records
  PROVE  /\ Freed(r) \in Records
         /\ Freed(r).name = Gone(r.name) /\ Freed(r).desc = Gone(r.desc)
         /\ Freed(r).flags = r.flags /\ Freed(r).type = r.type
         /\ r.val = Null => Freed(r).val = Null
         /\ Message(r) \in [op: {"CREATE"}, dsv: Records]
         /\ Message(r).dsv.name = r.name /\ Message(r).dsv.desc = r.desc
         /\ Message(r).dsv.flags = r.flags /\ Message(r).dsv.type = r.type
         /\ Message(r).dsv.len = r.len
         /\ ~Pointed(r.type) \/ SendsBytes(r) => Message(r).dsv = r
<1>1. Gone(r.name) \in Cells /\ Gone(r.desc) \in Cells /\ Gone(r.val) \in Cells
      /\ (r.val = Null => Gone(r.val) = Null)
  BY NullType DEF Gone
<1>2. /\ Freed(r) \in Records
      /\ Freed(r).name = Gone(r.name) /\ Freed(r).desc = Gone(r.desc)
      /\ Freed(r).flags = r.flags /\ Freed(r).type = r.type
      /\ r.val = Null => Freed(r).val = Null
  BY <1>1 DEF Freed, Records
<1>3. /\ Message(r) \in [op: {"CREATE"}, dsv: Records]
      /\ Message(r).dsv.name = r.name /\ Message(r).dsv.desc = r.desc
      /\ Message(r).dsv.flags = r.flags /\ Message(r).dsv.type = r.type
      /\ Message(r).dsv.len = r.len
      /\ ~Pointed(r.type) \/ SendsBytes(r) => Message(r).dsv = r
  BY NullType DEF Message, Records
<1> QED
  BY <1>2, <1>3

(* A value that a record of a pointed type holds is sent, and may be freed.   *)
LEMMA HeldIsSent ==
  ASSUME NEW r \in Records, NEW t \in Seq(Nat), Pointed(r.type), Holds(r, t)
  PROVE  SendsBytes(r) /\ r.val.kind \in {"text", "ints"}
<1>1. Len(t) \in Nat /\ (t # <<>> => Len(t) # 0)
  BY LenProperties, EmptySeq
<1>2. r.val # Null /\ r.val.kind \in {"text", "ints"}
  BY PointedText DEF Holds, Records
<1>3. r.len # 0
  BY <1>1 DEF Holds, Pointed
<1> QED
  BY <1>2, <1>3 DEF SendsBytes

-----------------------------------------------------------------------------
(* The steps keep the invariant, and each property follows from it.           *)
Props == ElementAsWritten /\ FlagsFromFile /\ UndefinedOnlyByGap /\ OptionsAsGiven

LEMMA TakenType ==
  ASSUME InputTypeOK, NEW e \in Elements, NEW F \in SUBSET {"SAVE", "TRACK"}, Taken(e, F)
  PROVE  /\ way = "json" /\ fate = "run" /\ way' = way /\ el' = e
         /\ el' \in Asked
         /\ ready' \in BOOLEAN
         /\ given' \in [fields: SUBSET {"name", "desc", "value"}, flags: SUBSET {"SAVE", "TRACK"}]
         /\ given'.fields = given.fields \cup Gives(e)
         /\ given'.flags = given.flags \cup F
<1>1. Gives(e) \subseteq {"name", "desc", "value"}
  BY DEF Gives
<1>2. given' = [fields |-> given.fields \cup Gives(e), flags |-> given.flags \cup F]
  BY DEF Taken
<1>3. /\ given' \in [fields: SUBSET {"name", "desc", "value"}, flags: SUBSET {"SAVE", "TRACK"}]
      /\ given'.fields = given.fields \cup Gives(e)
      /\ given'.flags = given.flags \cup F
  BY <1>1, <1>2 DEF InputTypeOK
<1>4. el' = e /\ e \in Asked
  BY DEF Taken, Elements, Asked
<1> QED
  BY <1>3, <1>4 DEF Taken, InputTypeOK

LEMMA SkipStep ==
  ASSUME InputInv, NEW e \in Elements, SkipElement(e)
  PROVE  InputInv' /\ Props'
<1> DEFINE b == Begun(dsv, e)
<1>1. /\ dsv \in Records /\ sent' = NoMessage /\ dsv' = b
      /\ (fate' = fate \/ (fate' = "ub" /\ b.name.kind = "freed"))
  BY DEF SkipElement, InputInv, InputTypeOK
<1>2. /\ way = "json" /\ fate = "run" /\ way' = way /\ el' = e
      /\ given'.fields = given.fields \cup Gives(e) /\ given'.flags = given.flags
  <2>1. Taken(e, {}) /\ InputTypeOK
    BY DEF SkipElement, InputInv
  <2>2. /\ way = "json" /\ fate = "run" /\ way' = way /\ el' = e
        /\ given'.fields = given.fields \cup Gives(e) /\ given'.flags = given.flags \cup {}
    BY <2>1, TakenType
  <2> QED
    BY <2>2
<1>3. /\ b \in Records
      /\ b.name = Filled(dsv.name, e.name) /\ b.desc = Filled(dsv.desc, e.desc)
      /\ b.val = dsv.val /\ b.flags = dsv.flags
      /\ b.type = IF e.type = "none" THEN dsv.type ELSE e.type
  BY <1>1, BegunFacts
<1>4. e.value.kind = "number" /\ b.type # "NUM"
  BY DEF SkipElement, Mistyped
<1> HIDE DEF b
<1>5. InputTypeOK'
  <2>1. NoMessage \in [op: {"none", "CREATE", "SET"}, dsv: Records]
    BY NullType DEF NoMessage
  <2> QED
    BY <1>1, <1>2, <1>3, <2>1, TakenType DEF InputTypeOK, InputInv, SkipElement
<1>6. JsonInv'
  <2>1. dsv'.name # Null => dsv.name # Null \/ "name" \in Gives(e)
    BY <1>1, <1>3 DEF Filled, Gives
  <2>2. dsv'.desc # Null => dsv.desc # Null \/ "desc" \in Gives(e)
    BY <1>1, <1>3 DEF Filled, Gives
  <2> QED
    BY <1>1, <1>2, <1>3, <2>1, <2>2 DEF JsonInv, InputInv
<1>7. SvInv'
  BY <1>2 DEF SvInv
<1>8. ~Fitting(el')
  <2>1. e.type \in Types \cup {"none"} /\ dsv.type \in Types
    BY <1>1 DEF Elements, Records
  <2> QED
    BY <1>2, <1>3, <1>4, <2>1 DEF Fitting
<1>9. UndefinedOnlyByGap'
  <2> SUFFICES ASSUME fate' = "ub"
               PROVE  given'.fields \ Gives(el') # {}
    BY <1>2 DEF UndefinedOnlyByGap
  <2>1. b.name.kind = "freed"
    BY <1>1, <1>2
  <2>2. e.name = None /\ dsv.name = b.name
    BY <1>3, <2>1 DEF Filled, Text
  <2>3. "name" \in given.fields
    BY <1>2, <2>1, <2>2 DEF InputInv, JsonInv, Null
  <2>4. "name" \notin Gives(e)
    BY <2>2 DEF Gives
  <2> QED
    BY <1>2, <2>3, <2>4
<1>10. Props'
  BY <1>1, <1>2, <1>8, <1>9 DEF Props, ElementAsWritten, FlagsFromFile, OptionsAsGiven, NoMessage
<1> QED
  BY <1>5, <1>6, <1>7, <1>10 DEF InputInv

LEMMA AbortStep ==
  ASSUME InputInv, NEW e \in Elements, AbortElement(e)
  PROVE  InputInv' /\ Props'
<1>1. /\ way = "json" /\ way' = way /\ el' = e
      /\ sent' = NoMessage /\ fate' = "abort" /\ dsv' = dsv
  BY TakenType DEF AbortElement, InputInv
<1>2. NoMessage \in [op: {"none", "CREATE", "SET"}, dsv: Records]
  BY NullType DEF NoMessage
<1>3. InputTypeOK'
  BY <1>1, <1>2, TakenType DEF InputTypeOK, InputInv, AbortElement
<1>4. JsonInv' /\ SvInv'
  BY <1>1 DEF JsonInv, SvInv
<1>5. ~Fitting(el')
  <2> DEFINE b == Begun(dsv, e)
  <2>1. e.value.kind = "text" /\ Aborts(b.type, e.value.of)
    BY DEF AbortElement, TextAborts
  <2>2. dsv \in Records /\ b.type = IF e.type = "none" THEN dsv.type ELSE e.type
    BY BegunFacts DEF InputInv, InputTypeOK
  <2> HIDE DEF b
  <2> QED
    BY <1>1, <2>1, <2>2 DEF Fitting
<1>6. Props'
  BY <1>1, <1>5 DEF Props, ElementAsWritten, FlagsFromFile, UndefinedOnlyByGap,
                    OptionsAsGiven, NoMessage
<1> QED
  BY <1>3, <1>4, <1>6 DEF InputInv

LEMMA CreateStep ==
  ASSUME InputInv, NEW e \in Elements, CreateElement(e)
  PROVE  InputInv' /\ Props'
<1> DEFINE r == Flagged(Valued(Begun(dsv, e), e), e)
<1>1. dsv \in Records /\ Create(r) /\ ~Mistyped(Begun(dsv, e), e)
      /\ ~TextAborts(Begun(dsv, e), e.value)
  BY DEF CreateElement, InputInv, InputTypeOK
<1>2. /\ r \in Records
      /\ r.name = Filled(dsv.name, e.name) /\ r.desc = Filled(dsv.desc, e.desc)
      /\ r.type = IF e.type = "none" THEN dsv.type ELSE e.type
      /\ r.flags = dsv.flags \cup e.flags
      /\ e.value = None => r.val = dsv.val
      /\ e.value # None /\ r.type # "INV" => Holds(r, e.value.of)
      /\ e.value # None /\ r.type = "INV" => r.val = dsv.val
  BY <1>1, FullFacts
<1>3. e.flags \subseteq {"SAVE", "TRACK"}
  BY ElementTexts
<1>4. /\ way = "json" /\ fate = "run" /\ way' = way /\ el' = e
      /\ given'.fields = given.fields \cup Gives(e) /\ given'.flags = given.flags \cup e.flags
  BY <1>3, TakenType DEF CreateElement, InputInv
<1> HIDE DEF r
<1>5. /\ sent' = IF Unreadable(r) THEN NoMessage ELSE Message(r)
      /\ dsv' = Freed(r)
      /\ fate' = IF Unreadable(r) \/ Unfreeable(r) THEN "ub" ELSE "run"
  BY <1>1 DEF Create
<1>6. InputTypeOK'
  <2>1. sent' \in [op: {"none", "CREATE", "SET"}, dsv: Records]
    <3>1. NoMessage \in [op: {"none", "CREATE", "SET"}, dsv: Records]
      BY NullType DEF NoMessage
    <3>2. Message(r) \in [op: {"CREATE"}, dsv: Records]
      BY <1>2, FreedFacts
    <3> QED
      BY <1>5, <3>1, <3>2
  <2>2. dsv' \in Records
    BY <1>2, <1>5, FreedFacts
  <2> QED
    BY <1>3, <1>4, <1>5, <2>1, <2>2, TakenType DEF InputTypeOK, InputInv, CreateElement
<1>7. /\ r.name # Null => "name" \in given'.fields
      /\ r.desc # Null => "desc" \in given'.fields
      /\ r.val # Null => "value" \in given'.fields
  <2>1. /\ r.name # Null => dsv.name # Null \/ "name" \in Gives(e)
        /\ r.desc # Null => dsv.desc # Null \/ "desc" \in Gives(e)
        /\ r.val # Null => dsv.val # Null \/ "value" \in Gives(e)
    BY <1>2 DEF Filled, Gives
  <2> QED
    BY <1>4, <2>1 DEF JsonInv, InputInv
<1>8. JsonInv' /\ SvInv'
  <2>1. /\ Freed(r).name # Null => r.name # Null
        /\ Freed(r).desc # Null => r.desc # Null
        /\ Freed(r).val # Null => r.val # Null
        /\ Freed(r).flags = r.flags
    BY <1>2, FreedFacts DEF Gone
  <2>2. r.flags \subseteq given'.flags
    BY <1>2, <1>4 DEF JsonInv, InputInv
  <2> QED
    BY <1>4, <1>5, <1>7, <2>1, <2>2 DEF JsonInv, SvInv
(* A field that the element gives is a block, so what is stale it omits.      *)
<1>9. /\ r.name.kind = "freed" => e.name = None
      /\ r.desc.kind = "freed" => e.desc = None
      /\ Pointed(r.type) /\ r.val.kind \notin {"text", "ints"} => e.value = None
  <2>1. /\ r.name.kind = "freed" => e.name = None
        /\ r.desc.kind = "freed" => e.desc = None
    BY <1>2 DEF Filled, Text
  <2>2. Pointed(r.type) /\ e.value # None => r.val.kind \in {"text", "ints"}
    <3>1. Pointed(r.type) => r.type \in Types /\ r.type # "INV"
      BY DEF Pointed, Types
    <3> QED
      BY <1>2, <3>1, PointedText DEF Holds
  <2> QED
    BY <2>1, <2>2
<1>10. UndefinedOnlyByGap'
  <2> SUFFICES ASSUME Unreadable(r) \/ Unfreeable(r)
               PROVE  given'.fields \ Gives(e) # {}
    BY <1>4, <1>5 DEF UndefinedOnlyByGap
  <2>1. CASE r.name.kind = "freed"
    <3>1. r.name # Null /\ "name" \notin Gives(e)
      BY <1>9, <2>1 DEF Null, Gives
    <3> QED
      BY <1>7, <3>1
  <2>2. CASE r.desc.kind = "freed"
    <3>1. r.desc # Null /\ "desc" \notin Gives(e)
      BY <1>9, <2>2 DEF Null, Gives
    <3> QED
      BY <1>7, <3>1
  <2>3. CASE Pointed(r.type) /\ r.val # Null /\ r.val.kind \notin {"text", "ints"}
    <3>1. "value" \notin Gives(e)
      BY <1>9, <2>3 DEF Gives
    <3> QED
      BY <1>7, <2>3, <3>1
  <2> QED
    BY <2>1, <2>2, <2>3 DEF Unreadable, Unfreeable, SendsBytes, Null
<1>11. FlagsFromFile'
  <2>1. e.flags \subseteq r.flags /\ r.flags \subseteq given'.flags
    BY <1>2, <1>4 DEF JsonInv, InputInv
  <2>2. sent'.op = "CREATE" => sent' = Message(r)
    BY <1>5 DEF NoMessage
  <2> QED
    BY <1>2, <1>4, <2>1, <2>2, FreedFacts DEF FlagsFromFile
<1>12. ElementAsWritten'
  <2> SUFFICES ASSUME e.name # None, e.desc # None, Fitting(e)
               PROVE  /\ fate' = "run" /\ sent'.op = "CREATE"
                      /\ sent'.dsv.name = Text(e.name.of) /\ sent'.dsv.desc = Text(e.desc.of)
                      /\ Carries(sent'.dsv, e)
    BY <1>4 DEF ElementAsWritten
  <2>1. /\ r.type = e.type /\ e.type \in {"STR", "ARR", "NUM"} /\ e.value # None
        /\ Holds(r, e.value.of)
    BY <1>2 DEF Fitting
  <2>2. r.name = Text(e.name.of) /\ r.desc = Text(e.desc.of)
    BY <1>2 DEF Filled
  <2>3. Pointed(r.type) => SendsBytes(r) /\ r.val.kind \in {"text", "ints"}
    <3>1. Pointed(r.type) => e.value.kind = "text"
      BY <2>1, ElementTexts DEF Fitting, Pointed
    <3> QED
      BY <1>2, <2>1, <3>1, ElementTexts, HeldIsSent
  <2>4. ~Unreadable(r) /\ ~Unfreeable(r)
    BY <2>2, <2>3 DEF Unreadable, Unfreeable, Text, SendsBytes
  <2>5. sent' = Message(r) /\ fate' = "run"
    BY <1>5, <2>4
  <2>6. Message(r).dsv = r /\ Message(r).op = "CREATE"
    BY <1>2, <2>3, FreedFacts
  <2> QED
    BY <2>1, <2>2, <2>5, <2>6 DEF Carries
<1>13. OptionsAsGiven'
  BY <1>4 DEF OptionsAsGiven
<1> QED
  BY <1>6, <1>8, <1>10, <1>11, <1>12, <1>13 DEF InputInv, Props

LEMMA WordTexts ==
  ASSUME NEW t \in Texts
  PROVE  t \in Seq(Nat) /\ Given(t) \in AsText(Texts) /\ Given(t) # None
         /\ Given(t).of = t /\ Given(t).kind = "text" /\ Text(t) \in Cells
BY InputAssumption, ConversionType DEF AsText, Given, None

(* An option keeps the type; what remains is its effect on the record.        *)
LEMMA OptionStep ==
  ASSUME InputInv, NEW r \in Records, NEW o, NEW ok \in BOOLEAN, Option(r, o, ok),
         o \in Asked,
         r.name = dsv.name, r.desc.kind # "freed", r.val.kind # "freed",
         r.type = IF o.type = "none" THEN "INV" ELSE o.type,
         o.value.kind # "number", o.value = None => r.val = Null /\ ~ok,
         ok /\ r.type # "INV" => Holds(r, o.value.of)
  PROVE  InputInv' /\ Props'
<1>1. way = "sv" /\ fate = "run" /\ dsv' = r /\ el' = o /\ ready' = ok
      /\ way' = way /\ fate' = fate /\ sent' = sent /\ given' = given
  BY DEF Option, Parsing
<1>2. InputTypeOK'
  BY <1>1 DEF InputTypeOK, InputInv
<1>3. sent = NoMessage /\ dsv.name = Null
  BY <1>1 DEF SvInv, InputInv
<1>4. JsonInv' /\ SvInv'
  BY <1>1, <1>3 DEF JsonInv, SvInv, NoMessage
<1>5. Props'
  BY <1>1, <1>3 DEF Props, ElementAsWritten, FlagsFromFile, UndefinedOnlyByGap,
                    OptionsAsGiven, NoMessage
<1> QED
  BY <1>2, <1>4, <1>5 DEF InputInv

LEMMA OptionSteps ==
  ASSUME InputInv,
         \/ \E y \in Types : OptionType(y)
         \/ \E t \in Texts : OptionValue(t)
         \/ \E w \in Words : OptionDesc(w)
  PROVE  InputInv' /\ Props'
<1>1. dsv \in Records /\ el \in Asked /\ ready \in BOOLEAN
  BY DEF InputInv, InputTypeOK
<1>2. Parsing => SvInv /\ way = "sv" /\ fate = "run"
  BY DEF Parsing, InputInv
<1>3. ASSUME NEW y \in Types, OptionType(y)
      PROVE  InputInv' /\ Props'
  <2> DEFINE r == [dsv EXCEPT !.type = y]
             o == [el EXCEPT !.type = y]
  <2>1. Option(r, o, FALSE) /\ Parsing
    BY <1>3 DEF OptionType, Option
  <2>2. r \in Records /\ r.name = dsv.name /\ r.desc = dsv.desc /\ r.val = dsv.val /\ r.type = y
    BY <1>1 DEF Records
  <2>3. o \in Asked /\ o.value = el.value /\ o.type = y /\ y # "none"
    BY <1>1 DEF Types, Asked
  <2> HIDE DEF r, o
  <2> QED
    BY <1>2, <2>1, <2>2, <2>3, OptionStep DEF SvInv
<1>4. ASSUME NEW t \in Texts, OptionValue(t)
      PROVE  InputInv' /\ Props'
  <2> DEFINE r == Str2Value(dsv, t)
             o == [el EXCEPT !.value = Given(t)]
  <2>1. Option(r, o, TRUE) /\ Parsing /\ ~Aborts(dsv.type, t)
    BY <1>4 DEF OptionValue, Option
  <2>2. t \in Seq(Nat) /\ Given(t) \in AsText(Texts) /\ Given(t) # None
        /\ Given(t).of = t /\ Given(t).kind = "text"
    BY WordTexts
  <2>3. /\ r \in Records /\ r.name = dsv.name /\ r.desc = dsv.desc /\ r.type = dsv.type
        /\ r.type = "INV" => r = dsv
        /\ r.type # "INV" => Holds(r, t)
    BY <1>1, <2>1, <2>2, Str2ValueFacts
  <2>4. o \in Asked /\ o.value = Given(t) /\ o.type = el.type
    BY <1>1, <2>2 DEF Asked
  <2>5. r.val.kind # "freed"
    <3>1. Holds(r, t) /\ r.type \in Types /\ r.type # "INV" => r.val.kind # "freed"
      BY DEF Holds, ReadAs, Text, Ints, Number, Null, Types
    <3> QED
      BY <1>2, <2>1, <2>3, <3>1 DEF SvInv, Records
  <2> HIDE DEF r, o
  <2> QED
    BY <1>2, <2>1, <2>2, <2>3, <2>4, <2>5, OptionStep DEF SvInv
<1>5. ASSUME NEW w \in Words, OptionDesc(w)
      PROVE  InputInv' /\ Props'
  <2> DEFINE r == [dsv EXCEPT !.desc = Text(w)]
             o == [el EXCEPT !.desc = Given(w)]
  <2>1. Option(r, o, ready) /\ Parsing
    BY <1>5 DEF OptionDesc, Option
  <2>2. Text(w) \in Cells /\ Given(w) \in AsText(Words) /\ Text(w).kind = "text"
    BY WordTexts, InputAssumption DEF AsText, Text
  <2>3. /\ r \in Records /\ r.name = dsv.name /\ r.desc = Text(w) /\ r.val = dsv.val
        /\ r.type = dsv.type /\ r.len = dsv.len
    BY <1>1, <2>2 DEF Records
  <2>4. o \in Asked /\ o.value = el.value /\ o.type = el.type
    BY <1>1, <2>2 DEF Asked
  <2>5. Holds(dsv, el.value.of) => Holds(r, el.value.of)
    BY <2>3 DEF Holds
  <2> HIDE DEF r, o
  <2> QED
    BY <1>1, <1>2, <2>1, <2>2, <2>3, <2>4, <2>5, OptionStep DEF SvInv
<1> QED
  BY <1>3, <1>4, <1>5

LEMMA ProcessCreateStep ==
  ASSUME InputInv, NEW w \in Words, ProcessCreate(w)
  PROVE  InputInv' /\ Props'
<1> DEFINE r == [dsv EXCEPT !.name = Text(w)]
<1>1. dsv \in Records /\ Text(w) \in Cells /\ Given(w) \in AsText(Words)
  BY WordTexts, InputAssumption DEF InputInv, InputTypeOK, AsText
<1>2. /\ r \in Records /\ r.name = Text(w) /\ r.desc = dsv.desc /\ r.val = dsv.val
      /\ r.type = dsv.type /\ r.len = dsv.len
  BY <1>1 DEF Records
<1>3. /\ sent' = IF Unreadable(r) THEN NoMessage ELSE Message(r)
      /\ dsv' = Freed(r)
      /\ fate' = IF Unreadable(r) \/ Unfreeable(r) THEN "ub" ELSE "done"
      /\ el' = [el EXCEPT !.name = Given(w)]
      /\ way = "sv" /\ fate = "run" /\ way' = way /\ ready' = ready /\ given' = given
  BY DEF ProcessCreate, Parsing
<1> HIDE DEF r
<1>4. /\ el' \in Asked
      /\ el'.type = el.type /\ el'.value = el.value
  BY <1>1, <1>3 DEF InputInv, InputTypeOK, Asked
<1>5. InputTypeOK'
  <2>1. NoMessage \in [op: {"none", "CREATE", "SET"}, dsv: Records]
    BY NullType DEF NoMessage
  <2>2. Message(r) \in [op: {"CREATE"}, dsv: Records] /\ Freed(r) \in Records
    BY <1>2, FreedFacts
  <2>3. sent' \in [op: {"none", "CREATE", "SET"}, dsv: Records]
    BY <1>3, <2>1, <2>2
  <2> QED
    BY <1>3, <1>4, <2>2, <2>3 DEF InputTypeOK, InputInv
<1>6. JsonInv' /\ SvInv'
  BY <1>3 DEF JsonInv, SvInv
<1>7. /\ dsv.desc.kind # "freed" /\ dsv.val.kind # "freed"
      /\ dsv.type = IF el.type = "none" THEN "INV" ELSE el.type
      /\ el.value.kind # "number"
      /\ el.value = None => dsv.val = Null
      /\ ready /\ dsv.type # "INV" => Holds(dsv, el.value.of)
  BY <1>3 DEF SvInv, InputInv
<1>8. r.name.kind = "text"
  BY <1>2 DEF Text
(* What sv holds after its last type is no number taken for a pointer.        *)
<1>9. Pointed(r.type) /\ ready => r.val.kind \in {"text", "ints"}
  <2>1. Pointed(r.type) => r.type \in Types /\ r.type # "INV"
    BY DEF Pointed, Types
  <2> QED
    BY <1>2, <1>7, <2>1, PointedText DEF Holds
<1>10. UndefinedOnlyByGap'
  <2> SUFFICES ASSUME Unreadable(r) \/ Unfreeable(r)
               PROVE  el.value # None /\ ~ready
    BY <1>3, <1>4 DEF UndefinedOnlyByGap
  <2>1. Pointed(r.type) /\ r.val # Null /\ r.val.kind \notin {"text", "ints"}
    BY <1>2, <1>7, <1>8 DEF Unreadable, Unfreeable, SendsBytes, Null
  <2> QED
    BY <1>2, <1>7, <1>9, <2>1
<1>11. OptionsAsGiven'
  <2> SUFFICES ASSUME sent'.op = "CREATE", ready, Fitting(el')
               PROVE  Carries(sent'.dsv, el')
    BY <1>3 DEF OptionsAsGiven
  <2>1. sent' = Message(r)
    BY <1>3 DEF NoMessage
  <2>2. /\ el.type \in {"STR", "ARR", "NUM"} /\ el.value # None /\ r.type = el.type
    BY <1>2, <1>4, <1>7 DEF Fitting
  <2>3. Holds(r, el.value.of)
    BY <1>2, <1>7, <2>2 DEF Holds
  <2>4. el.value.of \in Seq(Nat)
    <3>1. el.value \in AsText(Texts) \cup AsNumber(Numbers)
      BY DEF InputInv, InputTypeOK, Asked
    <3>2. el.value \in AsText(Texts)
      BY <1>7, <3>1 DEF AsNumber
    <3> QED
      BY <2>2, <3>2, InputAssumption DEF AsText, Given
  <2>5. Message(r).dsv = r
    BY <1>2, <2>3, <2>4, FreedFacts, HeldIsSent
  <2> QED
    BY <1>4, <2>1, <2>2, <2>3, <2>5 DEF Carries
<1>12. ElementAsWritten' /\ FlagsFromFile'
  BY <1>3 DEF ElementAsWritten, FlagsFromFile
<1> QED
  BY <1>5, <1>6, <1>10, <1>11, <1>12 DEF InputInv, Props

LEMMA SetStep ==
  ASSUME InputInv, NEW y \in Types, NEW t \in Texts, DSV_SetThruStr(y, t) \/ SvAborts(y, t)
  PROVE  InputInv' /\ Props'
<1>1. /\ way = "sv" /\ way' = way /\ dsv' = dsv /\ ready' = ready /\ given' = given
      /\ fate' \in {"done", "abort"} /\ sent'.op # "CREATE"
  BY DEF DSV_SetThruStr, SvAborts, Parsing, NoMessage
<1>2. sent' \in [op: {"none", "CREATE", "SET"}, dsv: Records]
  <2>1. NoMessage \in [op: {"none", "CREATE", "SET"}, dsv: Records]
    BY NullType DEF NoMessage
  <2>2. SetValue(y, t) \in Cells
    BY WordTexts, ConversionType, EmptySeq DEF SetValue, Address, Cells
  <2>3. [op |-> "SET", dsv |-> [Empty EXCEPT !.type = y, !.val = SetValue(y, t)]]
          \in [op: {"none", "CREATE", "SET"}, dsv: Records]
    BY <2>2, NullType DEF Records
  <2> QED
    BY <2>1, <2>3 DEF DSV_SetThruStr, SvAborts
<1>3. el' \in Asked
  <2>1. [NoElement EXCEPT !.type = y, !.value = Given(t)] \in Asked
    BY WordTexts DEF NoElement, AsText, Asked
  <2> QED
    BY <2>1 DEF DSV_SetThruStr, SvAborts, InputInv, InputTypeOK
<1>4. InputTypeOK'
  BY <1>1, <1>2, <1>3 DEF InputTypeOK, InputInv
<1>5. JsonInv' /\ SvInv' /\ Props'
  BY <1>1 DEF JsonInv, SvInv, Props, ElementAsWritten, FlagsFromFile, UndefinedOnlyByGap,
              OptionsAsGiven
<1> QED
  BY <1>4, <1>5 DEF InputInv

LEMMA InputStep == InputInv /\ Props /\ [InputNext]_ivars => InputInv' /\ Props'
<1> SUFFICES ASSUME InputInv, Props, [InputNext]_ivars
             PROVE  InputInv' /\ Props'
  OBVIOUS
<1>1. CASE Json
  BY <1>1, SkipStep, CreateStep, AbortStep DEF Json
<1>2. CASE Sv
  BY <1>2, OptionSteps, ProcessCreateStep, SetStep DEF Sv
<1>3. CASE UNCHANGED ivars
  BY <1>3 DEF ivars, InputInv, InputTypeOK, JsonInv, SvInv, Props, ElementAsWritten,
              FlagsFromFile, UndefinedOnlyByGap, OptionsAsGiven, Fitting, Carries, Holds, Gives
<1> QED
  BY <1>1, <1>2, <1>3 DEF InputNext

LEMMA InputStart == InputInit => InputInv /\ Props
<1> SUFFICES ASSUME InputInit PROVE InputInv /\ Props
  OBVIOUS
<1>1. /\ Empty.name = Null /\ Empty.desc = Null /\ Empty.val = Null /\ Empty.flags = {}
      /\ Empty.type = "INV" /\ Null.kind = "null"
  BY DEF Empty, Null
<1>2. NoElement \in Asked
  BY DEF NoElement, AsText, Asked
<1>3. InputTypeOK
  BY <1>2, NullType DEF InputInit, InputTypeOK, NoMessage, Nothing
<1>4. JsonInv /\ SvInv
  BY <1>1 DEF InputInit, JsonInv, SvInv, Nothing, NoElement, None, NoMessage
<1>5. Props
  BY DEF InputInit, Props, ElementAsWritten, FlagsFromFile, UndefinedOnlyByGap,
         OptionsAsGiven, NoElement, NoMessage
<1> QED
  BY <1>3, <1>4, <1>5 DEF InputInv

LEMMA InputInvariance == InputSpec => [](InputInv /\ Props)
BY InputStart, InputStep, PTL DEF InputSpec

-----------------------------------------------------------------------------
(* Between two elements, or two options, the record holds no block that was   *)
(* not given.                                                                 *)
THEOREM RecordSound == InputSpec => []InputInv
BY InputInvariance, PTL

(* A complete element is created as written, whatever the record it shares    *)
(* with those before held.                                                    *)
THEOREM CompleteElements == InputSpec => []ElementAsWritten
BY InputInvariance, PTL DEF Props

(* A created element has its own flags and those of elements sent before.     *)
THEOREM FlagsOfFile == InputSpec => []FlagsFromFile
BY InputInvariance, PTL DEF Props

(* Only an omission makes a client use memory it has freed, or a number as a  *)
(* pointer.                                                                   *)
THEOREM OnlyGaps == InputSpec => []UndefinedOnlyByGap
BY InputInvariance, PTL DEF Props

(* sv sends the value given after the type, whatever comes before.            *)
THEOREM OptionsOfSv == InputSpec => []OptionsAsGiven
BY InputInvariance, PTL DEF Props
=============================================================================
