------------------------------ MODULE MCDsvText ------------------------------
(* The conversions between values and their texts, side by side, for TLC:  *)
(* a behaviour is one of JSON files and command lines, of the save file,   *)
(* or of arrays.  Of the save file either "a" alone is written or marked   *)
(* by its creator, or both names are written, but then no value has a ';', *)
(* "b" gets the empty text only, no pipe is left open and no creator marks *)
(* a name.                                                                 *)
EXTENDS DsvInput, DsvFileStore, DsvArrayText

VARIABLE part

MCTexts == {<<>>, <<1>>, <<2, 1>>}
MCWords == {<<2, 1>>}
MCContents == {<<>>, <<";">>, <<"=", "x">>}

MCInit == /\ part \in {"input", "one", "both", "array"}
          /\ InputInit /\ HeldInit /\ ArrayInit
          /\ part # "input" => way = "json"

Only(p, Step) == part = p /\ Step /\ UNCHANGED part

Written(n) == ~tab[n].wrote /\ tab'[n].wrote
MadeDirty(n) == tab[n] = NoEntry /\ tab'[n].dirty
Gets(n, v) == pc = "idle" /\ tab[n].val # v /\ tab'[n].val = v

Modest == /\ \A n \in Names : ~Gets(n, <<";">>) /\ ~MadeDirty(n)
          /\ ~Gets("b", <<"=", "x">>)
          /\ pipes' = 0

MCNext == \/ Only("input", InputNext) /\ UNCHANGED hvars /\ UNCHANGED avars
          \/ Only("one", HeldNext /\ ~Written("b") /\ ~MadeDirty("b")) /\ UNCHANGED ivars /\ UNCHANGED avars
          \/ Only("both", HeldNext /\ Modest) /\ UNCHANGED ivars /\ UNCHANGED avars
          \/ Only("array", ArrayNext) /\ UNCHANGED ivars /\ UNCHANGED hvars

MCSpec == MCInit /\ [][MCNext]_<<part, ivars, hvars, avars>> /\ FileFairness
=============================================================================
