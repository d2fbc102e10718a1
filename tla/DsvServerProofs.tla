--------------------------- MODULE DsvServerProofs ---------------------------
(* Theorems about DsvServer: it does to the table what DsvVar says, because  *)
(* the handles under way were given out by a server.                         *)
EXTENDS DsvServer, DsvVarProofs, WellFoundedInduction

LEMMA SeqGrows ==
  ASSUME NEW S, NEW T, S \subseteq T, NEW s \in Seq(S)
  PROVE  s \in Seq(T)
<1>1. Len(s) \in Nat /\ s \in [1..Len(s) -> S]
  BY LenProperties
<1>2. s \in [1..Len(s) -> T]
  BY <1>1
<1> QED
  BY <1>1, <1>2

LEMMA SubSeqIn ==
  ASSUME NEW S, NEW s \in Seq(S), NEW k \in Nat, k <= Len(s)
  PROVE  SubSeq(s, k + 1, Len(s)) \in Seq(S)
<1>1. Len(s) \in Nat /\ \A i \in 1..Len(s) : s[i] \in S
  BY LenProperties, ElementOfSeq
<1>2. \A i \in (k + 1)..Len(s) : s[i] \in S
  BY <1>1
<1> QED
  BY <1>1, <1>2, SubSeqProperties

LEMMA PrefixIn ==
  ASSUME NEW S, NEW s \in Seq(S), NEW k \in Nat, k <= Len(s)
  PROVE  SubSeq(s, 1, k) \in Seq(S)
<1>1. Len(s) \in Nat /\ \A i \in 1..Len(s) : s[i] \in S
  BY LenProperties, ElementOfSeq
<1>2. \A i \in 1..k : s[i] \in S
  BY <1>1
<1> QED
  BY <1>1, <1>2, SubSeqProperties

(* An entry of the table after a step was there before with its handle, or    *)
(* has the handle of the create.                                              *)
LEMMA LiveStep ==
  ASSUME IInv, Live \subseteq issued, [Next]_vars
  PROVE  Live' \subseteq issued' /\ issued \subseteq issued'
<1>1. CASE Carried
  BY <1>1 DEF Carried, Live
<1>2. ASSUME NEW n, NEW h, Added(n, h)
      PROVE  Live' \subseteq issued' /\ issued \subseteq issued'
  BY <1>2 DEF Added, Live, Created
<1> QED
  BY <1>1, <1>2, EntryStep

-----------------------------------------------------------------------------
(* A step of the server, a client or a connection is a step of the table or   *)
(* leaves it alone.                                                           *)
LEMMA EditRequest ==
  ASSUME NEW m \in WritesBy(issued), EditItem(m)
  PROVE  Request(m.hndl) /\ status' = status /\ status = "up"
<1>1. CASE m.op = "ADD_ITEM" /\ VarAddItem(m.hndl, m.item)
  <2>1. m.item \in Data
    BY <1>1 DEF WritesBy
  <2> QED
    BY <1>1, <2>1 DEF Request, VarAddItem, Update
<1>2. CASE m.op = "SET_ITEM" /\ VarSetItem(m.hndl, m.idx, m.item)
  <2>1. m.item \in Data /\ m.idx \in 1..MaxLen
    BY <1>2 DEF WritesBy
  <2> QED
    BY <1>2, <2>1 DEF Request, VarSetItem, Update
<1>3. CASE m.op = "INS_ITEM" /\ VarInsItem(m.hndl, m.idx, m.item)
  <2>1. m.item \in Data /\ m.idx \in 1..MaxLen
    BY <1>3 DEF WritesBy
  <2> QED
    BY <1>3, <2>1 DEF Request, VarInsItem, Update
<1>4. CASE m.op = "DEL_ITEM" /\ VarDelItem(m.hndl, m.idx)
  <2>1. m.idx \in 1..MaxLen
    BY <1>4 DEF WritesBy
  <2> QED
    BY <1>4, <2>1 DEF Request, VarDelItem, Update
<1> QED
  BY <1>1, <1>2, <1>3, <1>4 DEF EditItem

LEMMA FrontendStep ==
  ASSUME IInv, HandlesIssued, NEW c \in Clients, HandleFrontend(c)
  PROVE  [Next]_vars
<1> DEFINE m == Head(front[c])
<1>1. m \in WritesBy(issued)
  BY HeadTailProperties DEF HandlesIssued, HandleFrontend, Take
<1> HIDE DEF m
<1>2. CASE FrontendCreate(c, m)
  <2>1. m.name \in Names /\ m.val \in Values /\ CreateFlags \in SUBSET {"SAVE"}
    BY <1>1, <1>2 DEF FrontendCreate, WritesBy, CreateFlags
  <2> QED
    BY <1>2, <2>1 DEF FrontendCreate, Next
<1>3. CASE FrontendSet(c, m)
  <2>1. m.hndl \in issued /\ m.val \in Values
    BY <1>1, <1>3 DEF FrontendSet, WritesBy
  <2> QED
    BY <1>3, <2>1 DEF FrontendSet, Request, Next
<1>4. CASE FrontendItem(c, m)
  <2>1. m.hndl \in issued
    BY <1>1, <1>4 DEF FrontendItem, WritesBy, ItemOps
  <2>2. EditItem(m) => Request(m.hndl)
    BY <1>1, EditRequest
  <2> QED
    BY <1>4, <2>1, <2>2 DEF FrontendItem, Next
<1>5. CASE FrontendSave(c, m) \/ FrontendRestore(c, m)
  BY <1>5 DEF FrontendSave, FrontendRestore, Next
<1> QED
  BY <1>2, <1>3, <1>4, <1>5 DEF HandleFrontend, m

LEMMA MisuseStep ==
  ASSUME NEW m \in WritesBy(issued), FrontendMisuse(m)
  PROVE  Next
<1>1. CASE m.op \in ItemOps \cup {"SET"} /\ VarMisuse(m.hndl)
  <2>1. m.hndl \in issued
    BY <1>1 DEF WritesBy, ItemOps
  <2> QED
    BY <1>1, <2>1 DEF Request, Next
<1>2. ASSUME NEW last \in {0, 1}, VarMisindex(m.hndl, m.idx, last),
             m.op \in {"SET_ITEM", "INS_ITEM", "DEL_ITEM"}
      PROVE  Next
  <2>1. m.hndl \in issued /\ m.idx \in 1..MaxLen
    BY <1>2 DEF WritesBy
  <2>2. m.idx \in 0..MaxLen + 2
    BY <2>1, ConstantsAssumption
  <2> QED
    BY <1>2, <2>1, <2>2 DEF Request, Next
<1>3. CASE VarRestoreUndefined \/ VarRestoreAborts \/ SendGarbage(m)
  BY <1>3 DEF SendGarbage, Next
<1> QED
  BY <1>1, <1>2, <1>3 DEF FrontendMisuse

(* A library call changes what its client sends, and nothing of the server.   *)
Quiet(c) == /\ UNCHANGED <<vars, subs, news, out, view, fwdbuf, told, behind>>
            /\ joined' = joined /\ calls' = calls + 1
            /\ subq' = subq \/ \E n \in Names : subq' = [subq EXCEPT ![c] = @ \cup {n}]

LEMMA CallFrame ==
  ASSUME NEW c \in Clients, ClientCall(c)
  PROVE  Quiet(c)
<1>1. ASSUME NEW m, Publish(c, m) PROVE Quiet(c)
  BY <1>1 DEF Publish, Calls, Quiet
<1>2. ASSUME NEW r, Request1(c, r) PROVE Quiet(c)
  BY <1>2 DEF Request1, Calls, Quiet
<1>3. ASSUME NEW n \in Names, ClientWrite(c, n)
      PROVE  Quiet(c)
  <2>1. ASSUME NEW v, DSV_Create(c, n, v) \/ DSV_Set(c, n, v)
        PROVE  Quiet(c)
    BY <1>1, <2>1 DEF DSV_Create, DSV_Set
  <2>2. ASSUME NEW i, NEW x,
               \/ DSV_AddItemToArray(c, n, x) \/ DSV_SetItemInArray(c, n, i, x)
               \/ DSV_InsItemToArray(c, n, i, x) \/ DSV_DelItemFromArray(c, n, i)
        PROVE  Quiet(c)
    BY <1>1, <2>2 DEF DSV_AddItemToArray, DSV_SetItemInArray, DSV_InsItemToArray,
                      DSV_DelItemFromArray, EditArray
  <2> QED
    BY <1>3, <2>1, <2>2 DEF ClientWrite, ProcessAddItem, ProcessSetItem, ProcessInsItem,
                            ProcessDelItem
<1>4. ASSUME NEW n \in Names, ClientRead(c, n)
      PROVE  Quiet(c)
  <2>1. CASE DSV_SubByName(c, n)
    BY <2>1 DEF DSV_SubByName, Calls, Quiet
  <2>2. CASE \/ DSV_Handle(c, n) \/ DSV_Get(c, n) \/ DSV_Type(c, n) \/ DSV_Len(c, n)
             \/ DSV_GetItemFromArray(c, n)
    BY <1>2, <2>2 DEF DSV_Handle, DSV_Get, DSV_Type, DSV_Len, DSV_GetItemFromArray, ReadBy
  <2> QED
    BY <1>4, <2>1, <2>2 DEF ClientRead, ProcessGetItem
<1> QED
  BY <1>1, <1>3, <1>4 DEF ClientCall, DSV_Save, DSV_Restore

LEMMA TableStep ==
  ASSUME IInv, HandlesIssued, [ServerNext]_allvars
  PROVE  [Next]_vars
<1>1. ASSUME NEW c \in Clients, ClientCall(c)
      PROVE  UNCHANGED vars
  BY <1>1, CallFrame DEF Quiet
<1>2. ASSUME NEW c \in Clients,
             Join(c) \/ Return(c) \/ HandleNotification(c) \/ DSV_Close(c) \/ Accept(c)
             \/ HandleReply(c) \/ HandleBackend
      PROVE  UNCHANGED vars
  BY <1>2 DEF Join, Return, HandleNotification, DSV_GetNotification, DSV_Close, Accept,
              HandleReply, HandleBackend
<1>3. ASSUME NEW c \in Clients, HandleFrontendUndefined(c)
      PROVE  Next
  <2>1. Head(front[c]) \in WritesBy(issued) /\ FrontendMisuse(Head(front[c]))
    BY <1>3, HeadTailProperties DEF HandlesIssued, HandleFrontendUndefined
  <2> QED
    BY <2>1, MisuseStep
<1>4. ASSUME NEW c \in Clients, HandleReplyUndefined(c)
      PROVE  Next
  <2>1. call[c] \in BlockedBy(issued) /\ call[c].op \in Reads /\ VarMisuse(call[c].hndl)
    BY <1>4 DEF HandlesIssued, HandleReplyUndefined, Pending
  <2>2. call[c].hndl \in issued
    BY <2>1 DEF BlockedBy, Reads
  <2> QED
    BY <2>1, <2>2 DEF Request, Next
<1>5. CASE Stop \/ Restart
  BY <1>5 DEF Stop, Restart, Next
<1>6. CASE HandleBackend \/ UNCHANGED allvars
  BY <1>6 DEF HandleBackend, allvars
<1> QED
  BY <1>1, <1>2, <1>3, <1>4, <1>5, <1>6, FrontendStep DEF ServerNext

-----------------------------------------------------------------------------
(* What clients hold and have under way stays among the handles given out:    *)
(* the requests first, then the forwards.                                     *)
RequestsIssued ==
  /\ front \in [Clients -> Seq(WritesBy(issued))]
  /\ call \in [Clients -> BlockedBy(issued) \cup {Nil}]
  /\ cache \in [Clients -> [Names -> issued \cup {Nil}]]

ForwardsIssued ==
  /\ out \in [Clients -> Seq(ForwardsBy(issued))]
  /\ fwdbuf \in ForwardsBy(issued) \cup {Nil}

LEMMA IssuedGrows ==
  ASSUME HandlesIssued, issued \subseteq issued'
  PROVE  /\ front \in [Clients -> Seq(WritesBy(issued'))]
         /\ call \in [Clients -> BlockedBy(issued') \cup {Nil}]
         /\ cache \in [Clients -> [Names -> issued' \cup {Nil}]]
         /\ out \in [Clients -> Seq(ForwardsBy(issued'))]
         /\ fwdbuf \in ForwardsBy(issued') \cup {Nil}
<1>1. WritesBy(issued) \subseteq WritesBy(issued')
  BY DEF WritesBy
<1>2. BlockedBy(issued) \subseteq BlockedBy(issued')
  BY DEF BlockedBy
<1>3. ForwardsBy(issued) \subseteq ForwardsBy(issued')
  BY DEF ForwardsBy
<1>4. front \in [Clients -> Seq(WritesBy(issued'))]
  BY <1>1, SeqGrows DEF HandlesIssued
<1>5. call \in [Clients -> BlockedBy(issued') \cup {Nil}]
  BY <1>2 DEF HandlesIssued
<1>6. cache \in [Clients -> [Names -> issued' \cup {Nil}]]
  BY DEF HandlesIssued
<1>7. out \in [Clients -> Seq(ForwardsBy(issued'))]
  BY <1>3, SeqGrows DEF HandlesIssued
<1>8. fwdbuf \in ForwardsBy(issued') \cup {Nil}
  BY <1>3 DEF HandlesIssued
<1> QED
  BY <1>4, <1>5, <1>6, <1>7, <1>8

LEMMA IssuedCall ==
  ASSUME HandlesIssued, NEW c \in Clients, ClientCall(c)
  PROVE  RequestsIssued'
<1>1. ASSUME NEW msg \in WritesBy(issued), Publish(c, msg)
      PROVE  RequestsIssued'
  <2>1. Append(front[c], msg) \in Seq(WritesBy(issued))
    BY <1>1, AppendProperties DEF HandlesIssued
  <2>2. UNCHANGED <<issued, call, cache>> /\ front' \in [Clients -> Seq(WritesBy(issued))]
    BY <1>1, <2>1 DEF Publish, Calls, vars, HandlesIssued
  <2> QED
    BY <2>2 DEF HandlesIssued, RequestsIssued
<1>2. ASSUME NEW r \in BlockedBy(issued), Request1(c, r)
      PROVE  RequestsIssued'
  <2>1. UNCHANGED <<issued, front, cache>> /\ call' = [call EXCEPT ![c] = r]
    BY <1>2 DEF Request1, Calls, vars
  <2> QED
    BY <2>1 DEF HandlesIssued, RequestsIssued
<1>3. ASSUME NEW n \in Names, NEW v \in ValuesOf(TypeOf[n]), DSV_Create(c, n, v) \/ DSV_Set(c, n, v)
      PROVE  RequestsIssued'
  <2>1. v \in Values
    BY NumValue DEF ValuesOf
  <2>2. CASE DSV_Create(c, n, v)
    <3>1. [op |-> "CREATE", name |-> n, val |-> v] \in WritesBy(issued)
      BY <2>1 DEF WritesBy
    <3> QED
      BY <1>1, <2>2, <3>1 DEF DSV_Create
  <2>3. CASE DSV_Set(c, n, v)
    <3>1. cache[c][n] \in issued
      BY <2>3 DEF DSV_Set, HandlesIssued
    <3>2. [op |-> "SET", name |-> n, hndl |-> cache[c][n], val |-> v] \in WritesBy(issued)
      BY <2>1, <3>1 DEF WritesBy
    <3> QED
      BY <1>1, <2>3, <3>2 DEF DSV_Set
  <2> QED
    BY <1>3, <2>2, <2>3
<1>4. ASSUME NEW n \in Names, NEW i \in 1..MaxLen, NEW x \in Data,
             \/ DSV_AddItemToArray(c, n, x) \/ DSV_SetItemInArray(c, n, i, x)
             \/ DSV_InsItemToArray(c, n, i, x)
      PROVE  RequestsIssued'
  <2> DEFINE h == cache[c][n]
             add == [op |-> "ADD_ITEM", name |-> n, hndl |-> h, item |-> x]
             set == [op |-> "SET_ITEM", name |-> n, hndl |-> h, idx |-> i, item |-> x]
             ins == [op |-> "INS_ITEM", name |-> n, hndl |-> h, idx |-> i, item |-> x]
  <2>1. h # Nil
    BY <1>4 DEF DSV_AddItemToArray, DSV_SetItemInArray, DSV_InsItemToArray, EditArray
  <2>2. h \in issued
    BY <2>1 DEF HandlesIssued
  <2>3. add \in WritesBy(issued) /\ set \in WritesBy(issued) /\ ins \in WritesBy(issued)
    BY <2>2 DEF WritesBy
  <2>4. Publish(c, add) \/ Publish(c, set) \/ Publish(c, ins)
    BY <1>4 DEF DSV_AddItemToArray, DSV_SetItemInArray, DSV_InsItemToArray, EditArray
  <2> QED
    BY <1>1, <2>3, <2>4
<1>5. ASSUME NEW n \in Names, NEW i \in 1..MaxLen, DSV_DelItemFromArray(c, n, i)
      PROVE  RequestsIssued'
  <2> DEFINE del == [op |-> "DEL_ITEM", name |-> n, hndl |-> cache[c][n], idx |-> i]
  <2>1. cache[c][n] \in issued
    BY <1>5 DEF DSV_DelItemFromArray, EditArray, HandlesIssued
  <2>2. del \in WritesBy(issued)
    BY <2>1 DEF WritesBy
  <2> QED
    BY <1>1, <1>5, <2>2 DEF DSV_DelItemFromArray, EditArray
<1>6. ASSUME NEW n \in Names, NEW x \in Data, DSV_AddItemToArray(c, n, x)
      PROVE  RequestsIssued'
  <2>1. 1 \in 1..MaxLen
    BY ConstantsAssumption
  <2> QED
    BY <1>4, <1>6, <2>1
<1>7. ASSUME NEW n \in Names, NEW op \in Reads, ReadBy(c, n, op)
      PROVE  RequestsIssued'
  <2>1. cache[c][n] \in issued
    BY <1>7 DEF ReadBy, HandlesIssued
  <2>2. [op |-> op, name |-> n, hndl |-> cache[c][n]] \in BlockedBy(issued)
    BY <2>1 DEF BlockedBy
  <2> QED
    BY <1>2, <1>7, <2>2 DEF ReadBy
<1>8. ASSUME NEW n \in Names, ClientRead(c, n)
      PROVE  RequestsIssued'
  <2>1. CASE DSV_Handle(c, n)
    <3>1. [op |-> "GET_HANDLE", name |-> n] \in BlockedBy(issued)
      BY DEF BlockedBy
    <3> QED
      BY <1>2, <2>1, <3>1 DEF DSV_Handle
  <2>2. CASE DSV_SubByName(c, n)
    BY <2>2 DEF DSV_SubByName, Calls, vars, HandlesIssued, RequestsIssued
  <2>3. CASE DSV_Get(c, n) \/ DSV_Type(c, n) \/ DSV_Len(c, n) \/ DSV_GetItemFromArray(c, n)
    BY <1>7, <2>3 DEF DSV_Get, DSV_Type, DSV_Len, DSV_GetItemFromArray, Reads
  <2> QED
    BY <1>8, <2>1, <2>2, <2>3 DEF ClientRead, ProcessGetItem
<1>9. ASSUME DSV_Save(c) \/ DSV_Restore(c)
      PROVE  RequestsIssued'
  <2>1. [op |-> "SAVE"] \in WritesBy(issued) /\ [op |-> "RESTORE"] \in WritesBy(issued)
    BY DEF WritesBy
  <2> QED
    BY <1>1, <1>9, <2>1 DEF DSV_Save, DSV_Restore
<1> QED
  BY <1>3, <1>4, <1>5, <1>6, <1>8, <1>9 DEF ClientCall, ClientWrite, ProcessAddItem, ProcessSetItem,
                                       ProcessInsItem, ProcessDelItem

LEMMA LostIssued ==
  ASSUME HandlesIssued, LoseConnections, issued \subseteq issued'
  PROVE  RequestsIssued' /\ ForwardsIssued'
<1>1. front' \in [Clients -> Seq(WritesBy(issued'))]
  <2>1. PICK k \in Cuts(front) :
          front' = [c \in Clients |-> SubSeq(front[c], k[c] + 1, Len(front[c]))]
    BY DEF LoseConnections
  <2>2. ASSUME NEW c \in Clients
        PROVE  SubSeq(front[c], k[c] + 1, Len(front[c])) \in Seq(WritesBy(issued'))
    <3>1. k[c] \in Nat /\ k[c] <= Len(front[c])
      BY <2>1, ServerAssumption DEF Cuts
    <3>2. front[c] \in Seq(WritesBy(issued'))
      BY IssuedGrows
    <3> QED
      BY <3>1, <3>2, SubSeqIn
  <2> QED
    BY <2>1, <2>2
<1>2. call' \in [Clients -> BlockedBy(issued') \cup {Nil}]
  <2>1. PICK L \in SUBSET Clients :
          call' = [c \in Clients |-> IF c \in L THEN [op |-> "LOST"] ELSE call[c]]
    BY DEF LoseConnections
  <2>2. [op |-> "LOST"] \in BlockedBy(issued')
    BY DEF BlockedBy
  <2>3. \A c \in Clients : call[c] \in BlockedBy(issued') \cup {Nil}
    BY IssuedGrows
  <2> QED
    BY <2>1, <2>2, <2>3
<1>3. out' \in [Clients -> Seq(ForwardsBy(issued'))]
  <2>1. PICK k \in Cuts(out) : out' = [c \in Clients |-> SubSeq(out[c], 1, k[c])]
    BY DEF LoseConnections
  <2>2. ASSUME NEW c \in Clients
        PROVE  SubSeq(out[c], 1, k[c]) \in Seq(ForwardsBy(issued'))
    <3>1. k[c] \in Nat /\ k[c] <= Len(out[c])
      BY <2>1, ServerAssumption DEF Cuts
    <3>2. out[c] \in Seq(ForwardsBy(issued'))
      BY IssuedGrows
    <3> QED
      BY <3>1, <3>2, PrefixIn
  <2> QED
    BY <2>1, <2>2
<1>4. cache' = cache /\ fwdbuf' = Nil
  BY DEF LoseConnections
<1> QED
  BY <1>1, <1>2, <1>3, <1>4, IssuedGrows DEF RequestsIssued, ForwardsIssued

LEMMA RequestsStep ==
  ASSUME IInv, HandlesIssued, [ServerNext]_allvars
  PROVE  RequestsIssued'
<1>1. Live' \subseteq issued' /\ issued \subseteq issued'
  BY TableStep, LiveStep DEF HandlesIssued
<1>2. UNCHANGED <<front, call, cache>> => RequestsIssued'
  BY <1>1, IssuedGrows DEF RequestsIssued
<1>3. ASSUME NEW c \in Clients, Join(c) \/ Accept(c)
      PROVE  UNCHANGED <<front, call, cache>>
  BY <1>3 DEF Join, Accept
<1>4. ASSUME NEW c \in Clients, Return(c)
      PROVE  RequestsIssued'
  <2>1. call[c] \in BlockedBy(issued) /\ call[c].op = "ANSWER"
    BY <1>4 DEF Return, HandlesIssued
  <2>2. call[c].name \in Names /\ call[c].hndl \in issued \cup {Nil}
    BY <2>1 DEF BlockedBy, Reads
  <2>3. call' \in [Clients -> BlockedBy(issued) \cup {Nil}]
    BY <1>4 DEF Return, HandlesIssued
  <2>4. cache' \in [Clients -> [Names -> issued \cup {Nil}]]
    BY <1>4, <2>2 DEF Return, HandlesIssued
  <2> QED
    BY <1>4, <2>3, <2>4 DEF Return, HandlesIssued, RequestsIssued, vars
<1>5. ASSUME NEW c \in Clients, DSV_Close(c)
      PROVE  RequestsIssued'
  <2>1. cache' \in [Clients -> [Names -> issued \cup {Nil}]]
    BY <1>5 DEF DSV_Close, PerName, HandlesIssued
  <2> QED
    BY <1>5, <2>1 DEF DSV_Close, HandlesIssued, RequestsIssued, vars
<1>6. ASSUME NEW c \in Clients, HandleNotification(c)
      PROVE  RequestsIssued'
  <2>1. UNCHANGED <<issued, front, cache>> /\ out[c] # <<>>
    BY <1>6 DEF HandleNotification, DSV_GetNotification, vars
  <2>2. Head(out[c]) \in ForwardsBy(issued)
    BY <2>1, HeadTailProperties DEF HandlesIssued
  <2>3. [op |-> "GET_TYPE", name |-> Head(out[c]).name, hndl |-> Head(out[c]).hndl]
          \in BlockedBy(issued)
    BY <2>2 DEF ForwardsBy, BlockedBy, Reads
  <2>4. call' \in [Clients -> BlockedBy(issued) \cup {Nil}]
    BY <1>6, <2>3 DEF HandleNotification, HandlesIssued
  <2> QED
    BY <2>1, <2>4 DEF HandlesIssued, RequestsIssued
<1>7. ASSUME NEW c \in Clients, HandleFrontend(c)
      PROVE  RequestsIssued'
  <2>1. front[c] \in Seq(WritesBy(issued')) /\ front[c] # <<>>
    BY <1>1, <1>7, IssuedGrows DEF HandleFrontend, Take
  <2>2. Tail(front[c]) \in Seq(WritesBy(issued'))
    BY <2>1, HeadTailProperties
  <2>3. front' \in [Clients -> Seq(WritesBy(issued'))] /\ UNCHANGED <<call, cache>>
    BY <1>1, <1>7, <2>2, IssuedGrows DEF HandleFrontend, Take
  <2> QED
    BY <1>1, <2>3, IssuedGrows DEF RequestsIssued
<1>8. ASSUME NEW c \in Clients, HandleReply(c)
      PROVE  RequestsIssued'
  <2>1. call[c] \in BlockedBy(issued) /\ call[c].op \in Reads \cup {"GET_HANDLE"}
    BY <1>8 DEF HandleReply, Pending, HandlesIssued
  <2>2. call[c].name \in Names
    BY <2>1 DEF BlockedBy, Reads
  <2>3. call[c].name \in Created => gmap[call[c].name].hndl \in issued
    BY DEF HandlesIssued, Live
  <2>4. Answer(call[c]) \in BlockedBy(issued)
    BY <2>2, <2>3 DEF Answer, BlockedBy
  <2>5. call' \in [Clients -> BlockedBy(issued) \cup {Nil}]
    BY <1>8, <2>4 DEF HandleReply, HandlesIssued
  <2> QED
    BY <1>8, <2>5 DEF HandleReply, HandlesIssued, RequestsIssued, vars
<1>9. ASSUME NEW c \in Clients, HandleFrontendUndefined(c) \/ HandleReplyUndefined(c)
      PROVE  RequestsIssued'
  BY <1>1, <1>9, LostIssued DEF HandleFrontendUndefined, HandleReplyUndefined
<1>10. CASE HandleBackend \/ Restart \/ UNCHANGED allvars
  BY <1>2, <1>10 DEF HandleBackend, Restart, allvars, cvars
<1>11. CASE Stop
  BY <1>1, <1>11, LostIssued DEF Stop
<1> QED
  BY <1>2, <1>3, <1>4, <1>5, <1>6, <1>7, <1>8, <1>9, <1>10, <1>11, IssuedCall DEF ServerNext

(* What the server sends of an entry has its handle.                          *)
LEMMA ForwardOfEntry ==
  ASSUME NEW t, NEW H, NEW n \in Names, t[n] \in Entry, t[n].hndl \in H
  PROVE  Forward(t, n) \in ForwardsBy(H)
BY DEF Forward, ForwardsBy, Entry

LEMMA SentIssued ==
  ASSUME NEW H, out \in [Clients -> Seq(ForwardsBy(H))], NEW f \in ForwardsBy(H),
         Send(f) \/ SendNothing
  PROVE  out' \in [Clients -> Seq(ForwardsBy(H))]
<1>1. \A c \in Clients : Append(out[c], f) \in Seq(ForwardsBy(H))
  BY AppendProperties
<1> QED
  BY <1>1 DEF Send, SendNothing

(* What comes of the next write of a client: the table changes at one name,   *)
(* whose entry is then sent; or only as a restore or a save changes it, and   *)
(* what is sent, if anything, is the forward of an earlier write.             *)
Updated(n) == /\ n \in Created'
              /\ SendUpdate(n)
              /\ \A k \in Names \ {n} : gmap'[k] = gmap[k]

Leftover ==
  /\ SendLeftover \/ (SendNothing /\ UNCHANGED fwdbuf)
  /\ behind \subseteq behind' /\ behind' \subseteq behind \cup Names
  /\ Created \subseteq Created' /\ Created' \subseteq Created
  /\ \A k \in Created : k \notin behind' => gmap'[k].val = gmap[k].val

LEMMA EditAt ==
  ASSUME NEW m, EditItem(m)
  PROVE  \E k \in Created : gmap[k].hndl = m.hndl /\ \E e : Update(k, e)
<1>1. CASE m.op = "ADD_ITEM" /\ VarAddItem(m.hndl, m.item)
  BY <1>1 DEF VarAddItem, ArrayAt, At
<1>2. CASE m.op = "SET_ITEM" /\ VarSetItem(m.hndl, m.idx, m.item)
  BY <1>2 DEF VarSetItem, ArrayAt, At
<1>3. CASE m.op = "INS_ITEM" /\ VarInsItem(m.hndl, m.idx, m.item)
  BY <1>3 DEF VarInsItem, ArrayAt, At
<1>4. CASE m.op = "DEL_ITEM" /\ VarDelItem(m.hndl, m.idx)
  BY <1>4 DEF VarDelItem, ArrayAt, At
<1> QED
  BY <1>1, <1>2, <1>3, <1>4 DEF EditItem

LEMMA FrontendOutcomes ==
  ASSUME IInv, HandlesDistinct, HandlesIssued, NEW c \in Clients, HandleFrontend(c)
  PROVE  status' = "up" /\ (Leftover \/ \E n \in Names : Updated(n))
<1> DEFINE m == Head(front[c])
<1>1. [Next]_vars /\ status = "up" /\ m \in WritesBy(issued)
  BY FrontendStep, HeadTailProperties DEF HandlesIssued, HandleFrontend, Take
<1>2. IInv' /\ [Kept]_vars
  BY <1>1, NextInv, KeptStep
<1>3. status' = "up" => Created \subseteq Created'
  BY <1>2 DEF Kept, vars, Created
<1> HIDE DEF m
<1>4. ASSUME UNCHANGED vars, SendNoUpdate
      PROVE  status' = "up" /\ Leftover
  BY <1>1, <1>4 DEF Leftover, SendNoUpdate, vars, Created
<1>5. ASSUME NEW n \in Created, NEW k \in Created, gmap[n].hndl = gmap[k].hndl,
             SendUpdate(n), NEW e, Update(k, e)
      PROVE  status' = "up" /\ Updated(n)
  <2>1. n = k /\ n \in Names
    BY <1>5 DEF HandlesDistinct, Created
  <2>2. status' = "up" /\ \A j \in Names \ {n} : gmap'[j] = gmap[j]
    BY <1>1, <1>5, <2>1 DEF Update, IInv, TypeOK
  <2> QED
    BY <1>3, <1>5, <2>2 DEF Updated
<1>6. CASE FrontendCreate(c, m)
  <2>1. ASSUME NEW h \in Handles, VarCreate(m.name, m.val, CreateFlags, FALSE, h),
               SendUpdate(m.name)
        PROVE  status' = "up" /\ Updated(m.name) /\ m.name \in Names
    <3>1. m.name \in Names /\ m.val \in Values /\ CreateFlags \in SUBSET {"SAVE", "TRACK"}
      BY <1>1, <1>6 DEF FrontendCreate, WritesBy, CreateFlags
    <3> DEFINE e == [hndl |-> h, flags |-> CreateFlags, dirty |-> FALSE,
                     len |-> LenOf(TypeOf[m.name], m.val), val |-> m.val, raw |-> FALSE]
    <3>2. gmap'[m.name] = e /\ \A k \in Names \ {m.name} : gmap'[k] = gmap[k]
      BY <2>1, <3>1 DEF VarCreate, IInv, TypeOK
    <3>3. e \in Entry
      BY <3>1, LenIsLen DEF Entry
    <3>4. m.name \in Created'
      BY <3>1, <3>2, <3>3, AbsentAssumption DEF Created
    <3> QED
      BY <1>1, <2>1, <3>1, <3>2, <3>4 DEF Updated, VarCreate
  <2> QED
    BY <1>4, <1>6, <2>1 DEF FrontendCreate
<1>7. CASE FrontendSet(c, m)
  <2>1. PICK n \in Names : At(m.hndl, n) /\ SendUpdate(n)
    BY <1>7 DEF FrontendSet
  <2>2. PICK k \in Created : gmap[k].hndl = m.hndl /\ \E e : Update(k, e)
    BY <1>7 DEF FrontendSet, VarSet, At
  <2> QED
    BY <1>5, <2>1, <2>2 DEF At
<1>8. CASE FrontendItem(c, m)
  <2>1. PICK n \in Names :
          /\ At(m.hndl, n)
          /\ \/ EditItem(m) /\ SendUpdate(n)
             \/ UNCHANGED vars /\ SendNoUpdate
    BY <1>8 DEF FrontendItem
  <2>2. ASSUME EditItem(m), SendUpdate(n)
        PROVE  status' = "up" /\ Updated(n)
    <3>1. PICK k \in Created : gmap[k].hndl = m.hndl /\ \E e : Update(k, e)
      BY <2>2, EditAt
    <3> QED
      BY <1>5, <2>1, <2>2, <3>1 DEF At
  <2> QED
    BY <1>4, <2>1, <2>2
<1>9. ASSUME NEW t \in Tables,
             \A n \in Names : t[n] = Absent <=> gmap[n] = Absent,
             gmap' = Cleaned(t, ToSave(t))
      PROVE  /\ Created \subseteq Created' /\ Created' \subseteq Created
             /\ \A k \in Created : gmap'[k].val = t[k].val
  BY <1>9, CleanedFacts DEF Created
<1>10. CASE FrontendSave(c, m)
  <2>1. gmap \in Tables /\ gmap' = Cleaned(gmap, ToSave(gmap)) /\ status' = "up"
    BY <1>1, <1>10, TableFacts DEF FrontendSave, VarSave
  <2>2. behind' = behind /\ (SendLeftover \/ (SendNothing /\ UNCHANGED fwdbuf))
    BY <1>10 DEF FrontendSave
  <2> QED
    BY <1>9, <2>1, <2>2 DEF Leftover
<1>11. CASE FrontendRestore(c, m)
  <2>1. ASSUME VarRestore, SendLeftover,
               behind' = behind \cup {n \in Created : gmap'[n].val # gmap[n].val}
        PROVE  status' = "up" /\ Leftover
    <3> DEFINE t == Restored(gmap, disk)
    <3>1. t \in Tables /\ gmap' = Cleaned(t, ToSave(t)) /\ status' = "up"
      BY <1>1, <2>1, RestoredFacts DEF VarRestore
    <3>2. \A n \in Names : t[n] = Absent <=> gmap[n] = Absent
      BY RestoredFacts DEF Restored
    <3> HIDE DEF t
    <3>3. Created \subseteq Created' /\ Created' \subseteq Created
      BY <1>9, <3>1, <3>2
    <3> QED
      BY <2>1, <3>1, <3>3 DEF Leftover, Created
  <2> QED
    BY <1>4, <1>11, <2>1 DEF FrontendRestore
<1> QED
  BY <1>6, <1>7, <1>8, <1>10, <1>11 DEF HandleFrontend, m

LEMMA FrontendForwards ==
  ASSUME IInv, HandlesDistinct, HandlesIssued, NEW c \in Clients, HandleFrontend(c)
  PROVE  ForwardsIssued'
<1>1. [Next]_vars
  BY FrontendStep
<1>2. IInv' /\ Live' \subseteq issued' /\ issued \subseteq issued'
  BY <1>1, NextInv, LiveStep DEF HandlesIssued
<1>3. ASSUME NEW n \in Names, Updated(n)
      PROVE  ForwardsIssued'
  <2>1. gmap'[n] \in Entry /\ gmap'[n].hndl \in issued'
    BY <1>2, <1>3 DEF Updated, Created, Live, IInv, TypeOK
  <2>2. fwdbuf' \in ForwardsBy(issued')
    BY <1>3, <2>1, ForwardOfEntry DEF Updated, SendUpdate
  <2>3. out' \in [Clients -> Seq(ForwardsBy(issued'))]
    BY <1>2, <1>3, <2>2, IssuedGrows, SentIssued DEF Updated, SendUpdate
  <2> QED
    BY <2>2, <2>3 DEF ForwardsIssued
<1>4. ASSUME Leftover
      PROVE  ForwardsIssued'
  <2>1. CASE SendNothing
    BY <1>2, <1>4, <2>1, IssuedGrows DEF Leftover, SendNothing, SendLeftover, ForwardsIssued
  <2>2. CASE fwdbuf # Nil /\ Send(fwdbuf)
    <3>1. fwdbuf \in ForwardsBy(issued') /\ fwdbuf' = fwdbuf
      BY <1>2, <1>4, <2>2, IssuedGrows DEF Leftover, SendLeftover
    <3>2. out' \in [Clients -> Seq(ForwardsBy(issued'))]
      BY <1>2, <2>2, <3>1, IssuedGrows, SentIssued
    <3> QED
      BY <3>1, <3>2 DEF ForwardsIssued
  <2> QED
    BY <1>4, <2>1, <2>2 DEF Leftover, SendLeftover
<1> QED
  BY <1>3, <1>4, FrontendOutcomes

LEMMA ForwardsStep ==
  ASSUME IInv, HandlesDistinct, HandlesIssued, [ServerNext]_allvars
  PROVE  ForwardsIssued'
<1>1. issued \subseteq issued'
  BY TableStep, LiveStep DEF HandlesIssued
<1>2. UNCHANGED <<out, fwdbuf>> => ForwardsIssued'
  BY <1>1, IssuedGrows DEF ForwardsIssued
<1>3. ASSUME NEW c \in Clients, ClientCall(c)
      PROVE  UNCHANGED <<out, fwdbuf>>
  BY <1>3, CallFrame DEF Quiet
<1>4. ASSUME NEW c \in Clients, Join(c) \/ Return(c) \/ Accept(c) \/ HandleReply(c)
      PROVE  UNCHANGED <<out, fwdbuf>>
  BY <1>4 DEF Join, Return, Accept, HandleReply
<1>5. ASSUME NEW c \in Clients, HandleNotification(c)
      PROVE  ForwardsIssued'
  <2>1. UNCHANGED <<issued, fwdbuf>> /\ out[c] # <<>> /\ out' = [out EXCEPT ![c] = Tail(@)]
    BY <1>5 DEF HandleNotification, DSV_GetNotification, vars
  <2>2. Tail(out[c]) \in Seq(ForwardsBy(issued))
    BY <2>1, HeadTailProperties DEF HandlesIssued
  <2> QED
    BY <2>1, <2>2 DEF HandlesIssued, ForwardsIssued
<1>6. ASSUME NEW c \in Clients, DSV_Close(c)
      PROVE  ForwardsIssued'
  <2>1. UNCHANGED <<issued, fwdbuf>> /\ out' = [out EXCEPT ![c] = <<>>]
    BY <1>6 DEF DSV_Close, vars
  <2>2. <<>> \in Seq(ForwardsBy(issued))
    BY EmptySeq
  <2> QED
    BY <2>1, <2>2 DEF HandlesIssued, ForwardsIssued
<1>7. CASE HandleBackend
  <2> DEFINE n == Head(news)
  <2>1. UNCHANGED <<issued, fwdbuf>> /\ LastValue(n)
    BY <1>7 DEF HandleBackend, vars
  <2>2. CASE n \in Created
    <3>1. n \in Names /\ gmap[n] \in Entry /\ gmap[n].hndl \in issued
      BY <2>2, EntryOf DEF Created, HandlesIssued, Live
    <3>2. Forward(gmap, n) \in ForwardsBy(issued)
      BY <3>1, ForwardOfEntry
    <3>3. out' \in [Clients -> Seq(ForwardsBy(issued))]
      BY <2>1, <2>2, <3>2, SentIssued DEF LastValue, HandlesIssued
    <3> QED
      BY <2>1, <3>3 DEF ForwardsIssued, HandlesIssued
  <2>3. CASE n \notin Created
    BY <1>2, <2>1, <2>3 DEF LastValue, SendNothing
  <2> QED
    BY <2>2, <2>3
<1>8. CASE Restart \/ UNCHANGED allvars
  BY <1>2, <1>8 DEF Restart, allvars, cvars
<1>9. CASE Stop \/ \E c \in Clients : HandleFrontendUndefined(c) \/ HandleReplyUndefined(c)
  BY <1>1, <1>9, LostIssued DEF Stop, HandleFrontendUndefined, HandleReplyUndefined
<1> QED
  BY <1>2, <1>3, <1>4, <1>5, <1>6, <1>7, <1>8, <1>9, FrontendForwards DEF ServerNext

(* What every step rests on.                                                  *)
ServerBase == IInv /\ HandlesDistinct /\ HandlesIssued

LEMMA BaseStep ==
  ASSUME ServerBase, [ServerNext]_allvars
  PROVE  ServerBase' /\ [Next]_vars
<1>1. [Next]_vars /\ IInv'
  BY TableStep, NextInv DEF ServerBase
<1>2. HandlesDistinct'
  BY <1>1, DistinctStep DEF ServerBase
<1>3. Live' \subseteq issued'
  BY <1>1, LiveStep DEF ServerBase, HandlesIssued
<1>4. HandlesIssued'
  BY <1>3, RequestsStep, ForwardsStep
     DEF ServerBase, HandlesIssued, RequestsIssued, ForwardsIssued
<1> QED
  BY <1>1, <1>2, <1>4 DEF ServerBase

LEMMA BaseInit == ServerInit => Init /\ ServerBase
<1> SUFFICES ASSUME ServerInit PROVE Init /\ ServerBase
  OBVIOUS
<1>1. Init /\ IInv
  BY InitInv DEF ServerInit
<1>2. Live = {} /\ HandlesDistinct
  BY <1>1 DEF Init, Live, Created, HandlesDistinct
<1>3. <<>> \in Seq(WritesBy(issued)) /\ <<>> \in Seq(ForwardsBy(issued))
  BY EmptySeq
<1>4. HandlesIssued
  BY <1>1, <1>2, <1>3 DEF ServerInit, HandlesIssued, PerClient, PerName
<1> QED
  BY <1>1, <1>2, <1>4 DEF ServerBase

LEMMA BaseInvariance == ServerSpec => []ServerBase
BY BaseInit, BaseStep, PTL DEF ServerSpec

-----------------------------------------------------------------------------
(* A handle that a client holds, sends or is answered with was given out by   *)
(* some server process; requests that fail never leave one that was not.      *)
THEOREM OnlyIssuedHandles == ServerSpec => []HandlesIssued
BY BaseInvariance, PTL DEF ServerBase

(* The server with its clients, sockets and restarts implements DsvVar: what  *)
(* is proved of the table alone holds of it.                                  *)
THEOREM ServerKeepsTable == ServerSpec => TableSpec
<1>1. ServerBase /\ [ServerNext]_allvars => ServerBase' /\ [Next]_vars
  BY BaseStep
<1> QED
  BY <1>1, BaseInit, PTL DEF ServerSpec, TableSpec, Spec

(* So a client's cached handle stays good as long as the server runs.         *)
THEOREM ServerKeepsHandles == ServerSpec => HandleKept
BY ServerKeepsTable, HandlesKept, PTL DEF TableSpec

-----------------------------------------------------------------------------
(* The types of what the sockets and the clients hold besides.                *)
RestTyped ==
  /\ joined \subseteq Clients
  /\ subq \in [Clients -> SUBSET Names]
  /\ subs \in [Names -> SUBSET Clients]
  /\ news \in Seq(Names)
  /\ view \in [Clients -> [Names -> Values \cup {Nil}]]
  /\ told \subseteq Clients \X Names
  /\ behind \subseteq Names
  /\ calls \in Nat

LEMMA SendTyped ==
  ASSUME RestTyped, NEW f, f.name \in Names, Send(f)
  PROVE  told' \subseteq Clients \X Names
BY DEF Send, RestTyped

LEMMA FrontendTyped ==
  ASSUME ServerBase, RestTyped, NEW c \in Clients, HandleFrontend(c)
  PROVE  RestTyped'
<1>1. UNCHANGED <<joined, subq, subs, news, view, calls>>
  BY DEF HandleFrontend, Take
<1>2. ASSUME NEW n \in Names, Updated(n)
      PROVE  told' \subseteq Clients \X Names /\ behind' \subseteq Names
  <2>1. fwdbuf'.name = n /\ Send(fwdbuf') /\ behind' = behind \ {n}
    BY <1>2 DEF Updated, SendUpdate, Forward
  <2> QED
    BY <2>1, SendTyped DEF RestTyped
<1>3. ASSUME Leftover
      PROVE  told' \subseteq Clients \X Names /\ behind' \subseteq Names
  <2>1. fwdbuf # Nil => fwdbuf.name \in Names
    BY DEF ServerBase, HandlesIssued, ForwardsBy
  <2> QED
    BY <1>3, <2>1, SendTyped DEF Leftover, SendLeftover, SendNothing, RestTyped
<1> QED
  BY <1>1, <1>2, <1>3, FrontendOutcomes DEF RestTyped, ServerBase

LEMMA TypedStep ==
  ASSUME ServerBase, RestTyped, [ServerNext]_allvars
  PROVE  RestTyped'
<1>1. ASSUME NEW c \in Clients, ClientCall(c) \/ Join(c) \/ Return(c) \/ HandleReply(c)
      PROVE  RestTyped'
  <2>1. CASE ClientCall(c)
    <3>1. UNCHANGED <<joined, subs, news, view, told, behind>>
      BY <2>1, CallFrame DEF Quiet
    <3>2. subq' = subq \/ \E n \in Names : subq' = [subq EXCEPT ![c] = @ \cup {n}]
      BY <2>1, CallFrame DEF Quiet
    <3>3. subq' \in [Clients -> SUBSET Names]
      BY <3>2 DEF RestTyped
    <3>4. calls' \in Nat
      BY <2>1, CallFrame DEF Quiet, RestTyped
    <3> QED
      BY <3>1, <3>3, <3>4 DEF RestTyped
  <2>2. CASE Join(c) \/ Return(c) \/ HandleReply(c)
    BY <2>2 DEF Join, Return, HandleReply, RestTyped
  <2> QED
    BY <1>1, <2>1, <2>2
<1>2. ASSUME NEW c \in Clients, HandleNotification(c)
      PROVE  RestTyped'
  <2>1. /\ UNCHANGED <<joined, subq, subs, news, told, behind, calls>> /\ out[c] # <<>>
        /\ view' = [view EXCEPT ![c][Head(out[c]).name] = Head(out[c]).val]
    BY <1>2 DEF HandleNotification, DSV_GetNotification
  <2>2. Head(out[c]) \in ForwardsBy(issued)
    BY <2>1, HeadTailProperties DEF ServerBase, HandlesIssued
  <2>3. Head(out[c]).name \in Names /\ Head(out[c]).val \in Values
    BY <2>2 DEF ForwardsBy
  <2> QED
    BY <2>1, <2>3 DEF RestTyped
<1>3. ASSUME NEW c \in Clients, DSV_Close(c)
      PROVE  RestTyped'
  <2>1. PerName(Nil) \in [Names -> Values \cup {Nil}]
    BY DEF PerName
  <2>2. view' \in [Clients -> [Names -> Values \cup {Nil}]]
    BY <1>3, <2>1 DEF DSV_Close, RestTyped
  <2> QED
    BY <1>3, <2>2 DEF DSV_Close, RestTyped
<1>4. ASSUME NEW c \in Clients, Accept(c)
      PROVE  RestTyped'
  <2>1. PICK n \in subq[c] :
          /\ subq' = [subq EXCEPT ![c] = @ \ {n}]
          /\ subs' = [subs EXCEPT ![n] = @ \cup {c}]
          /\ news' = IF subs[n] = {} THEN Append(news, n) ELSE news
    BY <1>4 DEF Accept
  <2>2. n \in Names
    BY <2>1 DEF RestTyped
  <2>3. Append(news, n) \in Seq(Names)
    BY <2>2, AppendProperties DEF RestTyped
  <2>4. subq' \in [Clients -> SUBSET Names] /\ subs' \in [Names -> SUBSET Clients]
    BY <2>1, <2>2 DEF RestTyped
  <2>5. news' \in Seq(Names)
    BY <2>1, <2>3 DEF RestTyped
  <2> QED
    BY <1>4, <2>4, <2>5 DEF Accept, RestTyped
<1>5. CASE HandleBackend
  <2>1. UNCHANGED <<joined, subq, subs, view, behind, calls>> /\ news # <<>> /\ news' = Tail(news)
    BY <1>5 DEF HandleBackend
  <2>2. Head(news) \in Names /\ Tail(news) \in Seq(Names)
    BY <2>1, HeadTailProperties DEF RestTyped
  <2>3. told' \subseteq Clients \X Names
    <3>1. CASE Send(Forward(gmap, Head(news)))
      BY <2>2, <3>1, SendTyped DEF Forward
    <3>2. CASE SendNothing
      BY <3>2 DEF SendNothing, RestTyped
    <3> QED
      BY <1>5, <3>1, <3>2 DEF HandleBackend, LastValue
  <2> QED
    BY <2>1, <2>2, <2>3 DEF RestTyped
<1>6. ASSUME LoseConnections
      PROVE  RestTyped'
  <2>1. <<>> \in Seq(Names)
    BY EmptySeq
  <2>2. subq' \in [Clients -> SUBSET Names] /\ subs' \in [Names -> SUBSET Clients]
    BY <1>6 DEF LoseConnections, PerName, RestTyped
  <2> QED
    BY <1>6, <2>1, <2>2 DEF LoseConnections, RestTyped
<1>7. CASE Restart \/ UNCHANGED allvars
  BY <1>7 DEF Restart, allvars, cvars, RestTyped
<1> QED
  BY <1>1, <1>2, <1>3, <1>4, <1>5, <1>6, <1>7, FrontendTyped
     DEF ServerNext, HandleFrontendUndefined, HandleReplyUndefined, Stop

(* Every variable of the server, its clients and their connections has its    *)
(* type, whatever the clients call and however servers end.                   *)
THEOREM ServerTyped == ServerSpec => []ServerTypeOK
<1>1. ServerInit => RestTyped
  <2>1. <<>> \in Seq(Names)
    BY EmptySeq
  <2> QED
    BY <2>1 DEF ServerInit, PerClient, PerName, RestTyped
<1>2. ServerBase /\ RestTyped => ServerTypeOK
  <2> SUFFICES ASSUME ServerBase, RestTyped PROVE ServerTypeOK
    OBVIOUS
  <2>1. TypeOK /\ issued \subseteq Handles
    BY DEF ServerBase, IInv, TypeOK
  <2>2. WritesBy(issued) \subseteq WritesBy(Handles)
    BY <2>1 DEF WritesBy
  <2>3. BlockedBy(issued) \subseteq BlockedBy(Handles)
    BY <2>1 DEF BlockedBy
  <2>4. ForwardsBy(issued) \subseteq ForwardsBy(Handles)
    BY <2>1 DEF ForwardsBy
  <2>5. front \in [Clients -> Seq(WritesBy(Handles))]
    BY <2>2, SeqGrows DEF ServerBase, HandlesIssued
  <2>6. out \in [Clients -> Seq(ForwardsBy(Handles))]
    BY <2>4, SeqGrows DEF ServerBase, HandlesIssued
  <2>7. /\ call \in [Clients -> BlockedBy(Handles) \cup {Nil}]
        /\ fwdbuf \in ForwardsBy(Handles) \cup {Nil}
    BY <2>3, <2>4 DEF ServerBase, HandlesIssued
  <2>8. cache \in [Clients -> [Names -> Handles \cup {Nil}]]
    BY <2>1 DEF ServerBase, HandlesIssued
  <2> QED
    BY <2>1, <2>5, <2>6, <2>7, <2>8 DEF RestTyped, ServerTypeOK
<1> QED
  BY <1>1, <1>2, BaseInit, BaseStep, TypedStep, PTL DEF ServerSpec

-----------------------------------------------------------------------------
(* What a client will have heard of a name when it has read its queue q, if   *)
(* v is what it last heard.                                                   *)
Heard(q, v, n) ==
  LET I == {i \in DOMAIN q : q[i].name = n}
  IN IF I = {} THEN v ELSE q[CHOOSE i \in I : \A j \in I : j <= i].val

\* The places of a queue that hold a name have a last one: the places from it
\* on are the fewest.
LEMMA LastPlace ==
  ASSUME NEW k \in Nat, NEW S \in SUBSET (1..k), S # {}
  PROVE  \E x \in S : \A y \in S : y <= x
<1> DEFINE From(x) == {y \in S : x <= y}
           T == {From(x) : x \in S}
<1>0. \A y \in S : y \in Nat
  OBVIOUS
<1>1. IsWellFoundedOn(StrictSubsetOrdering(1..k), FiniteSubsetsOf(1..k))
  BY FS_StrictSubsetOrderingWellFounded
<1>2. T \subseteq FiniteSubsetsOf(1..k)
  <2>1. IsFiniteSet(1..k)
    BY FS_Interval
  <2>2. ASSUME NEW x \in S PROVE From(x) \in SUBSET (1..k) /\ IsFiniteSet(From(x))
    BY <2>1, FS_Subset
  <2> QED
    BY <2>2 DEF FiniteSubsetsOf
<1>3. T # {}
  OBVIOUS
<1> HIDE DEF T
<1>4. PICK U \in T : \A V \in T : ~ (<<V, U>> \in StrictSubsetOrdering(1..k))
  BY <1>1, <1>2, <1>3, WFMin
<1>5. PICK x \in S : U = From(x)
  BY DEF T
<1>6. ASSUME NEW y \in S, ~(y <= x)
      PROVE  FALSE
  <2>1. From(y) \in T
    BY DEF T
  <2>2. From(y) \subseteq From(x) /\ x \in From(x) /\ x \notin From(y)
    <3>1. x \in Nat /\ y \in Nat /\ x <= x /\ x < y
      BY <1>0, <1>6
    <3>2. \A z \in S : y <= z => x <= z
      BY <1>0, <3>1
    <3>3. x \in From(x) /\ x \notin From(y)
      BY <1>6, <3>1
    <3>4. From(y) \subseteq From(x)
      BY <3>2
    <3> QED
      BY <3>3, <3>4
  <2>3. From(y) \in SUBSET (1..k) /\ From(x) \in SUBSET (1..k)
    OBVIOUS
  <2> HIDE DEF From
  <2>4. <<From(y), From(x)>> \in StrictSubsetOrdering(1..k)
    BY <2>2, <2>3 DEF StrictSubsetOrdering
  <2> QED
    BY <1>4, <1>5, <2>1, <2>4
<1> QED
  BY <1>6

LEMMA HeardAt ==
  ASSUME NEW q, NEW v, NEW n, DOMAIN q \subseteq Nat, NEW i \in DOMAIN q, q[i].name = n,
         \A j \in DOMAIN q : q[j].name = n => j <= i
  PROVE  Heard(q, v, n) = q[i].val
<1> DEFINE I == {j \in DOMAIN q : q[j].name = n}
<1>1. DOMAIN q \subseteq Nat
  OBVIOUS
<1>2. i \in I /\ \A j \in I : j <= i
  OBVIOUS
<1>3. \A j \in I : (\A l \in I : l <= j) => j = i
  <2> SUFFICES ASSUME NEW j \in I, \A l \in I : l <= j PROVE j = i
    OBVIOUS
  <2>1. i <= j /\ j <= i /\ i \in Nat /\ j \in Nat
    BY <1>1, <1>2
  <2> QED
    BY <2>1
<1>4. (CHOOSE j \in I : \A l \in I : l <= j) = i
  BY <1>2, <1>3
<1> QED
  BY <1>2, <1>4 DEF Heard

LEMMA HeardCases ==
  ASSUME NEW S, NEW q \in Seq(S), NEW n
  PROVE  \/ \A i \in DOMAIN q : q[i].name # n
         \/ \E i \in DOMAIN q : /\ q[i].name = n
                                /\ \A j \in DOMAIN q : q[j].name = n => j <= i
<1> DEFINE I == {j \in DOMAIN q : q[j].name = n}
<1>1. DOMAIN q = 1..Len(q) /\ Len(q) \in Nat
  BY LenProperties
<1>2. I \in SUBSET (1..Len(q))
  BY <1>1
<1>3. I # {} => \E i \in I : \A j \in I : j <= i
  BY <1>1, <1>2, LastPlace
<1> QED
  BY <1>3

LEMMA HeardNothing ==
  ASSUME NEW q, NEW v, NEW n, \A i \in DOMAIN q : q[i].name # n
  PROVE  Heard(q, v, n) = v
BY DEF Heard

LEMMA HeardAppend ==
  ASSUME NEW S, NEW q \in Seq(S), NEW f \in S, NEW v, NEW n
  PROVE  Heard(Append(q, f), v, n) = IF f.name = n THEN f.val ELSE Heard(q, v, n)
<1> DEFINE a == Append(q, f)
<1>1. /\ DOMAIN q = 1..Len(q) /\ Len(q) \in Nat
      /\ a \in Seq(S) /\ DOMAIN a = 1..Len(q) + 1
      /\ \A i \in 1..Len(q) : a[i] = q[i]
      /\ a[Len(q) + 1] = f
  BY LenProperties, AppendProperties
<1> HIDE DEF a
<1>0. DOMAIN a \subseteq Nat /\ DOMAIN q \subseteq Nat
  BY <1>1
<1>2. ASSUME f.name = n
      PROVE  Heard(a, v, n) = f.val
  <2>1. Len(q) + 1 \in DOMAIN a /\ \A j \in DOMAIN a : j <= Len(q) + 1
    BY <1>1
  <2>2. Heard(a, v, n) = a[Len(q) + 1].val
    BY <1>0, <1>1, <1>2, <2>1, HeardAt
  <2> QED
    BY <1>1, <2>2
<1>3. ASSUME f.name # n, \A i \in DOMAIN q : q[i].name # n
      PROVE  Heard(a, v, n) = Heard(q, v, n)
  <2>1. \A i \in DOMAIN a : a[i].name # n
    BY <1>1, <1>3
  <2> QED
    BY <1>3, <2>1, HeardNothing
<1>4. ASSUME f.name # n,
             NEW i \in DOMAIN q, q[i].name = n, \A j \in DOMAIN q : q[j].name = n => j <= i
      PROVE  Heard(a, v, n) = Heard(q, v, n)
  <2>1. i \in DOMAIN a /\ a[i] = q[i] /\ \A j \in DOMAIN a : a[j].name = n => j <= i
    BY <1>1, <1>4
  <2>2. Heard(a, v, n) = a[i].val
    BY <1>0, <1>4, <2>1, HeardAt
  <2>3. Heard(q, v, n) = q[i].val
    BY <1>0, <1>4, HeardAt
  <2> QED
    BY <2>1, <2>2, <2>3
<1> QED
  BY <1>2, <1>3, <1>4, HeardCases DEF a

LEMMA HeardTail ==
  ASSUME NEW S, NEW q \in Seq(S), q # <<>>, NEW v, NEW n
  PROVE  Heard(Tail(q), IF Head(q).name = n THEN Head(q).val ELSE v, n) = Heard(q, v, n)
<1> DEFINE t == Tail(q)
           w == IF Head(q).name = n THEN Head(q).val ELSE v
<1>1. /\ DOMAIN q = 1..Len(q) /\ Len(q) \in Nat /\ Len(q) # 0 /\ Head(q) = q[1]
      /\ t \in Seq(S) /\ Len(t) = Len(q) - 1
      /\ \A i \in 1..Len(t) : t[i] = q[i + 1]
  BY LenProperties, HeadTailProperties, EmptySeq
<1>2. DOMAIN t = 1..Len(q) - 1
  BY <1>1, LenProperties
<1>0. DOMAIN t \subseteq Nat /\ DOMAIN q \subseteq Nat
  BY <1>1, <1>2
<1> HIDE DEF t
<1>3. CASE \A i \in DOMAIN t : t[i].name # n
  <2>1. Heard(t, w, n) = w
    BY <1>3, HeardNothing
  <2>2. \A i \in DOMAIN q : i # 1 => q[i].name # n
    <3> SUFFICES ASSUME NEW i \in DOMAIN q, i # 1 PROVE q[i].name # n
      OBVIOUS
    <3>1. i - 1 \in DOMAIN t /\ t[i - 1] = q[i]
      BY <1>1, <1>2
    <3> QED
      BY <1>3, <3>1
  <2>3. CASE q[1].name = n
    <3>1. 1 \in DOMAIN q /\ \A j \in DOMAIN q : q[j].name = n => j <= 1
      BY <1>1, <2>2
    <3> QED
      BY <1>0, <1>1, <2>1, <2>3, <3>1, HeardAt DEF t
  <2>4. CASE q[1].name # n
    <3>1. \A i \in DOMAIN q : q[i].name # n
      BY <2>2, <2>4
    <3> QED
      BY <1>1, <2>1, <2>4, <3>1, HeardNothing DEF t
  <2> QED
    BY <2>3, <2>4
<1>4. ASSUME NEW i \in DOMAIN t, t[i].name = n, \A j \in DOMAIN t : t[j].name = n => j <= i
      PROVE  Heard(t, w, n) = Heard(q, v, n)
  <2>1. i + 1 \in DOMAIN q /\ q[i + 1] = t[i]
    BY <1>1, <1>2
  <2>2. ASSUME NEW j \in DOMAIN q, q[j].name = n
        PROVE  j <= i + 1
    <3>1. CASE j # 1
      <4>1. j - 1 \in DOMAIN t /\ t[j - 1] = q[j] /\ j \in Nat /\ i \in Nat
        BY <1>1, <1>2, <3>1
      <4>2. j - 1 <= i
        BY <1>4, <2>2, <4>1
      <4> QED
        BY <4>1, <4>2
    <3>2. CASE j = 1
      BY <1>2, <3>2
    <3> QED
      BY <3>1, <3>2
  <2>3. Heard(t, w, n) = t[i].val
    BY <1>0, <1>4, HeardAt
  <2>4. Heard(q, v, n) = q[i + 1].val
    BY <1>0, <1>4, <2>1, <2>2, HeardAt
  <2> QED
    BY <2>1, <2>3, <2>4
<1> QED
  BY <1>1, <1>3, <1>4, HeardCases DEF t

-----------------------------------------------------------------------------
(* A subscriber that was sent a variable by the present server is subscribed, *)
(* and the forward left in fwd_buf is of a variable as it stands, unless a    *)
(* restore has changed it since.                                              *)
ToldSubscribed == \A c \in Clients, n \in Names : <<c, n>> \in told => c \in subs[n]

AsItStands(f) == /\ f.name \in Created
                 /\ f.name \notin behind => f.val = gmap[f.name].val

StandsAfter(f) == /\ f.name \in Created'
                  /\ f.name \notin behind' => f.val = gmap'[f.name].val

FwdCurrent == fwdbuf # Nil => AsItStands(fwdbuf)

NotifyInv == RestTyped /\ ToldSubscribed /\ FwdCurrent /\ NotifiedIsCurrent

LEMMA LastHeardIs ==
  ASSUME NEW c, NEW n
  PROVE  /\ LastHeard(c, n) = Heard(out[c], view[c][n], n)
         /\ LastHeard(c, n)' = Heard(out'[c], view'[c][n], n)
BY DEF LastHeard, Heard

LEMMA SentHeard ==
  ASSUME NEW H, out \in [Clients -> Seq(ForwardsBy(H))], NEW f \in ForwardsBy(H), Send(f),
         view' = view, NEW c \in Clients, NEW n
  PROVE  LastHeard(c, n)' = IF c \in subs[f.name] /\ f.name = n THEN f.val ELSE LastHeard(c, n)
<1>1. out'[c] = IF c \in subs[f.name] THEN Append(out[c], f) ELSE out[c]
  BY DEF Send
<1>2. Heard(Append(out[c], f), view[c][n], n)
        = IF f.name = n THEN f.val ELSE Heard(out[c], view[c][n], n)
  BY HeardAppend
<1> QED
  BY <1>1, <1>2, LastHeardIs

(* What the forwards of a step are: those of the step before, or one more for *)
(* every subscriber of a name, of its entry as it stands.                     *)
Resent == \E f \in ForwardsBy(Handles) : Send(f) /\ StandsAfter(f)
NotLonger == \A c \in Clients : Len(out'[c]) <= Len(out[c])

LEMMA NotifyFrontend ==
  ASSUME ServerBase, ServerBase', NotifyInv, NEW c \in Clients, HandleFrontend(c)
  PROVE  ToldSubscribed' /\ FwdCurrent' /\ NotifiedIsCurrent' /\ (Resent \/ out' = out)
<1>1. UNCHANGED <<subs, view>> /\ status' = "up" /\ (Leftover \/ \E n \in Names : Updated(n))
  BY FrontendOutcomes DEF HandleFrontend, Take, ServerBase
<1>2. /\ issued \subseteq Handles /\ issued' \subseteq Handles
      /\ gmap \in Tables /\ gmap' \in Tables
  BY DEF ServerBase, IInv, TypeOK, Tables
<1>3. ForwardsBy(issued) \subseteq ForwardsBy(Handles)
  BY <1>2 DEF ForwardsBy
<1>4. out \in [Clients -> Seq(ForwardsBy(Handles))]
  BY <1>3, SeqGrows DEF ServerBase, HandlesIssued
<1>5. ASSUME NEW f \in ForwardsBy(Handles), Send(f)
      PROVE  /\ ToldSubscribed'
             /\ \A b \in Clients, k \in Names :
                  /\ <<b, k>> \in told' /\ k # f.name => <<b, k>> \in told
                  /\ LastHeard(b, k)' = IF b \in subs[f.name] /\ f.name = k THEN f.val
                                        ELSE LastHeard(b, k)
  <2>1. told' = told \cup {<<b, f.name>> : b \in subs[f.name]}
    BY <1>5 DEF Send
  <2>2. ToldSubscribed'
    BY <1>1, <2>1 DEF ToldSubscribed, NotifyInv
  <2>3. \A b \in Clients, k \in Names : <<b, k>> \in told' /\ k # f.name => <<b, k>> \in told
    BY <2>1
  <2> QED
    BY <1>1, <1>4, <1>5, <2>2, <2>3, SentHeard
<1>6. ASSUME NEW n \in Names, Updated(n)
      PROVE  ToldSubscribed' /\ FwdCurrent' /\ NotifiedIsCurrent' /\ Resent
  <2> DEFINE f == fwdbuf'
  <2>1. /\ Send(f) /\ f.name = n /\ f.val = gmap'[n].val /\ f.hndl = gmap'[n].hndl
        /\ behind' = behind \ {n} /\ n \in Created'
        /\ \A k \in Names \ {n} : gmap'[k] = gmap[k]
    BY <1>6 DEF Updated, SendUpdate, Forward
  <2>2. gmap'[n] \in Entry
    BY <1>2, <2>1 DEF Tables, Created
  <2>3. f \in ForwardsBy(Handles) /\ StandsAfter(f)
    BY <1>6, <2>1, <2>2 DEF Updated, SendUpdate, Forward, ForwardsBy, Entry, StandsAfter
  <2>4. FwdCurrent'
    BY <2>3 DEF FwdCurrent, AsItStands, StandsAfter
  <2> HIDE DEF f
  <2>5. ASSUME NEW k \in Created', k \notin behind', NEW b \in Clients,
               b \in subs'[k], <<b, k>> \in told'
        PROVE  LastHeard(b, k)' = gmap'[k].val
    <3>1. CASE k = n
      BY <1>1, <1>5, <2>1, <2>3, <2>5, <3>1
    <3>2. CASE k # n
      <4>1. k \in Names /\ k \in Created /\ k \notin behind /\ gmap'[k] = gmap[k]
        BY <2>1, <2>5, <3>2 DEF Created
      <4>2. <<b, k>> \in told /\ LastHeard(b, k)' = LastHeard(b, k)
        BY <1>5, <2>1, <2>3, <2>5, <3>2, <4>1
      <4> QED
        BY <1>1, <2>5, <4>1, <4>2 DEF NotifyInv, NotifiedIsCurrent
    <3> QED
      BY <3>1, <3>2
  <2>6. NotifiedIsCurrent'
    BY <2>5 DEF NotifiedIsCurrent
  <2> QED
    BY <1>5, <2>1, <2>3, <2>4, <2>6 DEF Resent
<1>7. ASSUME Leftover
      PROVE  ToldSubscribed' /\ FwdCurrent' /\ NotifiedIsCurrent' /\ (Resent \/ out' = out)
  <2>1. /\ \A k \in Created' : k \in Created
        /\ \A k \in Created : k \in Created'
        /\ \A k \in Created : k \notin behind' => k \notin behind /\ gmap'[k].val = gmap[k].val
    BY <1>7 DEF Leftover
  <2>2. \A f : AsItStands(f) => StandsAfter(f)
    BY <2>1 DEF AsItStands, StandsAfter
  <2>3. fwdbuf' = fwdbuf
    BY <1>7 DEF Leftover, SendLeftover
  <2>4. FwdCurrent'
    BY <2>2, <2>3 DEF FwdCurrent, NotifyInv, AsItStands, StandsAfter
  <2>5. ASSUME SendNothing
        PROVE  ToldSubscribed' /\ NotifiedIsCurrent' /\ out' = out
    <3>1. UNCHANGED <<out, told>>
      BY <2>5 DEF SendNothing
    <3>2. \A b, k : LastHeard(b, k)' = LastHeard(b, k)
      BY <1>1, <3>1, LastHeardIs
    <3> QED
      BY <1>1, <2>1, <3>1, <3>2 DEF NotifyInv, ToldSubscribed, NotifiedIsCurrent
  <2>6. ASSUME fwdbuf # Nil, Send(fwdbuf)
        PROVE  ToldSubscribed' /\ NotifiedIsCurrent' /\ Resent
    <3> DEFINE f == fwdbuf
    <3>1. f \in ForwardsBy(Handles) /\ AsItStands(f) /\ Send(f)
      BY <1>3, <2>6 DEF ServerBase, HandlesIssued, NotifyInv, FwdCurrent
    <3> HIDE DEF f
    <3>2. ASSUME NEW k \in Created', k \notin behind', NEW b \in Clients,
                 b \in subs'[k], <<b, k>> \in told'
          PROVE  LastHeard(b, k)' = gmap'[k].val
      <4>1. k \in Names /\ k \in Created /\ k \notin behind /\ gmap'[k].val = gmap[k].val
        BY <2>1, <3>2 DEF Created
      <4>2. CASE k = f.name
        BY <1>1, <1>5, <3>1, <3>2, <4>1, <4>2 DEF AsItStands
      <4>3. CASE k # f.name
        <5>1. <<b, k>> \in told /\ LastHeard(b, k)' = LastHeard(b, k)
          BY <1>5, <3>1, <3>2, <4>1, <4>3
        <5> QED
          BY <1>1, <3>2, <4>1, <5>1 DEF NotifyInv, NotifiedIsCurrent
      <4> QED
        BY <4>2, <4>3
    <3>3. NotifiedIsCurrent'
      BY <3>2 DEF NotifiedIsCurrent
    <3> QED
      BY <1>5, <2>2, <3>1, <3>3 DEF Resent
  <2> QED
    BY <1>7, <2>4, <2>5, <2>6 DEF Leftover, SendLeftover
<1> QED
  BY <1>1, <1>6, <1>7

\* A step that leaves the table, what is sent and who subscribes alone.
LEMMA NotifyStutter ==
  ASSUME NotifyInv, UNCHANGED <<gmap, out, view, subs, told, fwdbuf, behind>>
  PROVE  ToldSubscribed' /\ FwdCurrent' /\ NotifiedIsCurrent'
<1>1. \A c, n : LastHeard(c, n)' = LastHeard(c, n)
  BY LastHeardIs
<1>2. Created' = Created
  BY DEF Created
<1> QED
  BY <1>1, <1>2 DEF NotifyInv, ToldSubscribed, FwdCurrent, AsItStands, NotifiedIsCurrent

LEMMA NotifyRead ==
  ASSUME ServerBase, NotifyInv, NEW c \in Clients, HandleNotification(c)
  PROVE  ToldSubscribed' /\ FwdCurrent' /\ NotifiedIsCurrent' /\ NotLonger
<1> DEFINE f == Head(out[c])
<1>1. /\ UNCHANGED <<gmap, subs, told, fwdbuf, behind>> /\ out[c] # <<>>
      /\ out' = [out EXCEPT ![c] = Tail(@)]
      /\ view' = [view EXCEPT ![c][f.name] = f.val]
  BY DEF HandleNotification, DSV_GetNotification, vars
<1>2. /\ out \in [Clients -> Seq(ForwardsBy(issued))]
      /\ view \in [Clients -> [Names -> Values \cup {Nil}]]
  BY DEF ServerBase, HandlesIssued, NotifyInv, RestTyped
<1>3. f \in ForwardsBy(issued) /\ Len(Tail(out[c])) = Len(out[c]) - 1 /\ Len(out[c]) \in Nat
  BY <1>1, <1>2, HeadTailProperties, LenProperties
<1> HIDE DEF f
<1>4. f.name \in Names
  BY <1>3 DEF ForwardsBy
<1>5. \A b \in Clients : Len(out[b]) \in Nat
  BY <1>2, LenProperties
<1>6. NotLonger
  BY <1>1, <1>2, <1>3, <1>5 DEF NotLonger
<1>7. ASSUME NEW b \in Clients, NEW n \in Names
      PROVE  LastHeard(b, n)' = LastHeard(b, n)
  <2>1. CASE b = c
    <3>1. out'[b] = Tail(out[b]) /\ view'[b][n] = IF f.name = n THEN f.val ELSE view[b][n]
      BY <1>1, <1>2, <1>4, <2>1
    <3>2. Heard(Tail(out[b]), IF f.name = n THEN f.val ELSE view[b][n], n)
            = Heard(out[b], view[b][n], n)
      BY <1>1, <1>2, <2>1, HeardTail DEF f
    <3> QED
      BY <3>1, <3>2, LastHeardIs
  <2>2. CASE b # c
    <3>1. out'[b] = out[b] /\ view'[b] = view[b]
      BY <1>1, <1>2, <2>2
    <3> QED
      BY <3>1, LastHeardIs
  <2> QED
    BY <2>1, <2>2
<1>8. Created' = Created /\ Created \subseteq Names
  BY <1>1 DEF Created
<1> QED
  BY <1>1, <1>6, <1>7, <1>8
     DEF NotifyInv, ToldSubscribed, FwdCurrent, AsItStands, NotifiedIsCurrent

LEMMA NotifyClose ==
  ASSUME ServerBase, NotifyInv, NEW c \in Clients, DSV_Close(c)
  PROVE  ToldSubscribed' /\ FwdCurrent' /\ NotifiedIsCurrent' /\ NotLonger
<1>1. /\ UNCHANGED <<gmap, fwdbuf, behind>>
      /\ out' = [out EXCEPT ![c] = <<>>]
      /\ view' = [view EXCEPT ![c] = PerName(Nil)]
      /\ subs' = [n \in Names |-> subs[n] \ {c}]
      /\ told' = {p \in told : p[1] # c}
  BY DEF DSV_Close, vars
<1>2. /\ out \in [Clients -> Seq(ForwardsBy(issued))]
      /\ view \in [Clients -> [Names -> Values \cup {Nil}]]
  BY DEF ServerBase, HandlesIssued, NotifyInv, RestTyped
<1>3. \A b \in Clients : Len(out[b]) \in Nat
  BY <1>2, LenProperties
<1>4. NotLonger
  <2>1. Len(<<>>) = 0
    BY EmptySeq
  <2> QED
    BY <1>1, <1>2, <1>3, <2>1 DEF NotLonger
<1>5. \A b \in Clients, n \in Names : <<b, n>> \in told' => b # c /\ <<b, n>> \in told
  BY <1>1
<1>6. \A b \in Clients, n \in Names : b # c => LastHeard(b, n)' = LastHeard(b, n)
  BY <1>1, <1>2, LastHeardIs
<1>7. Created' = Created /\ Created \subseteq Names
  BY <1>1 DEF Created
<1>8. ToldSubscribed'
  BY <1>1, <1>5 DEF NotifyInv, ToldSubscribed
<1>9. NotifiedIsCurrent'
  BY <1>1, <1>5, <1>6, <1>7 DEF NotifyInv, NotifiedIsCurrent
<1> QED
  BY <1>1, <1>4, <1>7, <1>8, <1>9 DEF NotifyInv, FwdCurrent, AsItStands

LEMMA NotifyAccept ==
  ASSUME NotifyInv, NEW c \in Clients, Accept(c)
  PROVE  ToldSubscribed' /\ FwdCurrent' /\ NotifiedIsCurrent' /\ out' = out
<1>1. /\ UNCHANGED <<gmap, out, view, told, fwdbuf, behind>>
      /\ \E n : subs' = [subs EXCEPT ![n] = @ \cup {c}]
  BY DEF Accept, vars
<1>2. \A k \in Names : subs[k] \subseteq subs'[k]
  BY <1>1 DEF NotifyInv, RestTyped
<1>3. \A b, n : LastHeard(b, n)' = LastHeard(b, n)
  BY <1>1, LastHeardIs
<1>4. Created' = Created /\ Created \subseteq Names
  BY <1>1 DEF Created
<1>5. ToldSubscribed'
  BY <1>1, <1>2 DEF NotifyInv, ToldSubscribed
<1>6. NotifiedIsCurrent'
  BY <1>1, <1>3, <1>4 DEF NotifyInv, NotifiedIsCurrent, ToldSubscribed
<1> QED
  BY <1>1, <1>4, <1>5, <1>6 DEF NotifyInv, FwdCurrent, AsItStands

LEMMA NotifyBackend ==
  ASSUME ServerBase, NotifyInv, HandleBackend
  PROVE  ToldSubscribed' /\ FwdCurrent' /\ NotifiedIsCurrent' /\ (Resent \/ out' = out)
<1> DEFINE n == Head(news)
           f == Forward(gmap, n)
<1>1. UNCHANGED <<gmap, view, subs, fwdbuf, behind>> /\ LastValue(n)
  BY DEF HandleBackend, vars
<1>2. Created' = Created /\ Created \subseteq Names
  BY <1>1 DEF Created
<1>3. FwdCurrent'
  BY <1>1, <1>2 DEF NotifyInv, FwdCurrent, AsItStands
<1>4. CASE n \in Created
  <2>1. Send(f) /\ f.name = n /\ f.val = gmap[n].val
    BY <1>1, <1>4 DEF LastValue, Forward
  <2>2. gmap[n] \in Entry /\ issued \subseteq Handles
    BY <1>4, EntryOf DEF ServerBase, IInv, TypeOK
  <2>3. f \in ForwardsBy(Handles) /\ StandsAfter(f)
    BY <1>1, <1>2, <1>4, <2>2, ForwardOfEntry DEF Forward, StandsAfter, Entry
  <2>4. out \in [Clients -> Seq(ForwardsBy(Handles))]
    <3>1. ForwardsBy(issued) \subseteq ForwardsBy(Handles)
      BY <2>2 DEF ForwardsBy
    <3> QED
      BY <3>1, SeqGrows DEF ServerBase, HandlesIssued
  <2> HIDE DEF f
  <2>5. \A b \in Clients, k \in Names :
          LastHeard(b, k)' = IF b \in subs[n] /\ n = k THEN gmap[n].val ELSE LastHeard(b, k)
    BY <1>1, <2>1, <2>3, <2>4, SentHeard
  <2>6. told' = told \cup {<<b, n>> : b \in subs[n]}
    BY <2>1 DEF Send
  <2>7. ToldSubscribed'
    BY <1>1, <2>6 DEF NotifyInv, ToldSubscribed
  <2>8. NotifiedIsCurrent'
    BY <1>1, <1>2, <2>5, <2>6 DEF NotifyInv, NotifiedIsCurrent
  <2> QED
    BY <1>3, <2>1, <2>3, <2>7, <2>8 DEF Resent
<1>5. CASE n \notin Created
  <2>1. UNCHANGED <<gmap, out, view, subs, told, fwdbuf, behind>>
    BY <1>1, <1>5 DEF LastValue, SendNothing
  <2> QED
    BY <2>1, NotifyStutter
<1> QED
  BY <1>4, <1>5

LEMMA NotifyLost ==
  ASSUME ServerBase, LoseConnections
  PROVE  ToldSubscribed' /\ FwdCurrent' /\ NotifiedIsCurrent' /\ NotLonger
<1>1. told' = {} /\ fwdbuf' = Nil
  BY DEF LoseConnections
<1>2. PICK k \in Cuts(out) : out' = [c \in Clients |-> SubSeq(out[c], 1, k[c])]
  BY DEF LoseConnections
<1>3. ASSUME NEW c \in Clients
      PROVE  Len(out'[c]) <= Len(out[c])
  <2>1. k[c] \in Nat /\ k[c] <= Len(out[c])
    BY <1>2, ServerAssumption DEF Cuts
  <2>2. out[c] \in Seq(ForwardsBy(issued)) /\ Len(out[c]) \in Nat
    BY LenProperties DEF ServerBase, HandlesIssued
  <2>3. Len(SubSeq(out[c], 1, k[c])) = k[c]
    BY <2>1, <2>2, SubSeqProperties
  <2> QED
    BY <1>2, <2>1, <2>3
<1> QED
  BY <1>1, <1>3 DEF ToldSubscribed, FwdCurrent, NotifiedIsCurrent, NotLonger

LEMMA NotifyStep ==
  ASSUME ServerBase, NotifyInv, [ServerNext]_allvars
  PROVE  NotifyInv' /\ (Resent \/ NotLonger)
<1>1. ServerBase' /\ RestTyped'
  BY BaseStep, TypedStep DEF NotifyInv
<1>2. out' = out => NotLonger
  <2>1. \A c \in Clients : Len(out[c]) \in Nat
    BY LenProperties DEF ServerBase, HandlesIssued
  <2> QED
    BY <2>1 DEF NotLonger
<1>3. ASSUME NEW c \in Clients, ClientCall(c) \/ Join(c) \/ Return(c) \/ HandleReply(c)
      PROVE  NotifyInv' /\ NotLonger
  <2>1. CASE ClientCall(c)
    <3>1. UNCHANGED <<gmap, out, view, subs, told, fwdbuf, behind>>
      BY <2>1, CallFrame DEF Quiet, vars
    <3> QED
      BY <1>1, <1>2, <3>1, NotifyStutter DEF NotifyInv
  <2>2. CASE Join(c) \/ Return(c) \/ HandleReply(c)
    <3>1. UNCHANGED <<gmap, out, view, subs, told, fwdbuf, behind>>
      BY <2>2 DEF Join, Return, HandleReply, vars
    <3> QED
      BY <1>1, <1>2, <3>1, NotifyStutter DEF NotifyInv
  <2> QED
    BY <1>3, <2>1, <2>2
<1>4. ASSUME NEW c \in Clients, HandleNotification(c) \/ DSV_Close(c)
      PROVE  NotifyInv' /\ NotLonger
  BY <1>1, <1>4, NotifyRead, NotifyClose DEF NotifyInv
<1>5. ASSUME NEW c \in Clients, Accept(c)
      PROVE  NotifyInv' /\ NotLonger
  BY <1>1, <1>2, <1>5, NotifyAccept DEF NotifyInv
<1>6. ASSUME NEW c \in Clients, HandleFrontend(c)
      PROVE  NotifyInv' /\ (Resent \/ NotLonger)
  BY <1>1, <1>2, <1>6, NotifyFrontend DEF NotifyInv
<1>7. CASE HandleBackend
  BY <1>1, <1>2, <1>7, NotifyBackend DEF NotifyInv
<1>8. CASE Stop \/ \E c \in Clients : HandleFrontendUndefined(c) \/ HandleReplyUndefined(c)
  BY <1>1, <1>8, NotifyLost DEF NotifyInv, Stop, HandleFrontendUndefined, HandleReplyUndefined
<1>9. CASE Restart \/ UNCHANGED allvars
  <2>1. UNCHANGED <<gmap, out, view, subs, told, fwdbuf, behind>>
    BY <1>9 DEF Restart, Start, allvars, cvars, vars
  <2> QED
    BY <1>1, <1>2, <2>1, NotifyStutter DEF NotifyInv
<1> QED
  BY <1>3, <1>4, <1>5, <1>6, <1>7, <1>8, <1>9 DEF ServerNext

LEMMA NotifyInit == ServerInit => ServerBase /\ NotifyInv
<1> SUFFICES ASSUME ServerInit PROVE ServerBase /\ NotifyInv
  OBVIOUS
<1>1. <<>> \in Seq(Names)
  BY EmptySeq
<1>2. RestTyped
  BY <1>1 DEF ServerInit, PerClient, PerName, RestTyped
<1>3. ToldSubscribed /\ FwdCurrent /\ NotifiedIsCurrent
  BY DEF ServerInit, ToldSubscribed, FwdCurrent, NotifiedIsCurrent
<1> QED
  BY <1>2, <1>3, BaseInit DEF NotifyInv

(* A subscriber the present server has sent a variable holds, once it has     *)
(* read its queue, the value of the table, however creates, sets, first       *)
(* subscriptions, closes and restarts of any number of clients interleave.    *)
THEOREM SubscribersAreCurrent == ServerSpec => []NotifiedIsCurrent
<1>1. NotifyInv => NotifiedIsCurrent
  BY DEF NotifyInv
<1>2. ServerBase /\ NotifyInv /\ [ServerNext]_allvars => ServerBase' /\ NotifyInv'
  BY BaseStep, NotifyStep
<1> QED
  BY <1>1, <1>2, NotifyInit, PTL DEF ServerSpec

(* Whatever is forwarded is a variable as it stands after the step, unless a  *)
(* restore changed it and nothing wrote it since.                             *)
THEOREM ForwardsAreCurrent == ServerSpec => ForwardIsCurrent
<1> DEFINE Current ==
      \A c \in Clients : Len(out'[c]) > Len(out[c]) =>
        LET f == out'[c][Len(out'[c])]
        IN f.name \in Created' /\ (f.name \notin behind' => f.val = gmap'[f.name].val)
<1>1. ASSUME ServerBase, Resent \/ NotLonger
      PROVE  Current
  <2> SUFFICES ASSUME NEW c \in Clients, Len(out'[c]) > Len(out[c])
               PROVE  StandsAfter(out'[c][Len(out'[c])])
    BY DEF StandsAfter
  <2>1. out[c] \in Seq(ForwardsBy(issued)) /\ Len(out[c]) \in Nat
    <3>1. out[c] \in Seq(ForwardsBy(issued))
      BY <1>1 DEF ServerBase, HandlesIssued
    <3> QED
      BY <3>1, LenProperties
  <2>2. ~(Len(out'[c]) <= Len(out[c]))
    <3>1. CASE Resent
      BY <2>1, <3>1, AppendProperties DEF Resent, Send
    <3>2. CASE NotLonger
      BY <3>2 DEF NotLonger
    <3> QED
      BY <1>1, <3>1, <3>2
  <2>3. PICK f \in ForwardsBy(Handles) : Send(f) /\ StandsAfter(f)
    BY <1>1, <2>2 DEF Resent, NotLonger
  <2>4. out'[c] = Append(out[c], f)
    BY <2>1, <2>2, <2>3 DEF Send
  <2>5. out'[c][Len(out'[c])] = f
    BY <2>1, <2>4, AppendProperties
  <2> QED
    BY <2>3, <2>5
<1>2. ServerBase /\ NotifyInv /\ [ServerNext]_allvars => ServerBase' /\ NotifyInv' /\ [Current]_allvars
  BY <1>1, BaseStep, NotifyStep
<1> QED
  BY <1>2, NotifyInit, PTL DEF ServerSpec, ForwardIsCurrent

(* A change of a variable, by whatever handler but restore, reaches the       *)
(* queues of all its subscribers in the step that makes it.                   *)
THEOREM ChangesAreForwarded == ServerSpec => ChangeIsForwarded
<1> DEFINE Changed(n) == status' = "up" /\ gmap'[n].val # gmap[n].val
           Told(n) == \A c \in subs[n] : /\ out'[c] # <<>>
                                         /\ out'[c][Len(out'[c])].name = n
                                         /\ out'[c][Len(out'[c])].val = gmap'[n].val
           Forwarded == \A n \in Created \ behind' : Changed(n) => Told(n)
<1>1. gmap' = gmap \/ status' # "up" => Forwarded
  OBVIOUS
<1>2. ASSUME ServerBase, RestTyped, NEW c \in Clients, HandleFrontend(c)
      PROVE  Forwarded
  <2>1. CASE Leftover
    BY <2>1 DEF Leftover
  <2>2. ASSUME NEW n \in Names, Updated(n)
        PROVE  Forwarded
    <3> DEFINE f == fwdbuf'
    <3>1. /\ Send(f) /\ f.name = n /\ f.val = gmap'[n].val
          /\ \A k \in Names \ {n} : gmap'[k] = gmap[k]
      BY <2>2 DEF Updated, SendUpdate, Forward
    <3>2. Told(n)
      <4> SUFFICES ASSUME NEW b \in subs[n]
                   PROVE  /\ out'[b] # <<>>
                          /\ out'[b][Len(out'[b])] = f
        BY <3>1
      <4>1. b \in Clients
        BY <1>2 DEF RestTyped
      <4>2. out[b] \in Seq(ForwardsBy(issued)) /\ out'[b] = Append(out[b], f)
        BY <1>2, <3>1, <4>1 DEF ServerBase, HandlesIssued, Send
      <4>3. /\ Len(out[b]) \in Nat /\ Len(out'[b]) = Len(out[b]) + 1
            /\ out'[b][Len(out[b]) + 1] = f
        BY <4>2, AppendProperties, LenProperties
      <4> QED
        BY <4>3, EmptySeq
    <3> QED
      BY <3>1, <3>2 DEF Created
  <2> QED
    BY <1>2, <2>1, <2>2, FrontendOutcomes DEF ServerBase
<1>3. ASSUME ServerBase, RestTyped, [ServerNext]_allvars
      PROVE  Forwarded
  <2>1. ASSUME NEW c \in Clients, ClientCall(c)
        PROVE  gmap' = gmap
    BY <2>1, CallFrame DEF Quiet, vars
  <2>2. ASSUME NEW c \in Clients,
               \/ Join(c) \/ Return(c) \/ HandleNotification(c) \/ DSV_Close(c)
               \/ Accept(c) \/ HandleReply(c) \/ HandleBackend \/ Restart
        PROVE  gmap' = gmap
    BY <2>2 DEF Join, Return, HandleNotification, DSV_GetNotification, DSV_Close, Accept,
                HandleReply, HandleBackend, Restart, Start, vars
  <2>3. ASSUME NEW c \in Clients,
               HandleFrontendUndefined(c) \/ HandleReplyUndefined(c) \/ Stop
        PROVE  status' # "up"
    BY <2>3 DEF HandleFrontendUndefined, FrontendMisuse, HandleReplyUndefined, Stop,
                VarMisuse, VarMisindex, VarRestoreUndefined, VarRestoreAborts, Undefined,
                SendGarbage, Shutdown, Crash, CrashInRestore, Ended
  <2>4. CASE HandleBackend \/ Restart \/ UNCHANGED allvars
    BY <1>1, <2>4 DEF HandleBackend, Restart, Start, allvars, vars
  <2>5. CASE Stop
    <3>1. status' # "up"
      BY <2>5 DEF Stop, Shutdown, Crash, Ended
    <3> QED
      BY <1>1, <3>1
  <2> QED
    BY <1>1, <1>2, <1>3, <2>1, <2>2, <2>3, <2>4, <2>5 DEF ServerNext
<1>4. ServerBase /\ RestTyped /\ [ServerNext]_allvars =>
        ServerBase' /\ RestTyped' /\ [Forwarded]_allvars
  BY <1>3, BaseStep, TypedStep
<1>5. ServerInit => ServerBase /\ RestTyped
  BY NotifyInit DEF NotifyInv
<1> QED
  BY <1>4, <1>5, PTL DEF ServerSpec, ChangeIsForwarded
-----------------------------------------------------------------------------
(* A subscriber of each created variable is told.  While no client closes,    *)
(* who subscribes and who was told only grow, and a topic that waits in news  *)
(* is told when its turn comes, or when it is created later.                  *)
LEMMA TopicGrows ==
  ASSUME TopicTold, UNCHANGED <<subs, news>>, told \subseteq told', Created' \subseteq Created
  PROVE  TopicTold'
<1> SUFFICES ASSUME NEW n \in Created', subs[n] # {}, \A i \in DOMAIN news : news[i] # n
             PROVE  \E c \in subs[n] : <<c, n>> \in told'
  BY DEF TopicTold
<1> QED
  BY DEF TopicTold

\* A forward of n tells those who subscribe to n.
LEMMA TopicSent ==
  ASSUME NEW f, Send(f), UNCHANGED subs, subs[f.name] # {}
  PROVE  told \subseteq told' /\ \E c \in subs'[f.name] : <<c, f.name>> \in told'
BY DEF Send

LEMMA TopicFrontend ==
  ASSUME ServerBase, TopicTold, NEW c \in Clients, HandleFrontend(c)
  PROVE  TopicTold'
<1>1. UNCHANGED <<subs, news>> /\ (Leftover \/ \E n \in Names : Updated(n))
  BY FrontendOutcomes DEF HandleFrontend, Take, ServerBase
<1>2. CASE Leftover
  BY <1>1, <1>2, TopicGrows DEF Leftover, SendLeftover, SendNothing, Send
<1>3. ASSUME NEW n \in Names, Updated(n)
      PROVE  TopicTold'
  <2>1. /\ Send(fwdbuf') /\ fwdbuf'.name = n
        /\ \A k \in Names \ {n} : gmap'[k] = gmap[k]
    BY <1>3 DEF Updated, SendUpdate, Forward
  <2>2. told \subseteq told'
    BY <2>1 DEF Send
  <2> SUFFICES ASSUME NEW k \in Created', subs[k] # {}, \A i \in DOMAIN news : news[i] # k
               PROVE  \E b \in subs[k] : <<b, k>> \in told'
    BY <1>1 DEF TopicTold
  <2>3. CASE k = n
    BY <1>1, <2>1, <2>3, TopicSent
  <2>4. CASE k # n
    BY <2>1, <2>2, <2>4 DEF TopicTold, Created
  <2> QED
    BY <2>3, <2>4
<1> QED
  BY <1>1, <1>2, <1>3

LEMMA TopicAccept ==
  ASSUME RestTyped, TopicTold, NEW c \in Clients, Accept(c)
  PROVE  TopicTold'
<1>1. PICK n \in Names : /\ subs' = [subs EXCEPT ![n] = @ \cup {c}]
                         /\ news' = IF subs[n] = {} THEN Append(news, n) ELSE news
  BY DEF Accept, RestTyped
<1>2. UNCHANGED <<gmap, told>>
  BY DEF Accept, vars
<1>3. /\ Len(news) \in Nat /\ DOMAIN news = 1..Len(news)
      /\ DOMAIN Append(news, n) = 1..Len(news) + 1
      /\ Append(news, n)[Len(news) + 1] = n
      /\ \A i \in 1..Len(news) : Append(news, n)[i] = news[i]
  BY <1>1, LenProperties, AppendProperties DEF RestTyped
<1> SUFFICES ASSUME NEW k \in Created', subs'[k] # {}, \A i \in DOMAIN news' : news'[i] # k
             PROVE  \E b \in subs'[k] : <<b, k>> \in told
  BY <1>2 DEF TopicTold
<1>4. k \in Created /\ k \in Names
  BY <1>2 DEF Created
<1>5. \A i \in DOMAIN news : news[i] # k
  <2>1. CASE subs[n] = {}
    BY <1>1, <1>3, <2>1
  <2>2. CASE subs[n] # {}
    BY <1>1, <2>2
  <2> QED
    BY <2>1, <2>2
<1>6. subs[k] # {}
  <2>1. CASE k = n
    <3>1. subs[n] = {} => \E i \in DOMAIN news' : news'[i] = n
      BY <1>1, <1>3
    <3> QED
      BY <2>1, <3>1
  <2>2. CASE k # n
    BY <1>1, <1>4, <2>2 DEF RestTyped
  <2> QED
    BY <2>1, <2>2
<1>7. PICK b \in subs[k] : <<b, k>> \in told
  BY <1>4, <1>5, <1>6 DEF TopicTold
<1>8. b \in subs'[k]
  BY <1>1, <1>4 DEF RestTyped
<1> QED
  BY <1>7, <1>8

LEMMA TopicBackend ==
  ASSUME RestTyped, TopicTold, HandleBackend
  PROVE  TopicTold'
<1> DEFINE n == Head(news)
<1>1. UNCHANGED <<gmap, subs>> /\ news # <<>> /\ news' = Tail(news) /\ LastValue(n)
  BY DEF HandleBackend, vars
<1>2. told \subseteq told'
  BY <1>1 DEF LastValue, Send, SendNothing
<1>3. /\ Len(news) \in Nat /\ DOMAIN news = 1..Len(news) /\ n = news[1]
      /\ Len(news') = Len(news) - 1 /\ DOMAIN news' = 1..Len(news')
      /\ \A i \in 1..Len(news') : news'[i] = news[i + 1]
  BY <1>1, LenProperties, HeadTailProperties DEF RestTyped
<1> HIDE DEF n
<1> SUFFICES ASSUME NEW k \in Created', subs[k] # {}, \A i \in DOMAIN news' : news'[i] # k
             PROVE  \E b \in subs[k] : <<b, k>> \in told'
  BY <1>1 DEF TopicTold
<1>4. k \in Created
  BY <1>1 DEF Created
<1>5. CASE k = n
  <2>1. Send(Forward(gmap, n)) /\ Forward(gmap, n).name = n
    BY <1>1, <1>4, <1>5 DEF LastValue, Forward
  <2> QED
    BY <1>1, <1>5, <2>1, TopicSent
<1>6. CASE k # n
  <2>1. ASSUME NEW i \in DOMAIN news
        PROVE  news[i] # k
    <3>1. CASE i = 1
      BY <1>3, <1>6, <3>1
    <3>2. CASE i # 1
      <4>1. i - 1 \in DOMAIN news' /\ news'[i - 1] = news[i]
        BY <1>3, <3>2
      <4> QED
        BY <4>1
    <3> QED
      BY <3>1, <3>2
  <2> QED
    BY <1>2, <1>4, <2>1 DEF TopicTold
<1> QED
  BY <1>5, <1>6

LEMMA TopicStep ==
  ASSUME "CLOSE" \notin Ops, ServerBase, RestTyped, TopicTold, [ServerNext]_allvars
  PROVE  TopicTold'
<1>1. UNCHANGED <<gmap, subs, news, told>> => TopicTold'
  BY TopicGrows DEF Created
<1>2. ASSUME NEW c \in Clients, ClientCall(c)
      PROVE  TopicTold'
  BY <1>1, <1>2, CallFrame DEF Quiet, vars
<1>3. ASSUME NEW c \in Clients,
             Join(c) \/ Return(c) \/ HandleReply(c) \/ HandleNotification(c)
      PROVE  TopicTold'
  BY <1>1, <1>3 DEF Join, Return, HandleReply, HandleNotification, DSV_GetNotification, vars
<1>4. ASSUME NEW c \in Clients
      PROVE  ~ DSV_Close(c)
  BY DEF DSV_Close
<1>5. CASE Stop \/ \E c \in Clients : HandleFrontendUndefined(c) \/ HandleReplyUndefined(c)
  <2>1. subs' = PerName({})
    BY <1>5 DEF Stop, HandleFrontendUndefined, HandleReplyUndefined, LoseConnections
  <2> QED
    BY <2>1 DEF PerName, TopicTold, Created
<1>6. CASE Restart \/ UNCHANGED allvars
  BY <1>1, <1>6 DEF Restart, Start, allvars, cvars, vars
<1> QED
  BY <1>2, <1>3, <1>4, <1>5, <1>6, TopicFrontend, TopicAccept, TopicBackend DEF ServerNext

(* Once the server has seen the subscriptions to a created variable, one of   *)
(* its subscribers was sent it, in whatever order the create, the writes and  *)
(* the subscriptions arrive, as long as no client closes: when the one that   *)
(* was told does, those who subscribed after it are left untold.              *)
THEOREM TopicsAreTold ==
  ASSUME "CLOSE" \notin Ops
  PROVE  ServerSpec => []TopicTold
<1>1. ServerInit => ServerBase /\ RestTyped /\ TopicTold
  <2>1. ServerInit => TopicTold
    BY DEF ServerInit, PerName, TopicTold, Created
  <2> QED
    BY <2>1, NotifyInit DEF NotifyInv
<1>2. /\ ServerBase /\ RestTyped /\ TopicTold /\ [ServerNext]_allvars
      => ServerBase' /\ RestTyped' /\ TopicTold'
  BY BaseStep, TypedStep, TopicStep
<1> QED
  BY <1>1, <1>2, PTL DEF ServerSpec
=============================================================================
