--------------------------- MODULE DsvDevmanProofs ---------------------------
(* Theorems about DsvDevman: the device managers are clients of DsvServer,    *)
(* their writes reach the entries they mean, the device list only grows and   *)
(* counts each join once, and a device has the log level it was sent.         *)
EXTENDS DsvDevman, DsvServerProofs

(* A call of a device's script is a call any client may make.                 *)
LEMMA CreateIsCall ==
  ASSUME NEW d \in Devices, NEW n \in Names, NEW x \in Data, DSV_Create(d, n, <<x>>)
  PROVE  ClientCall(d)
<1>1. <<x>> \in [1..1 -> Data]
  OBVIOUS
<1>2. <<x>> \in ValuesOf(TypeOf[n])
  BY <1>1, NumValue DEF ValuesOf
<1> QED
  BY <1>2 DEF ClientCall, ClientWrite

LEMMA SetIsCall ==
  ASSUME NEW d \in Devices, NEW n \in Names, NEW x \in Data, DSV_Set(d, n, <<x>>)
  PROVE  ClientCall(d)
<1>1. <<x>> \in [1..1 -> Data]
  OBVIOUS
<1>2. <<x>> \in ValuesOf(TypeOf[n])
  BY <1>1, NumValue DEF ValuesOf
<1> QED
  BY <1>2 DEF ClientCall, ClientWrite

LEMMA DeviceFacts ==
  ASSUME NEW d \in Devices
  PROVE  /\ d \in Clients /\ DevList \in Names /\ LogLevel[d] \in Names
         /\ LogLevel[d] # DevList
         /\ Warning \in Data /\ DefaultID \in Data /\ InstID[d] \in Data /\ Level[d] \in Data
BY DevmanAssumption

LEMMA ScriptIsCall ==
  ASSUME NEW d \in Devices, InitLogmask(d) \/ FindDevlist(d) \/ JoinDevlist(d)
  PROVE  ClientCall(d) \/ Join(d) \/ Return(d)
<1> USE DeviceFacts
<1>1. CASE DSV_Create(d, LogLevel[d], <<Warning>>) \/ DSV_Create(d, DevList, <<DefaultID>>)
  BY <1>1, CreateIsCall
<1>2. CASE DSV_Set(d, LogLevel[d], <<Level[d]>>)
  BY <1>2, SetIsCall
<1>3. CASE DSV_AddItemToArray(d, DevList, InstID[d])
  BY <1>3 DEF ClientCall, ClientWrite, ProcessAddItem
<1>4. CASE \E n \in Names : DSV_SubByName(d, n) \/ DSV_Handle(d, n)
  BY <1>4 DEF ClientCall, ClientRead
<1>5. CASE DSV_Open(d) \/ Return(d)
  BY <1>5 DEF DSV_Open
<1> QED
  BY <1>1, <1>2, <1>3, <1>4, <1>5 DEF InitLogmask, DSV_LogInit, FindDevlist, JoinDevlist, Step, Answered

LEMMA DevmanStep ==
  ASSUME [DevmanNext]_devvars
  PROVE  [ServerNext]_allvars
<1> USE DeviceFacts
<1>1. ASSUME NEW d \in Devices, InitLogmask(d) \/ FindDevlist(d) \/ JoinDevlist(d)
      PROVE  ServerNext
  BY <1>1, ScriptIsCall DEF ServerNext
<1>2. ASSUME NEW d \in Devices, CreateUndefined(d)
      PROVE  UNCHANGED allvars
  BY <1>2 DEF CreateUndefined
<1>3. ASSUME NEW d \in Devices, ProcessNotifications(d)
      PROVE  ServerNext
  BY <1>3 DEF ProcessNotifications, ServerNext
<1>4. CASE Served
  BY <1>4 DEF Served, ServerNext
<1>5. CASE UNCHANGED devvars
  BY <1>5 DEF devvars
<1> QED
  BY <1>1, <1>2, <1>3, <1>4, <1>5 DEF DevmanNext

(* The device managers are clients of the server: every step of theirs is a   *)
(* step of DsvServer or leaves it alone, so what holds of all clients holds   *)
(* of them.                                                                   *)
THEOREM DevicesAreClients == DevmanSpec => DevmanServerSpec
<1>1. DevmanInit => ServerInit
  BY DEF DevmanInit
<1> QED
  BY <1>1, DevmanStep, PTL DEF DevmanSpec, DevmanServerSpec, ServerSpec

-----------------------------------------------------------------------------
(* The device managers alone write, and nobody stops the server: a handle a   *)
(* device holds, is answered with or writes through is that of the entry it   *)
(* means, and a device writes an item to the device list only.                *)
Good(n, h) == n \in Created /\ gmap[n].hndl = h

\* A write that a device may send while the table is as it is.
DeviceWrite(m) ==
  \/ m.op = "CREATE"
  \/ m.op = "SET" /\ m.name # DevList /\ Good(m.name, m.hndl)
  \/ m.op = "ADD_ITEM" /\ Good(m.name, m.hndl)

CachesGood ==
  \A c \in Clients, n \in Names : cache[c][n] # Nil => Good(n, cache[c][n])
AnswersGood ==
  \A c \in Clients : call[c] # Nil /\ call[c].op = "ANSWER" /\ call[c].hndl # Nil =>
    Good(call[c].name, call[c].hndl)
FrontGood ==
  \A c \in Clients : \A i \in DOMAIN front[c] : DeviceWrite(front[c][i])

DeviceInv == /\ status = "up"
             /\ CachesGood /\ AnswersGood /\ FrontGood

\* What the invariant rests on.
Base == IInv /\ IInv' /\ HandlesDistinct /\ HandlesIssued /\ [Next]_vars

LEMMA DeviceInit == DevmanInit => DeviceInv
<1> SUFFICES ASSUME DevmanInit PROVE DeviceInv
  OBVIOUS
<1>1. status = "up" /\ Created = {}
  BY DEF DevmanInit, ServerInit, Init, Created
<1>2. /\ \A c \in Clients : front[c] = <<>> /\ call[c] = Nil
      /\ \A c \in Clients, n \in Names : cache[c][n] = Nil
  BY DEF DevmanInit, ServerInit, PerClient, PerName
<1> QED
  BY <1>1, <1>2 DEF DeviceInv, CachesGood, AnswersGood, FrontGood

(* A step that leaves the table alone keeps what is good.                     *)
LEMMA GoodKept ==
  ASSUME Base, status' = "up"
  PROVE  /\ \A n, h : Good(n, h) => Good(n, h)'
         /\ \A m : DeviceWrite(m) => DeviceWrite(m)'
<1>1. \A n \in Created : n \in Created' /\ gmap'[n].hndl = gmap[n].hndl
  BY KeptStep DEF Base, Kept, vars, Created
<1>2. \A n, h : Good(n, h) => Good(n, h)'
  BY <1>1 DEF Good
<1> QED
  BY <1>2 DEF DeviceWrite

(* A script step sends good writes, and learns good handles.                  *)
LEMMA DevicePublish ==
  ASSUME DeviceInv, HandlesIssued, NEW d \in Devices, NEW m, DeviceWrite(m), Publish(d, m)
  PROVE  DeviceInv'
<1>1. UNCHANGED <<vars, call, cache>>
  BY DEF Publish, Calls
<1>2. \A n, h : Good(n, h)' = Good(n, h)
  BY <1>1 DEF Good, Created, vars
<1>3. \A w : DeviceWrite(w)' = DeviceWrite(w)
  BY <1>2 DEF DeviceWrite
<1>4. FrontGood'
  <2>1. CASE front' = front
    BY <1>3, <2>1 DEF FrontGood, DeviceInv
  <2>2. CASE front' = [front EXCEPT ![d] = Append(@, m)]
    <3> SUFFICES ASSUME NEW c \in Clients, NEW i \in DOMAIN front'[c]
                 PROVE  DeviceWrite(front'[c][i])
      BY <1>3 DEF FrontGood
    <3>1. front \in [Clients -> Seq(WritesBy(issued))]
      BY DEF HandlesIssued
    <3>2. CASE c = d
      <4> DEFINE s == front[c]
      <4>1. s \in Seq(WritesBy(issued)) /\ front'[c] = Append(s, m)
        BY <2>2, <3>1, <3>2
      <4>2. /\ Len(s) \in Nat /\ DOMAIN s = 1..Len(s)
            /\ DOMAIN Append(s, m) = 1..Len(s) + 1
            /\ \A j \in 1..Len(s) + 1 : Append(s, m)[j] = IF j <= Len(s) THEN s[j] ELSE m
        BY <4>1, LenProperties
      <4>3. i \in DOMAIN s \/ front'[c][i] = m
        BY <4>1, <4>2
      <4>4. i \in DOMAIN s => front'[c][i] = s[i]
        BY <4>1, <4>2
      <4> QED
        BY <4>3, <4>4 DEF DeviceInv, FrontGood
    <3>3. CASE c # d
      BY <2>2, <3>1, <3>3 DEF DeviceInv, FrontGood
    <3> QED
      BY <3>2, <3>3
  <2> QED
    BY <2>1, <2>2 DEF Publish
<1>5. CachesGood' /\ AnswersGood' /\ status' = "up"
  BY <1>1, <1>2 DEF DeviceInv, CachesGood, AnswersGood, Created, vars
<1> QED
  BY <1>4, <1>5 DEF DeviceInv

LEMMA DeviceRequest ==
  ASSUME DeviceInv, HandlesIssued, NEW d \in Devices, NEW r, r.op # "ANSWER",
         UNCHANGED <<vars, front, cache>>, call' = [call EXCEPT ![d] = r]
  PROVE  DeviceInv'
<1>1. \A n, h : Good(n, h)' = Good(n, h)
  BY DEF Good, Created, vars
<1>2. \A w : DeviceWrite(w)' = DeviceWrite(w)
  BY <1>1 DEF DeviceWrite
<1>3. AnswersGood'
  BY <1>1 DEF DeviceInv, AnswersGood, HandlesIssued
<1> QED
  BY <1>1, <1>2, <1>3 DEF DeviceInv, CachesGood, FrontGood, Created, vars

(* A step that changes neither the table nor what is sent, asked and held.    *)
LEMMA DeviceStutter ==
  ASSUME DeviceInv, UNCHANGED <<vars, front, call, cache>>
  PROVE  DeviceInv'
<1>1. \A n, h : Good(n, h)' = Good(n, h)
  BY DEF Good, Created, vars
<1>2. \A w : DeviceWrite(w)' = DeviceWrite(w)
  BY <1>1 DEF DeviceWrite
<1> QED
  BY <1>1, <1>2 DEF DeviceInv, CachesGood, AnswersGood, FrontGood, Created, vars

LEMMA DeviceReturn ==
  ASSUME DeviceInv, HandlesIssued, NEW d \in Devices, Return(d)
  PROVE  DeviceInv'
<1>1. \A n, h : Good(n, h)' = Good(n, h)
  BY DEF Return, Good, Created, vars
<1>2. \A w : DeviceWrite(w)' = DeviceWrite(w)
  BY <1>1 DEF DeviceWrite
<1>3. CachesGood'
  <2>1. call[d].hndl # Nil => Good(call[d].name, call[d].hndl)
    BY DeviceFacts DEF Return, DeviceInv, AnswersGood
  <2> QED
    BY <1>1, <2>1, DevmanAssumption DEF Return, DeviceInv, CachesGood, HandlesIssued
<1>4. AnswersGood'
  BY <1>1, DevmanAssumption DEF Return, DeviceInv, AnswersGood, HandlesIssued
<1>5. FrontGood' /\ status' = "up"
  BY <1>1, <1>2 DEF Return, DeviceInv, FrontGood, Created, vars
<1> QED
  BY <1>3, <1>4, <1>5 DEF DeviceInv

LEMMA DeviceReply ==
  ASSUME DeviceInv, HandlesIssued, NEW d \in Devices, HandleReply(d)
  PROVE  DeviceInv'
<1>1. UNCHANGED <<vars, front, cache>> /\ call' = [call EXCEPT ![d] = Answer(call[d])]
  BY DEF HandleReply
<1>2. \A n, h : Good(n, h)' = Good(n, h)
  BY <1>1 DEF Good, Created, vars
<1>3. \A w : DeviceWrite(w)' = DeviceWrite(w)
  BY <1>2 DEF DeviceWrite
<1>4. Answer(call[d]).hndl # Nil => Good(Answer(call[d]).name, Answer(call[d]).hndl)
  BY DEF Answer, Good
<1>5. AnswersGood'
  BY <1>1, <1>2, <1>4 DEF DeviceInv, AnswersGood, HandlesIssued
<1> QED
  BY <1>1, <1>2, <1>3, <1>5
     DEF DeviceInv, CachesGood, FrontGood, Created, vars

(* After the write of a device the device list has at most an item more, at   *)
(* its end.                                                                   *)
ListGrows == (DevList \in Created) =>
               IsPrefix(gmap[DevList].val, gmap'[DevList].val)

LEMMA SamePrefix ==
  ASSUME IInv, DevList \in Created => gmap'[DevList] = gmap[DevList]
  PROVE  ListGrows
<1> SUFFICES ASSUME DevList \in Created PROVE IsPrefix(gmap[DevList].val, gmap[DevList].val)
  BY DEF ListGrows
<1>1. Len(gmap[DevList].val) \in Nat
  BY EntryOf, ValueIsSeq, LenProperties
<1> QED
  BY <1>1 DEF IsPrefix

LEMMA ItemPrefix ==
  ASSUME NEW v \in Values, NEW x \in Data
  PROVE  IsPrefix(v, Append(v, x))
<1>1. v \in Seq(Data) /\ Len(v) \in Nat /\ DOMAIN v = 1..Len(v)
  BY ValueIsSeq, LenProperties
<1>2. /\ Len(Append(v, x)) = Len(v) + 1
      /\ \A i \in 1..Len(v) : Append(v, x)[i] = v[i]
  BY <1>1, AppendProperties
<1> QED
  BY <1>1, <1>2 DEF IsPrefix

LEMMA CreateWrite ==
  ASSUME DeviceInv, Base, NEW n \in Names, NEW v, NEW F, NEW h,
         VarCreate(n, v, F, FALSE, h)
  PROVE  status' = "up" /\ ListGrows
<1>1. n \notin Created /\ \A k \in Names \ {n} : gmap'[k] = gmap[k]
  BY DEF VarCreate, Vacant, Base, IInv, TypeOK
<1>2. DevList \in Created => gmap'[DevList] = gmap[DevList]
  BY <1>1, DevmanAssumption
<1> QED
  BY <1>2, SamePrefix DEF VarCreate, DeviceInv, Base

LEMMA EntryWrite ==
  ASSUME DeviceInv, Base, NEW n \in Created, NEW e, Update(n, e)
  PROVE  /\ status' = "up"
         /\ gmap'[n] = e /\ \A k \in Names \ {n} : gmap'[k] = gmap[k]
BY DEF Update, DeviceInv, Created, Base, IInv, TypeOK

LEMMA SetWrite ==
  ASSUME DeviceInv, Base, NEW m \in WritesBy(issued), m.op = "SET", DeviceWrite(m),
         VarSet(m.hndl, m.val)
  PROVE  status' = "up" /\ ListGrows
<1>1. PICK n \in Created : /\ gmap[n].hndl = m.hndl
                           /\ \E e : Update(n, e)
  BY DEF VarSet, At
<1>2. n = m.name /\ n # DevList
  BY <1>1 DEF DeviceWrite, Good, Base, HandlesDistinct
<1> QED
  BY <1>1, <1>2, EntryWrite, SamePrefix, DevmanAssumption DEF Base

LEMMA ItemWrite ==
  ASSUME DeviceInv, Base, NEW m \in WritesBy(issued), m.op = "ADD_ITEM",
         VarAddItem(m.hndl, m.item)
  PROVE  status' = "up" /\ ListGrows
<1>1. PICK n \in Names : /\ n \in Created
                         /\ Update(n, Resized(gmap[n], Append(gmap[n].val, m.item)))
  BY DEF VarAddItem, ArrayAt, At
<1> DEFINE e == Resized(gmap[n], Append(gmap[n].val, m.item))
<1>2. m.item \in Data
  BY DEF WritesBy
<1>3. gmap[n].val \in Values /\ e.val = Append(gmap[n].val, m.item)
  BY <1>1, EntryOf DEF Base, Resized, Stored, Entry
<1> HIDE DEF e
<1>4. /\ status' = "up"
      /\ gmap'[n] = e /\ \A k \in Names \ {n} : gmap'[k] = gmap[k]
  BY <1>1, EntryWrite DEF e
<1>5. ListGrows
  <2>1. CASE n = DevList
    BY <1>2, <1>3, <1>4, <2>1, ItemPrefix DEF ListGrows
  <2>2. CASE n # DevList
    BY <1>4, <2>2, SamePrefix, DevmanAssumption DEF Base
  <2> QED
    BY <2>1, <2>2
<1> QED
  BY <1>4, <1>5

LEMMA DeviceFrontend ==
  ASSUME DeviceInv, Base, NEW d \in Devices, HandleFrontend(d)
  PROVE  DeviceInv' /\ ListGrows
<1> DEFINE m == Head(front[d])
<1>1. /\ d \in Clients /\ front[d] \in Seq(WritesBy(issued)) /\ front[d] # <<>>
      /\ UNCHANGED <<call, cache>> /\ front' = [front EXCEPT ![d] = Tail(@)]
  BY DeviceFacts DEF HandleFrontend, Take, Base, HandlesIssued
<1>2. m \in WritesBy(issued) /\ DeviceWrite(m)
  <2>1. m = front[d][1] /\ 1 \in DOMAIN front[d] /\ m \in WritesBy(issued)
    BY <1>1, HeadTailProperties, LenProperties
  <2> QED
    BY <1>1, <2>1 DEF DeviceInv, FrontGood
<1>3. UNCHANGED vars => status' = "up" /\ ListGrows
  BY SamePrefix DEF vars, DeviceInv, Base
<1> HIDE DEF m
<1>4. status' = "up" /\ ListGrows
  <2>1. CASE FrontendCreate(d, m)
    <3>1. m.name \in Names
      BY <1>2, <2>1 DEF FrontendCreate, WritesBy
    <3> QED
      BY <1>3, <2>1, <3>1, CreateWrite DEF FrontendCreate
  <2>2. CASE FrontendSet(d, m)
    BY <1>2, <2>2, SetWrite DEF FrontendSet
  <2>3. CASE FrontendItem(d, m)
    <3>1. m.op = "ADD_ITEM"
      BY <1>2, <2>3 DEF DeviceWrite, FrontendItem, ItemOps
    <3> QED
      BY <1>2, <1>3, <2>3, <3>1, ItemWrite DEF FrontendItem, EditItem
  <2>4. CASE FrontendSave(d, m) \/ FrontendRestore(d, m)
    BY <1>2, <2>4 DEF DeviceWrite, FrontendSave, FrontendRestore
  <2> QED
    BY <2>1, <2>2, <2>3, <2>4 DEF HandleFrontend, m
<1>5. /\ \A n, h : Good(n, h) => Good(n, h)'
      /\ \A w : DeviceWrite(w) => DeviceWrite(w)'
  BY <1>4, GoodKept
<1>6. CachesGood' /\ AnswersGood'
  BY <1>1, <1>5 DEF DeviceInv, CachesGood, AnswersGood
<1>7. FrontGood'
  <2> SUFFICES ASSUME NEW c \in Clients, NEW i \in DOMAIN front'[c]
               PROVE  \E j \in DOMAIN front[c] : front'[c][i] = front[c][j]
    BY <1>5 DEF DeviceInv, FrontGood
  <2>1. CASE c = d
    <3> DEFINE q == front[d]
    <3>1. front'[c] = Tail(q) /\ Len(q) \in Nat /\ DOMAIN q = 1..Len(q)
      BY <1>1, <2>1, LenProperties DEF Base, HandlesIssued
    <3>2. i \in 1..Len(q) - 1 /\ Tail(q)[i] = q[i + 1]
      <4>1. /\ Tail(q) \in Seq(WritesBy(issued)) /\ Len(Tail(q)) = Len(q) - 1
            /\ \A j \in 1..Len(Tail(q)) : Tail(q)[j] = q[j + 1]
        BY <1>1, HeadTailProperties
      <4>2. DOMAIN Tail(q) = 1..Len(Tail(q))
        BY <4>1, LenProperties
      <4> QED
        BY <3>1, <4>1, <4>2
    <3>3. i + 1 \in DOMAIN q
      BY <3>1, <3>2
    <3> QED
      BY <2>1, <3>1, <3>2, <3>3
  <2>2. CASE c # d
    BY <1>1, <2>2 DEF Base, HandlesIssued
  <2> QED
    BY <2>1, <2>2
<1> QED
  BY <1>4, <1>6, <1>7 DEF DeviceInv

LEMMA ScriptStep ==
  ASSUME DeviceInv, Base, NEW d \in Devices,
         InitLogmask(d) \/ FindDevlist(d) \/ JoinDevlist(d)
  PROVE  DeviceInv' /\ UNCHANGED vars
<1> USE DeviceFacts
<1>0. HandlesIssued
  BY DEF Base
<1>1. ASSUME NEW n, NEW v, DSV_Create(d, n, v)
      PROVE  DeviceInv' /\ UNCHANGED vars
  <2> DEFINE m == [op |-> "CREATE", name |-> n, val |-> v]
  <2>1. DeviceWrite(m) /\ Publish(d, m)
    BY <1>1 DEF DSV_Create, DeviceWrite
  <2>2. UNCHANGED vars
    BY <2>1 DEF Publish, Calls
  <2> HIDE DEF m
  <2> QED
    BY <1>0, <2>1, <2>2, DevicePublish
<1>2. ASSUME NEW v, DSV_Set(d, LogLevel[d], v)
      PROVE  DeviceInv' /\ UNCHANGED vars
  <2> DEFINE n == LogLevel[d]
             m == [op |-> "SET", name |-> n, hndl |-> cache[d][n], val |-> v]
  <2>1. Publish(d, m) /\ Good(n, cache[d][n])
    BY <1>2 DEF DSV_Set, DeviceInv, CachesGood
  <2>2. DeviceWrite(m)
    BY <2>1 DEF DeviceWrite
  <2>3. UNCHANGED vars
    BY <2>1 DEF Publish, Calls
  <2> HIDE DEF m
  <2> QED
    BY <1>0, <2>1, <2>2, <2>3, DevicePublish
<1>3. ASSUME NEW x, DSV_AddItemToArray(d, DevList, x)
      PROVE  DeviceInv' /\ UNCHANGED vars
  <2> DEFINE m == [op |-> "ADD_ITEM", name |-> DevList, hndl |-> cache[d][DevList], item |-> x]
  <2>1. Publish(d, m) /\ Good(DevList, cache[d][DevList])
    BY <1>3 DEF DSV_AddItemToArray, EditArray, DeviceInv, CachesGood
  <2>2. DeviceWrite(m)
    BY <2>1 DEF DeviceWrite
  <2>3. UNCHANGED vars
    BY <2>1 DEF Publish, Calls
  <2> HIDE DEF m
  <2> QED
    BY <1>0, <2>1, <2>2, <2>3, DevicePublish
<1>4. ASSUME NEW n, DSV_Handle(d, n)
      PROVE  DeviceInv' /\ UNCHANGED vars
  <2> DEFINE r == [op |-> "GET_HANDLE", name |-> n]
  <2>1. /\ r.op # "ANSWER" /\ UNCHANGED <<vars, front, cache>>
        /\ call' = [call EXCEPT ![d] = r]
    BY <1>4 DEF DSV_Handle, Request1, Calls
  <2> HIDE DEF r
  <2> QED
    BY <1>0, <2>1, DeviceRequest
<1>5. ASSUME NEW n, DSV_SubByName(d, n)
      PROVE  DeviceInv' /\ UNCHANGED vars
  <2>1. UNCHANGED <<vars, front, call, cache>>
    BY <1>5 DEF DSV_SubByName, Calls
  <2> QED
    BY <2>1, DeviceStutter
<1>6. CASE DSV_Open(d)
  <2>1. UNCHANGED <<vars, front, call, cache>>
    BY <1>6 DEF DSV_Open, Join
  <2> QED
    BY <2>1, DeviceStutter
<1>7. CASE Return(d)
  <2>1. UNCHANGED vars
    BY <1>7 DEF Return
  <2> QED
    BY <1>0, <1>7, <2>1, DeviceReturn
<1> QED
  BY <1>1, <1>2, <1>3, <1>4, <1>5, <1>6, <1>7
     DEF InitLogmask, DSV_LogInit, FindDevlist, JoinDevlist, Step, Answered

LEMMA DeviceStep ==
  ASSUME DeviceInv, Base, [DevmanNext]_devvars
  PROVE  DeviceInv' /\ ListGrows
<1>0. HandlesIssued /\ (UNCHANGED vars => ListGrows)
  BY SamePrefix DEF Base, vars
<1>1. ASSUME NEW d \in Devices, InitLogmask(d) \/ FindDevlist(d) \/ JoinDevlist(d)
      PROVE  DeviceInv' /\ ListGrows
  BY <1>0, <1>1, ScriptStep
<1>2. ASSUME NEW d \in Devices, ProcessNotifications(d)
      PROVE  DeviceInv' /\ ListGrows
  <2> DEFINE r == [op |-> "GET_TYPE", name |-> Head(out[d]).name, hndl |-> Head(out[d]).hndl]
  <2>1. UNCHANGED <<vars, front, cache>> /\ (call' = call \/ call' = [call EXCEPT ![d] = r])
    BY <1>2 DEF ProcessNotifications, HandleNotification, DSV_GetNotification
  <2>2. r.op # "ANSWER" /\ UNCHANGED vars
    BY <2>1
  <2> HIDE DEF r
  <2> QED
    BY <1>0, <2>1, <2>2, DeviceRequest, DeviceStutter
<1>3. ASSUME NEW d \in Devices, HandleReply(d)
      PROVE  DeviceInv' /\ ListGrows
  <2>1. UNCHANGED vars
    BY <1>3 DEF HandleReply
  <2> QED
    BY <1>0, <1>3, <2>1, DeviceReply
<1>4. ASSUME NEW d \in Devices, HandleFrontend(d)
      PROVE  DeviceInv' /\ ListGrows
  BY <1>4, DeviceFrontend
<1>5. CASE \/ HandleBackend \/ UNCHANGED devvars
           \/ \E d \in Devices : Accept(d) \/ CreateUndefined(d)
  <2>1. UNCHANGED <<vars, front, call, cache>>
    BY <1>5 DEF HandleBackend, Accept, CreateUndefined, devvars, allvars, cvars
  <2>2. UNCHANGED vars
    BY <2>1
  <2> QED
    BY <1>0, <2>1, <2>2, DeviceStutter
<1> QED
  BY <1>1, <1>2, <1>3, <1>4, <1>5 DEF DevmanNext, Served

\* What a step of the devices starts from.
DevmanIInv == ServerBase /\ DeviceInv

LEMMA DevmanInv ==
  /\ DevmanInit => DevmanIInv
  /\ DevmanIInv /\ [DevmanNext]_devvars => DevmanIInv' /\ ListGrows
<1>1. DevmanInit => DevmanIInv
  BY DeviceInit, BaseInit DEF DevmanInit, DevmanIInv
<1>2. ASSUME DevmanIInv, [DevmanNext]_devvars
      PROVE  DevmanIInv' /\ ListGrows
  <2>1. [ServerNext]_allvars
    BY <1>2, DevmanStep
  <2>2. ServerBase' /\ [Next]_vars
    BY <1>2, <2>1, BaseStep DEF DevmanIInv
  <2>3. Base
    BY <1>2, <2>2 DEF DevmanIInv, ServerBase, Base
  <2> QED
    BY <1>2, <2>2, <2>3, DeviceStep DEF DevmanIInv
<1> QED
  BY <1>1, <1>2

(* A write of a device reaches the entry it is for, whoever created it: the   *)
(* handle a device holds is that of the present entry (devman.cpp:96).        *)
THEOREM DeviceWritesGood == DevmanSpec => []WritesGood
<1>1. DevmanIInv => WritesGood
  BY DEF DevmanIInv, DeviceInv, FrontGood, DeviceWrite, Good, WritesGood, ItemOps
<1> QED
  BY <1>1, DevmanInv, PTL DEF DevmanSpec

(* The device list is never replaced nor shortened, however many devices      *)
(* create it and however their writes are overtaken.                          *)
THEOREM DeviceListGrows == DevmanSpec => ListOnlyGrows
<1>1. DevmanIInv /\ [DevmanNext]_devvars => [ListGrows]_devvars
  BY DevmanInv
<1> QED
  BY <1>1, DevmanInv, PTL DEF DevmanSpec, ListOnlyGrows, ListGrows
-----------------------------------------------------------------------------
(* The script of a device, place by place: what it has sent is queued, it has *)
(* the handle of the list from where it joins it and not before, and what it  *)
(* waits for is what it asked for last.                                       *)
Early == {"open", "create_level", "sub_level", "find_level", "await_level", "set_level",
          "find_list", "await_list", "create_list", "find_again", "await_again"}

PlaceOf(d) ==
  /\ at[d] \in Places
  /\ at[d] # "open" => d \in joined
  /\ at[d] \in Early => cache[d][DevList] = Nil
  /\ at[d] \in {"sub_list", "join_list"} => cache[d][DevList] # Nil
  /\ at[d] = "await_level" => call[d].name = LogLevel[d]
  /\ at[d] \in {"await_list", "await_again"} => call[d].name = DevList

\* A create of the list is of one item, and items are for the list.
ListWrite(m) == /\ m.op = "CREATE" /\ m.name = DevList => Len(m.val) = 1
                /\ m.op = "ADD_ITEM" => m.name = DevList

\* A device that joins has one item on its way at most.
WritesOf(d) ==
  /\ \A i \in DOMAIN front[d] : ListWrite(front[d][i])
  /\ \A i, j \in DOMAIN front[d] :
       front[d][i].op = "ADD_ITEM" /\ front[d][j].op = "ADD_ITEM" => i = j
  /\ d \in OnTheWay => d \in Joined

ListCounted ==
  /\ IsFiniteSet(Joined) /\ IsFiniteSet(OnTheWay)
  /\ DevList \in Created =>
       Len(gmap[DevList].val) = 1 + Cardinality(Joined) - Cardinality(OnTheWay)

ScriptInv == /\ at \in [Devices -> Places]
             /\ \A d \in Devices : PlaceOf(d) /\ WritesOf(d)
             /\ ListCounted

\* What a device has of its own.
Same(d) == /\ at'[d] = at[d] /\ front'[d] = front[d]
           /\ cache'[d] = cache[d] /\ call'[d] = call[d]
           /\ (d \in joined => d \in joined')

LEMMA SameKept ==
  ASSUME NEW d \in Devices, Same(d)
  PROVE  /\ PlaceOf(d) => PlaceOf(d)'
         /\ WritesOf(d) => WritesOf(d)'
         /\ d \in Joined' <=> d \in Joined
         /\ d \in OnTheWay' <=> d \in OnTheWay
<1>1. PlaceOf(d) => PlaceOf(d)'
  BY DEF Same, PlaceOf
<1>2. d \in Joined' <=> d \in Joined
  BY DEF Same, Joined
<1>3. d \in OnTheWay' <=> d \in OnTheWay
  BY DEF Same, OnTheWay
<1>4. \A m : ListWrite(m)' = ListWrite(m)
  BY DEF ListWrite
<1>5. WritesOf(d) => WritesOf(d)'
  BY <1>2, <1>3, <1>4 DEF Same, WritesOf
<1> QED
  BY <1>1, <1>2, <1>3, <1>5

(* A step of device d that counts nothing: it neither joins nor sends items,  *)
(* and what it does to its own is right.                                      *)
LEMMA ScriptKept ==
  ASSUME ScriptInv, NEW d \in Devices, gmap' = gmap, at' \in [Devices -> Places],
         \A e \in Devices \ {d} : Same(e),
         PlaceOf(d)', WritesOf(d)',
         d \in Joined' <=> d \in Joined, d \in OnTheWay' <=> d \in OnTheWay
  PROVE  ScriptInv'
<1>1. \A e \in Devices : PlaceOf(e)' /\ WritesOf(e)'
  BY SameKept DEF ScriptInv
<1>2. \A e \in Devices : (e \in Joined' <=> e \in Joined) /\ (e \in OnTheWay' <=> e \in OnTheWay)
  BY SameKept
<1>3. Joined' = Joined /\ OnTheWay' = OnTheWay
  <2>1. Joined \subseteq Devices /\ Joined' \subseteq Devices
    BY DEF Joined
  <2>2. OnTheWay \subseteq Devices /\ OnTheWay' \subseteq Devices
    BY DEF OnTheWay
  <2> QED
    BY <1>2, <2>1, <2>2
<1>4. ListCounted'
  BY <1>3 DEF ScriptInv, ListCounted, Created
<1> QED
  BY <1>1, <1>4 DEF ScriptInv

LEMMA ScriptInit == DevmanInit => ScriptInv
<1> SUFFICES ASSUME DevmanInit PROVE ScriptInv
  OBVIOUS
<1>1. /\ at = [d \in Devices |-> "open"] /\ Created = {}
      /\ \A d \in Devices : front[d] = <<>> /\ cache[d][DevList] = Nil
  BY DeviceFacts DEF DevmanInit, ServerInit, Init, Created, PerClient, PerName
<1>2. Joined = {} /\ OnTheWay = {}
  BY <1>1 DEF Joined, OnTheWay
<1>3. ListCounted
  BY <1>1, <1>2, FS_EmptySet DEF ListCounted
<1>4. \A d \in Devices : PlaceOf(d) /\ WritesOf(d)
  BY <1>1, <1>2 DEF PlaceOf, WritesOf, Places
<1> QED
  BY <1>1, <1>3, <1>4 DEF ScriptInv, Places

(* What a write of a device does to the writes it has under way.              *)
LEMMA FrontAppend ==
  ASSUME HandlesIssued, NEW d \in Devices, d \in joined, NEW m, Publish(d, m)
  PROVE  /\ Len(front[d]) \in Nat /\ DOMAIN front[d] = 1..Len(front[d])
         /\ DOMAIN front'[d] = 1..Len(front[d]) + 1
         /\ \A i \in 1..Len(front[d]) + 1 :
              front'[d][i] = IF i <= Len(front[d]) THEN front[d][i] ELSE m
         /\ \A e \in Devices \ {d} : front'[e] = front[e]
         /\ UNCHANGED <<vars, joined, call, cache, out, told, view>>
<1>1. UNCHANGED <<vars, joined, call, cache, out, told, view>>
  BY DEF Publish, Calls
<1>2. front' = [front EXCEPT ![d] = Append(@, m)]
  BY DEF Publish
<1> DEFINE s == front[d]
<1>3. s \in Seq(WritesBy(issued)) /\ front'[d] = Append(s, m)
  BY <1>2, DeviceFacts DEF HandlesIssued
<1>4. /\ Len(s) \in Nat /\ DOMAIN s = 1..Len(s)
      /\ DOMAIN Append(s, m) = 1..Len(s) + 1
      /\ \A j \in 1..Len(s) + 1 : Append(s, m)[j] = IF j <= Len(s) THEN s[j] ELSE m
  BY <1>3, LenProperties
<1>5. \A e \in Devices \ {d} : front'[e] = front[e]
  BY <1>2, DeviceFacts DEF HandlesIssued
<1> QED
  BY <1>1, <1>3, <1>4, <1>5

LEMMA ScriptWrite ==
  ASSUME HandlesIssued, ScriptInv, NEW d \in Devices, NEW m, Publish(d, m),
         ListWrite(m), m.op # "ADD_ITEM",
         at[d] \in {"create_level", "set_level", "create_list"},
         NEW q \in {"sub_level", "find_list", "find_again"}, Goto(d, q)
  PROVE  ScriptInv'
<1>1. PlaceOf(d) /\ WritesOf(d) /\ at \in [Devices -> Places] /\ q \in Places /\ q \in Early
  BY DEF ScriptInv, Places, Early
<1>2. d \in joined /\ cache[d][DevList] = Nil /\ d \notin Joined /\ d \notin OnTheWay
  BY <1>1 DEF PlaceOf, WritesOf, Joined, Early
<1>3. /\ at'[d] = q /\ at' \in [Devices -> Places]
      /\ \A e \in Devices \ {d} : at'[e] = at[e]
  BY <1>1 DEF Goto
<1>4. gmap' = gmap /\ \A e \in Devices \ {d} : Same(e)
  BY <1>2, <1>3, FrontAppend DEF Same, vars
<1>5. \A i \in DOMAIN front'[d] :
        front'[d][i] = m \/ \E j \in DOMAIN front[d] : front'[d][i] = front[d][j]
  BY <1>2, FrontAppend
<1>6. \A i \in DOMAIN front'[d] : ListWrite(front'[d][i]) /\ front'[d][i].op # "ADD_ITEM"
  BY <1>1, <1>2, <1>5 DEF WritesOf, OnTheWay
<1>7. d \notin Joined' /\ d \notin OnTheWay'
  BY <1>3, <1>6 DEF Joined, OnTheWay
<1>8. WritesOf(d)'
  BY <1>6, <1>7 DEF WritesOf, ListWrite
<1>9. PlaceOf(d)'
  BY <1>1, <1>2, <1>3, FrontAppend DEF PlaceOf
<1> QED
  BY <1>2, <1>3, <1>4, <1>7, <1>8, <1>9, ScriptKept

(* The join: one device more has joined and one more has an item on its way.  *)
LEMMA ScriptJoin ==
  ASSUME HandlesIssued, ScriptInv, NEW d \in Devices, NEW m, Publish(d, m),
         m.op = "ADD_ITEM", m.name = DevList,
         at[d] = "join_list", Goto(d, "listen")
  PROVE  ScriptInv'
<1>1. PlaceOf(d) /\ WritesOf(d) /\ at \in [Devices -> Places] /\ ListCounted
  BY DEF ScriptInv
<1>2. d \in joined /\ cache[d][DevList] # Nil /\ d \notin Joined /\ d \notin OnTheWay
  BY <1>1 DEF PlaceOf, WritesOf, Joined
<1>3. /\ at'[d] = "listen" /\ at' \in [Devices -> Places]
      /\ \A e \in Devices \ {d} : at'[e] = at[e]
  BY <1>1 DEF Goto, Places
<1>4. gmap' = gmap /\ cache' = cache /\ \A e \in Devices \ {d} : Same(e)
  BY <1>2, <1>3, FrontAppend DEF Same, vars
<1>5. \A i \in DOMAIN front[d] : front[d][i].op # "ADD_ITEM"
  BY <1>2 DEF OnTheWay
<1>6. \A i \in DOMAIN front'[d] : front'[d][i].op = "ADD_ITEM" <=> i = Len(front[d]) + 1
  BY <1>2, <1>5, FrontAppend
<1>7. Len(front[d]) + 1 \in DOMAIN front'[d]
  BY <1>2, FrontAppend
<1>8. d \in Joined' /\ d \in OnTheWay'
  BY <1>2, <1>3, <1>4, <1>6, <1>7 DEF Joined, OnTheWay
<1>9. WritesOf(d)'
  <2>1. \A i \in DOMAIN front'[d] : ListWrite(front'[d][i])
    BY <1>1, <1>2, FrontAppend DEF WritesOf, ListWrite
  <2>2. \A i, j \in DOMAIN front'[d] :
          front'[d][i].op = "ADD_ITEM" /\ front'[d][j].op = "ADD_ITEM" => i = j
    BY <1>6
  <2> QED
    BY <1>8, <2>1, <2>2 DEF WritesOf, ListWrite
<1>10. PlaceOf(d)'
  BY <1>1, <1>2, <1>3, FrontAppend DEF PlaceOf, Places, Early
<1>11. Joined' = Joined \cup {d} /\ OnTheWay' = OnTheWay \cup {d}
  <2>1. \A e \in Devices \ {d} :
          (e \in Joined' <=> e \in Joined) /\ (e \in OnTheWay' <=> e \in OnTheWay)
    BY <1>4, SameKept
  <2>2. Joined' \subseteq Devices /\ Joined \subseteq Devices
    BY DEF Joined
  <2>3. OnTheWay' \subseteq Devices /\ OnTheWay \subseteq Devices
    BY DEF OnTheWay
  <2> QED
    BY <1>8, <2>1, <2>2, <2>3
<1>12. ListCounted'
  <2>1. /\ IsFiniteSet(Joined') /\ Cardinality(Joined') = Cardinality(Joined) + 1
        /\ IsFiniteSet(OnTheWay') /\ Cardinality(OnTheWay') = Cardinality(OnTheWay) + 1
        /\ Cardinality(Joined) \in Nat /\ Cardinality(OnTheWay) \in Nat
    BY <1>1, <1>2, <1>11, FS_AddElement, FS_CardinalityType DEF ListCounted
  <2>2. Created' = Created
    BY <1>4 DEF Created
  <2> QED
    BY <1>1, <1>4, <2>1, <2>2 DEF ListCounted
<1>13. \A e \in Devices : PlaceOf(e)' /\ WritesOf(e)'
  BY <1>4, <1>9, <1>10, SameKept DEF ScriptInv
<1> QED
  BY <1>3, <1>12, <1>13 DEF ScriptInv

(* A step that leaves the table and the writes under way alone, and of the    *)
(* devices concerns d alone.                                                  *)
LEMMA ScriptMove ==
  ASSUME ScriptInv, NEW d \in Devices, UNCHANGED <<gmap, front>>, joined \subseteq joined',
         NEW q \in Places, at' = [at EXCEPT ![d] = q],
         \A e \in Devices \ {d} : cache'[e] = cache[e] /\ call'[e] = call[e],
         PlaceOf(d)', d \in Joined' <=> d \in Joined
  PROVE  ScriptInv'
<1>1. /\ at' \in [Devices -> Places]
      /\ \A e \in Devices \ {d} : at'[e] = at[e]
  BY DEF ScriptInv
<1>2. \A e \in Devices \ {d} : Same(e)
  BY <1>1 DEF Same
<1>3. d \in OnTheWay' <=> d \in OnTheWay
  BY DEF OnTheWay
<1>4. WritesOf(d)'
  BY <1>3 DEF ScriptInv, WritesOf, ListWrite
<1> QED
  BY <1>1, <1>2, <1>3, <1>4, ScriptKept

LEMMA ScriptOpen ==
  ASSUME ScriptInv, NEW d \in Devices, Step(d, "open", DSV_Open(d), "create_level")
  PROVE  ScriptInv'
<1>1. /\ at[d] = "open" /\ at' = [at EXCEPT ![d] = "create_level"]
      /\ joined' = joined \cup {d} /\ UNCHANGED <<gmap, front, cache, call>>
  BY DEF Step, DSV_Open, Join, Goto, vars
<1>2. at'[d] = "create_level" /\ "create_level" \in Places /\ PlaceOf(d)
  BY <1>1 DEF ScriptInv, Places
<1>3. PlaceOf(d)' /\ d \notin Joined /\ d \notin Joined'
  BY <1>1, <1>2 DEF PlaceOf, Joined, Early
<1> QED
  BY <1>1, <1>2, <1>3, ScriptMove

LEMMA ScriptSub ==
  ASSUME ScriptInv, NEW d \in Devices, NEW p, NEW n, NEW q,
         Step(d, p, DSV_SubByName(d, n), q),
         <<p, q>> \in {<<"sub_level", "find_level">>, <<"sub_list", "join_list">>}
  PROVE  ScriptInv'
<1>1. /\ at[d] = p /\ at' = [at EXCEPT ![d] = q]
      /\ UNCHANGED <<gmap, front, joined, cache, call>>
  BY DEF Step, DSV_SubByName, Goto, Calls, vars
<1>2. at'[d] = q /\ q \in Places /\ PlaceOf(d)
  BY <1>1 DEF ScriptInv, Places
<1>3. PlaceOf(d)' /\ d \notin Joined /\ d \notin Joined'
  BY <1>1, <1>2 DEF PlaceOf, Joined, Early
<1> QED
  BY <1>1, <1>2, <1>3, ScriptMove

LEMMA ScriptAsk ==
  ASSUME HandlesIssued, ScriptInv, NEW d \in Devices, NEW p, NEW n, NEW q,
         Step(d, p, DSV_Handle(d, n), q),
         \/ p = "find_level" /\ q = "await_level" /\ n = LogLevel[d]
         \/ p = "find_list" /\ q = "await_list" /\ n = DevList
         \/ p = "find_again" /\ q = "await_again" /\ n = DevList
  PROVE  ScriptInv'
<1> DEFINE r == [op |-> "GET_HANDLE", name |-> n]
<1>1. /\ at[d] = p /\ at' = [at EXCEPT ![d] = q]
      /\ UNCHANGED <<gmap, front, joined, cache>>
      /\ call' = [call EXCEPT ![d] = r]
  BY DEF Step, DSV_Handle, Request1, Goto, Calls, vars
<1>2. at'[d] = q /\ q \in Places /\ PlaceOf(d)
  BY <1>1 DEF ScriptInv, Places
<1>3. call'[d] = r /\ \A e \in Devices \ {d} : call'[e] = call[e]
  BY <1>1, DeviceFacts DEF HandlesIssued
<1>4. r.name = n
  OBVIOUS
<1> HIDE DEF r
<1>5. PlaceOf(d)' /\ d \notin Joined /\ d \notin Joined'
  BY <1>1, <1>2, <1>3, <1>4 DEF PlaceOf, Joined, Early
<1> QED
  BY <1>1, <1>2, <1>3, <1>5, ScriptMove

LEMMA ScriptReturn ==
  ASSUME HandlesIssued, ScriptInv, NEW d \in Devices, NEW p, NEW yes, NEW no,
         Answered(d, p, yes, no),
         \/ p = "await_level" /\ yes = "set_level" /\ no = "find_list"
         \/ p = "await_list" /\ yes = "sub_list" /\ no = "create_list"
         \/ p = "await_again" /\ yes = "sub_list" /\ no = "listen"
  PROVE  ScriptInv'
<1> DEFINE q == IF call[d].hndl # Nil THEN yes ELSE no
<1>1. /\ at[d] = p /\ at' = [at EXCEPT ![d] = q]
      /\ UNCHANGED <<gmap, front, joined>>
      /\ call' = [call EXCEPT ![d] = Nil]
      /\ cache' = IF call[d].hndl # Nil
                  THEN [cache EXCEPT ![d][call[d].name] = call[d].hndl] ELSE cache
  BY DEF Answered, Step, Return, Goto, vars
<1>2. at'[d] = q /\ q \in Places /\ PlaceOf(d)
  BY <1>1 DEF ScriptInv, Places
<1>3. /\ \A e \in Devices \ {d} : call'[e] = call[e] /\ cache'[e] = cache[e]
      /\ cache'[d][DevList] = IF call[d].hndl # Nil /\ call[d].name = DevList
                              THEN call[d].hndl ELSE cache[d][DevList]
  BY <1>1, DevmanAssumption DEF HandlesIssued
<1>4. /\ cache[d][DevList] = Nil /\ d \in joined
      /\ p = "await_level" => call[d].name # DevList
      /\ p # "await_level" => call[d].name = DevList
  BY <1>1, <1>2, DeviceFacts DEF PlaceOf, Early
<1>5. PlaceOf(d)' /\ d \notin Joined /\ d \notin Joined'
  BY <1>1, <1>2, <1>3, <1>4 DEF PlaceOf, Joined, Early
<1> HIDE DEF q
<1> QED
  BY <1>1, <1>2, <1>3, <1>5, ScriptMove

LEMMA ScriptDies ==
  ASSUME ScriptInv, NEW d \in Devices, CreateUndefined(d)
  PROVE  ScriptInv'
<1>1. /\ at[d] \in {"create_level", "create_list"} /\ at' = [at EXCEPT ![d] = "dead"]
      /\ UNCHANGED <<gmap, front, joined, cache, call>>
  BY DEF CreateUndefined, Goto, allvars, cvars, vars
<1>2. at'[d] = "dead" /\ "dead" \in Places /\ PlaceOf(d)
  BY <1>1 DEF ScriptInv, Places
<1>3. PlaceOf(d)' /\ d \notin Joined /\ d \notin Joined'
  BY <1>1, <1>2 DEF PlaceOf, Joined, Early
<1> QED
  BY <1>1, <1>2, <1>3, ScriptMove

(* A step that changes nothing of a device but its call, and keeps its name.  *)
LEMMA ScriptWaits ==
  ASSUME HandlesIssued, ScriptInv, NEW d \in Devices,
         UNCHANGED <<gmap, front, joined, cache, at>>,
         NEW r, call' = [call EXCEPT ![d] = r],
         at[d] \in {"await_level", "await_list", "await_again"} => r.name = call[d].name
  PROVE  ScriptInv'
<1>1. at[d] \in Places /\ at' = [at EXCEPT ![d] = at[d]] /\ PlaceOf(d)
  BY DEF ScriptInv
<1>2. call'[d] = r /\ \A e \in Devices \ {d} : call'[e] = call[e]
  BY DeviceFacts DEF HandlesIssued
<1>3. PlaceOf(d)' /\ (d \in Joined' <=> d \in Joined)
  BY <1>1, <1>2 DEF PlaceOf, Joined
<1> QED
  BY <1>1, <1>2, <1>3, ScriptMove

(* A step that leaves to the devices what is theirs.                          *)
LEMMA ScriptStill ==
  ASSUME ScriptInv, UNCHANGED <<gmap, front, joined, cache, call, at>>
  PROVE  ScriptInv'
<1>1. \A d \in Devices : Same(d)
  BY DEF Same
<1>2. \A d \in Devices : PlaceOf(d)' /\ WritesOf(d)'
  BY <1>1, SameKept DEF ScriptInv
<1>3. ListCounted'
  BY DEF ScriptInv, ListCounted, Joined, OnTheWay, Created
<1> QED
  BY <1>2, <1>3 DEF ScriptInv

LEMMA ScriptNotified ==
  ASSUME HandlesIssued, ScriptInv, NEW d \in Devices, ProcessNotifications(d)
  PROVE  ScriptInv'
<1> DEFINE r == [op |-> "GET_TYPE", name |-> Head(out[d]).name, hndl |-> Head(out[d]).hndl]
<1>1. /\ at[d] = "listen" /\ UNCHANGED <<gmap, front, joined, cache, at>>
      /\ call' = call \/ call' = [call EXCEPT ![d] = r]
  BY DEF ProcessNotifications, HandleNotification, DSV_GetNotification, vars
<1> HIDE DEF r
<1> QED
  BY <1>1, ScriptWaits, ScriptStill

LEMMA ScriptReply ==
  ASSUME HandlesIssued, ScriptInv, NEW d \in Devices, HandleReply(d), at' = at
  PROVE  ScriptInv'
<1>1. /\ UNCHANGED <<gmap, front, joined, cache>>
      /\ call' = [call EXCEPT ![d] = Answer(call[d])]
  BY DEF HandleReply, vars
<1>2. Answer(call[d]).name = call[d].name
  BY DEF Answer
<1> QED
  BY <1>1, <1>2, ScriptWaits

(* The write of a device reaches the server: what is left of its writes.      *)
LEMMA FrontTail ==
  ASSUME HandlesIssued, NEW d \in Devices, Take(d)
  PROVE  /\ Len(front[d]) \in Nat /\ DOMAIN front[d] = 1..Len(front[d])
         /\ Len(front[d]) > 0 /\ Head(front[d]) = front[d][1]
         /\ Head(front[d]) \in WritesBy(issued)
         /\ DOMAIN front'[d] = 1..Len(front[d]) - 1
         /\ \A i \in 1..Len(front[d]) - 1 : front'[d][i] = front[d][i + 1]
         /\ \A e \in Devices \ {d} : front'[e] = front[e]
         /\ UNCHANGED <<joined, call, cache>>
<1> DEFINE q == front[d]
<1>1. /\ q \in Seq(WritesBy(issued)) /\ q # <<>> /\ front'[d] = Tail(q)
      /\ \A e \in Devices \ {d} : front'[e] = front[e]
      /\ UNCHANGED <<joined, call, cache>>
  BY DeviceFacts DEF Take, HandlesIssued
<1>2. /\ Len(q) \in Nat /\ DOMAIN q = 1..Len(q) /\ Len(q) > 0
  BY <1>1, LenProperties
<1>3. /\ Head(q) = q[1] /\ Head(q) \in WritesBy(issued)
      /\ Tail(q) \in Seq(WritesBy(issued)) /\ Len(Tail(q)) = Len(q) - 1
      /\ \A j \in 1..Len(Tail(q)) : Tail(q)[j] = q[j + 1]
  BY <1>1, <1>2, HeadTailProperties
<1>4. DOMAIN Tail(q) = 1..Len(Tail(q))
  BY <1>3, LenProperties
<1> QED
  BY <1>1, <1>2, <1>3, <1>4

LEMMA WritesLeft ==
  ASSUME HandlesIssued, ScriptInv, NEW d \in Devices, Take(d), at' = at
  PROVE  /\ \A e \in Devices : PlaceOf(e)' /\ WritesOf(e)'
         /\ Joined' = Joined
         /\ OnTheWay' = IF Head(front[d]).op = "ADD_ITEM" THEN OnTheWay \ {d} ELSE OnTheWay
         /\ Head(front[d]).op = "ADD_ITEM" => d \in OnTheWay
         /\ ListWrite(Head(front[d]))
<1> DEFINE m == Head(front[d])
<1>1. /\ Len(front[d]) \in Nat /\ DOMAIN front[d] = 1..Len(front[d])
      /\ Len(front[d]) > 0 /\ m = front[d][1]
      /\ DOMAIN front'[d] = 1..Len(front[d]) - 1
      /\ \A i \in 1..Len(front[d]) - 1 : front'[d][i] = front[d][i + 1]
      /\ \A e \in Devices \ {d} : front'[e] = front[e]
      /\ UNCHANGED <<joined, call, cache>>
  BY FrontTail
<1>2. WritesOf(d) /\ 1 \in DOMAIN front[d]
  BY <1>1 DEF ScriptInv
<1> HIDE DEF m
<1>3. \A i \in DOMAIN front'[d] : i + 1 \in DOMAIN front[d] /\ front'[d][i] = front[d][i + 1]
  BY <1>1
<1>4. Joined' = Joined /\ \A e \in Devices : PlaceOf(e)'
  BY <1>1 DEF Joined, ScriptInv, PlaceOf
<1>5. \A e \in Devices \ {d} : Same(e)
  BY <1>1 DEF Same
<1>6. \A e \in Devices \ {d} : e \in OnTheWay' <=> e \in OnTheWay
  BY <1>5, SameKept
<1>7. m.op = "ADD_ITEM" => d \in OnTheWay /\ d \notin OnTheWay'
  <2> SUFFICES ASSUME m.op = "ADD_ITEM" PROVE d \in OnTheWay /\ d \notin OnTheWay'
    OBVIOUS
  <2>1. d \in OnTheWay
    BY <1>1, <1>2 DEF OnTheWay
  <2>2. ASSUME NEW i \in DOMAIN front'[d], front'[d][i].op = "ADD_ITEM"
        PROVE  FALSE
    <3>1. i + 1 = 1
      BY <1>1, <1>2, <1>3, <2>2 DEF WritesOf
    <3> QED
      BY <1>1, <3>1
  <2> QED
    BY <2>1, <2>2 DEF OnTheWay
<1>8. m.op # "ADD_ITEM" => (d \in OnTheWay' <=> d \in OnTheWay)
  <2> SUFFICES ASSUME m.op # "ADD_ITEM" PROVE d \in OnTheWay' <=> d \in OnTheWay
    OBVIOUS
  <2>1. d \in OnTheWay' => d \in OnTheWay
    BY <1>3 DEF OnTheWay
  <2>2. ASSUME NEW i \in DOMAIN front[d], front[d][i].op = "ADD_ITEM"
        PROVE  i - 1 \in DOMAIN front'[d] /\ front'[d][i - 1].op = "ADD_ITEM"
    BY <1>1, <2>2
  <2>3. d \in OnTheWay => d \in OnTheWay'
    BY <2>2 DEF OnTheWay
  <2> QED
    BY <2>1, <2>3
<1>9. OnTheWay' = IF m.op = "ADD_ITEM" THEN OnTheWay \ {d} ELSE OnTheWay
  <2>1. OnTheWay \subseteq Devices /\ OnTheWay' \subseteq Devices
    BY DEF OnTheWay
  <2> QED
    BY <1>6, <1>7, <1>8, <2>1
<1>10. WritesOf(d)'
  <2>1. \A i \in DOMAIN front'[d] : ListWrite(front'[d][i])
    BY <1>2, <1>3 DEF WritesOf, ListWrite
  <2>2. ASSUME NEW i \in DOMAIN front'[d], NEW j \in DOMAIN front'[d],
               front'[d][i].op = "ADD_ITEM", front'[d][j].op = "ADD_ITEM"
        PROVE  i = j
    <3>1. i + 1 = j + 1
      BY <1>2, <1>3, <2>2 DEF WritesOf
    <3> QED
      BY <1>1, <3>1
  <2>3. d \in OnTheWay' => d \in Joined'
    BY <1>2, <1>4, <1>9 DEF WritesOf
  <2> QED
    BY <2>1, <2>2, <2>3 DEF WritesOf, ListWrite
<1>11. \A e \in Devices : WritesOf(e)'
  BY <1>5, <1>10, SameKept DEF ScriptInv
<1>12. ListWrite(m)
  BY <1>1, <1>2 DEF WritesOf
<1> QED
  BY <1>4, <1>7, <1>9, <1>11, <1>12 DEF m

(* What the write of a device does to the list: an item adds one to it, the   *)
(* create that is first makes it one long, nothing else touches it.           *)
LEMMA ItemAdds ==
  ASSUME DeviceInv, Base, NEW m \in WritesBy(issued), m.op = "ADD_ITEM",
         DeviceWrite(m), m.name = DevList, NEW c, FrontendItem(c, m)
  PROVE  /\ DevList \in Created /\ DevList \in Created'
         /\ Len(gmap'[DevList].val) = Len(gmap[DevList].val) + 1
<1>1. DevList \in Created /\ gmap[DevList].hndl = m.hndl
  BY DEF DeviceWrite, Good
<1>2. \A n : At(m.hndl, n) => n = DevList
  BY <1>1 DEF At, Base, HandlesDistinct
<1>3. VarAddItem(m.hndl, m.item)
  BY <1>2, DevmanAssumption DEF FrontendItem, EditItem
<1> DEFINE e == Resized(gmap[DevList], Append(gmap[DevList].val, m.item))
<1>4. Update(DevList, e)
  BY <1>2, <1>3 DEF VarAddItem, ArrayAt
<1>5. gmap[DevList].val \in Seq(Data) /\ m.item \in Data
  BY <1>1, EntryOf, ValueIsSeq DEF Base, WritesBy
<1>6. e.val = Append(gmap[DevList].val, m.item)
  BY <1>1, EntryOf DEF Base, Resized, Stored, Entry
<1>7. Len(e.val) = Len(gmap[DevList].val) + 1
  BY <1>5, <1>6, AppendProperties
<1> HIDE DEF e
<1>8. gmap'[DevList] = e
  BY <1>1, <1>4, EntryWrite
<1>9. DevList \in Created'
  <2>1. UNCHANGED status /\ DevList \in Names
    BY <1>4, DeviceFacts, DevmanAssumption DEF Update
  <2>2. \A n : n \in Created => n \in Created'
    BY <2>1, GoodKept DEF Good, DeviceInv
  <2> QED
    BY <1>1, <2>2
<1> QED
  BY <1>1, <1>7, <1>8, <1>9

LEMMA OthersKeep ==
  ASSUME DeviceInv, Base, NEW m \in WritesBy(issued), m.op # "ADD_ITEM",
         DeviceWrite(m), ListWrite(m), NEW c,
         \/ FrontendCreate(c, m) \/ FrontendSet(c, m) \/ FrontendItem(c, m)
         \/ FrontendSave(c, m) \/ FrontendRestore(c, m)
  PROVE  \/ gmap'[DevList] = gmap[DevList]
         \/ DevList \notin Created /\ Len(gmap'[DevList].val) = 1
<1>0. DevList \in Names /\ gmap \in [Names -> Entry \cup {Absent}]
  BY DevmanAssumption DEF Base, IInv, TypeOK
<1>1. CASE FrontendCreate(c, m)
  <2>1. CASE UNCHANGED vars
    BY <2>1 DEF vars
  <2>2. ASSUME NEW h \in Handles, VarCreate(m.name, m.val, CreateFlags, FALSE, h)
        PROVE  \/ gmap'[DevList] = gmap[DevList]
               \/ DevList \notin Created /\ Len(gmap'[DevList].val) = 1
    <3>1. CASE m.name = DevList
      <4>1. gmap'[DevList].val = m.val /\ DevList \notin Created
        BY <1>0, <2>2, <3>1 DEF VarCreate, Vacant
      <4>2. Len(m.val) = 1
        BY <1>1, <3>1 DEF ListWrite, FrontendCreate
      <4> QED
        BY <4>1, <4>2
    <3>2. CASE m.name # DevList
      BY <1>0, <2>2, <3>2 DEF VarCreate
    <3> QED
      BY <3>1, <3>2
  <2> QED
    BY <1>1, <2>1, <2>2 DEF FrontendCreate
<1>2. CASE FrontendSet(c, m)
  <2>1. PICK n \in Names : \E e : n \in Created /\ gmap[n].hndl = m.hndl /\ Update(n, e)
    BY <1>2 DEF FrontendSet, VarSet, At
  <2>0. PICK e : n \in Created /\ gmap[n].hndl = m.hndl /\ Update(n, e)
    BY <2>1
  <2>2. n = m.name /\ n # DevList
    BY <1>2, <2>0 DEF FrontendSet, DeviceWrite, Good, Base, HandlesDistinct
  <2> QED
    BY <1>0, <2>0, <2>2, EntryWrite
<1>3. CASE FrontendItem(c, m) \/ FrontendSave(c, m) \/ FrontendRestore(c, m)
  BY <1>3 DEF DeviceWrite, FrontendItem, ItemOps, FrontendSave, FrontendRestore
<1> QED
  BY <1>1, <1>2, <1>3

LEMMA ScriptFrontend ==
  ASSUME DeviceInv, Base, ScriptInv, NEW d \in Devices, HandleFrontend(d), at' = at
  PROVE  ScriptInv'
<1> DEFINE m == Head(front[d])
<1>1. HandlesIssued /\ Take(d) /\ d \in Clients
  BY DeviceFacts DEF Base, HandleFrontend
<1>2. m \in WritesBy(issued) /\ DeviceWrite(m) /\ ListWrite(m)
  <2>1. m = front[d][1] /\ 1 \in DOMAIN front[d] /\ m \in WritesBy(issued)
    BY <1>1, FrontTail
  <2>2. DeviceWrite(m)
    BY <1>1, <2>1 DEF DeviceInv, FrontGood
  <2> QED
    BY <1>1, <2>1, <2>2, WritesLeft
<1>3. /\ \A e \in Devices : PlaceOf(e)' /\ WritesOf(e)'
      /\ Joined' = Joined
      /\ OnTheWay' = IF m.op = "ADD_ITEM" THEN OnTheWay \ {d} ELSE OnTheWay
      /\ m.op = "ADD_ITEM" => d \in OnTheWay
  BY <1>1, WritesLeft
<1>4. /\ FrontendCreate(d, m) \/ FrontendSet(d, m) \/ FrontendItem(d, m)
         \/ FrontendSave(d, m) \/ FrontendRestore(d, m)
  BY DEF HandleFrontend
<1> HIDE DEF m
<1>5. DevList \notin Created => Joined = {} /\ OnTheWay = {}
  BY <1>1, DevmanAssumption DEF DeviceInv, CachesGood, Good, Joined, ScriptInv, WritesOf, OnTheWay
<1>6. ListCounted'
  <2>1. ListCounted
    BY DEF ScriptInv
  <2>2. CASE m.op = "ADD_ITEM"
    <3>1. FrontendItem(d, m) /\ m.name = DevList
      BY <1>2, <1>4, <2>2
         DEF FrontendCreate, FrontendSet, FrontendSave, FrontendRestore, ListWrite
    <3>2. /\ DevList \in Created /\ DevList \in Created'
          /\ Len(gmap'[DevList].val) = Len(gmap[DevList].val) + 1
      BY <1>2, <2>2, <3>1, ItemAdds
    <3>3. /\ IsFiniteSet(OnTheWay') /\ Cardinality(OnTheWay') = Cardinality(OnTheWay) - 1
          /\ Cardinality(OnTheWay) \in Nat /\ Cardinality(Joined) \in Nat
      BY <1>3, <2>1, <2>2, FS_RemoveElement, FS_CardinalityType DEF ListCounted
    <3> QED
      BY <1>3, <2>1, <3>2, <3>3 DEF ListCounted
  <2>3. CASE m.op # "ADD_ITEM"
    <3>1. \/ gmap'[DevList] = gmap[DevList]
          \/ DevList \notin Created /\ Len(gmap'[DevList].val) = 1
      BY <1>2, <1>4, <2>3, OthersKeep
    <3>2. Joined' = Joined /\ OnTheWay' = OnTheWay
      BY <1>3, <2>3
    <3>3. CASE gmap'[DevList] = gmap[DevList]
      BY <2>1, <3>2, <3>3 DEF ListCounted, Created
    <3>4. CASE DevList \notin Created /\ Len(gmap'[DevList].val) = 1
      BY <1>5, <2>1, <3>2, <3>4, FS_EmptySet DEF ListCounted
    <3> QED
      BY <3>1, <3>3, <3>4
  <2> QED
    BY <2>2, <2>3
<1> QED
  BY <1>3, <1>6 DEF ScriptInv

LEMMA ScriptCalls ==
  ASSUME HandlesIssued, ScriptInv, NEW d \in Devices,
         InitLogmask(d) \/ FindDevlist(d) \/ JoinDevlist(d)
  PROVE  ScriptInv'
<1>1. ASSUME NEW p, NEW n, NEW v, NEW q, Step(d, p, DSV_Create(d, n, v), q),
             p \in {"create_level", "create_list"}, q \in {"sub_level", "find_again"},
             n = DevList => Len(v) = 1
      PROVE  ScriptInv'
  <2> DEFINE m == [op |-> "CREATE", name |-> n, val |-> v]
  <2>1. Publish(d, m) /\ ListWrite(m) /\ m.op # "ADD_ITEM" /\ at[d] = p /\ Goto(d, q)
    BY <1>1 DEF Step, DSV_Create, ListWrite
  <2> HIDE DEF m
  <2> QED
    BY <1>1, <2>1, ScriptWrite
<1>2. ASSUME NEW v, Step(d, "set_level", DSV_Set(d, LogLevel[d], v), "find_list")
      PROVE  ScriptInv'
  <2> DEFINE m == [op |-> "SET", name |-> LogLevel[d], hndl |-> cache[d][LogLevel[d]],
                   val |-> v]
  <2>1. /\ Publish(d, m) /\ ListWrite(m) /\ m.op # "ADD_ITEM"
        /\ at[d] = "set_level" /\ Goto(d, "find_list")
    BY <1>2 DEF Step, DSV_Set, ListWrite
  <2> HIDE DEF m
  <2> QED
    BY <2>1, ScriptWrite
<1>3. ASSUME NEW x, Step(d, "join_list", DSV_AddItemToArray(d, DevList, x), "listen")
      PROVE  ScriptInv'
  <2> DEFINE m == [op |-> "ADD_ITEM", name |-> DevList, hndl |-> cache[d][DevList],
                   item |-> x]
  <2>1. /\ Publish(d, m) /\ m.op = "ADD_ITEM" /\ m.name = DevList
        /\ at[d] = "join_list" /\ Goto(d, "listen")
    BY <1>3 DEF Step, DSV_AddItemToArray, EditArray
  <2> HIDE DEF m
  <2> QED
    BY <2>1, ScriptJoin
<1>4. CASE InitLogmask(d)
  <2>1. Len(<<Warning>>) = 1 /\ LogLevel[d] # DevList
    BY DeviceFacts
  <2> QED
    BY <1>1, <1>2, <1>4, <2>1, ScriptOpen, ScriptSub, ScriptAsk, ScriptReturn
       DEF InitLogmask, DSV_LogInit
<1>5. CASE FindDevlist(d)
  <2>1. Len(<<DefaultID>>) = 1
    OBVIOUS
  <2> QED
    BY <1>1, <1>5, <2>1, ScriptAsk, ScriptReturn DEF FindDevlist
<1>6. CASE JoinDevlist(d)
  BY <1>3, <1>6, ScriptSub DEF JoinDevlist
<1> QED
  BY <1>4, <1>5, <1>6

LEMMA ScriptSteps ==
  ASSUME DeviceInv, Base, ScriptInv, [DevmanNext]_devvars
  PROVE  ScriptInv'
<1>1. HandlesIssued
  BY DEF Base
<1>2. CASE Served
  <2>1. at' = at
    BY <1>2 DEF Served
  <2>2. CASE HandleBackend \/ \E d \in Devices : Accept(d)
    BY <2>1, <2>2, ScriptStill DEF HandleBackend, Accept, vars
  <2> QED
    BY <1>1, <1>2, <2>1, <2>2, ScriptFrontend, ScriptReply DEF Served
<1>3. CASE UNCHANGED devvars
  BY <1>3, ScriptStill DEF devvars, allvars, cvars, vars
<1> QED
  BY <1>1, <1>2, <1>3, ScriptCalls, ScriptDies, ScriptNotified DEF DevmanNext

\* The same steps, from what has been proved of the table.
LEMMA ScriptInvariance ==
  /\ DevmanInit => DevmanIInv /\ ScriptInv
  /\ DevmanIInv /\ ScriptInv /\ [DevmanNext]_devvars => DevmanIInv' /\ ScriptInv'
<1>1. ASSUME DevmanIInv, ScriptInv, [DevmanNext]_devvars
      PROVE  DevmanIInv' /\ ScriptInv'
  <2>1. DevmanIInv' /\ [Next]_vars
    BY <1>1, DevmanInv, DevmanStep, BaseStep DEF DevmanIInv
  <2>2. Base
    BY <1>1, <2>1 DEF DevmanIInv, ServerBase, Base
  <2> QED
    BY <1>1, <2>1, <2>2, ScriptSteps DEF DevmanIInv
<1> QED
  BY <1>1, DevmanInv, ScriptInit

(* No join is lost or done twice: the list is as long as the devices that     *)
(* found it are many, less those whose item is still on its way, and one      *)
(* longer for the default instance; whoever created it, for any number of     *)
(* devices (devman.cpp:96).                                                   *)
THEOREM EveryJoinCounted == DevmanSpec => []JoinsCounted
<1>1. DevmanIInv /\ ScriptInv => JoinsCounted
  BY DevmanAssumption
     DEF DevmanIInv, DeviceInv, CachesGood, Good, ScriptInv, ListCounted, JoinsCounted, Joined
<1> QED
  BY <1>1, ScriptInvariance, PTL DEF DevmanSpec

-----------------------------------------------------------------------------
(* What a device is sent of its log level it takes for its log level: every   *)
(* forward carries the handle of the entry it is of.  Until a device listens  *)
(* it reads nothing, so that it has yet to hear what it was sent; and once it *)
(* listens it has the level it heard last.                                    *)
ForwardsGood ==
  /\ \A d \in Devices : \A i \in DOMAIN out[d] : Good(out[d][i].name, out[d][i].hndl)
  /\ fwdbuf # Nil => Good(fwdbuf.name, fwdbuf.hndl)

Listens(d) == at[d] = "listen"
AwaitsNews(d) == \E i \in DOMAIN out[d] : out[d][i].name = LogLevel[d]

LevelHeard(d) ==
  <<d, LogLevel[d]>> \in told =>
    \/ AwaitsNews(d)
    \/ /\ Listens(d)
       /\ cache[d][LogLevel[d]] # Nil => level[d] = view[d][LogLevel[d]][1]

LevelInv == /\ behind = {}
            /\ DOMAIN level = Devices
            /\ ForwardsGood
            /\ \A d \in Devices : LevelHeard(d)

LEMMA LevelInit == DevmanInit => LevelInv
<1> SUFFICES ASSUME DevmanInit PROVE LevelInv
  OBVIOUS
<1>1. behind = {} /\ told = {} /\ fwdbuf = Nil /\ \A d \in Devices : out[d] = <<>>
  BY DeviceFacts DEF DevmanInit, ServerInit, PerClient
<1>2. DOMAIN level = Devices
  BY DevmanAssumption DEF DevmanInit
<1> QED
  BY <1>1, <1>2 DEF LevelInv, ForwardsGood, LevelHeard

(* A step that sends nothing, reads nothing and leaves the table alone.       *)
LEMMA LevelKept ==
  ASSUME LevelInv, UNCHANGED <<vars, out, fwdbuf, told, behind, view, level>>,
         \A d \in Devices : Listens(d) => at'[d] = at[d] /\ cache'[d] = cache[d]
  PROVE  LevelInv'
<1>1. \A n, h : Good(n, h)' = Good(n, h)
  BY DEF Good, Created, vars
<1>2. ForwardsGood'
  BY <1>1 DEF LevelInv, ForwardsGood
<1>3. ASSUME NEW d \in Devices PROVE LevelHeard(d)'
  BY DEF LevelInv, LevelHeard, Listens, AwaitsNews
<1> QED
  BY <1>2, <1>3 DEF LevelInv

GoodAfter(f) == f.name \in Created' /\ gmap'[f.name].hndl = f.hndl
FwdGoodAfter == fwdbuf' # Nil => GoodAfter(fwdbuf')

LEMMA StaysGood ==
  ASSUME Base, status' = "up"
  PROVE  \A f : Good(f.name, f.hndl) => GoodAfter(f)
<1>1. \A n \in Created : n \in Created' /\ gmap'[n].hndl = gmap[n].hndl
  BY KeptStep DEF Base, Kept, vars, Created
<1> QED
  BY <1>1 DEF Good, GoodAfter

LEMMA ForwardsGoodAfter ==
  ASSUME FwdGoodAfter, \A d \in Devices : \A i \in DOMAIN out'[d] : GoodAfter(out'[d][i])
  PROVE  ForwardsGood'
BY DEF FwdGoodAfter, GoodAfter, ForwardsGood, Good

(* A forward to all that subscribe to its name.                               *)
LEMMA LevelSent ==
  ASSUME LevelInv, Base, status' = "up", NEW f, Send(f), GoodAfter(f),
         FwdGoodAfter,
         behind' \subseteq behind, UNCHANGED <<at, cache, view, level>>
  PROVE  LevelInv'
<1>1. \A g : Good(g.name, g.hndl) => GoodAfter(g)
  BY StaysGood
<1>2. ASSUME NEW d \in Devices
      PROVE  /\ Len(out[d]) \in Nat /\ DOMAIN out[d] = 1..Len(out[d])
             /\ d \notin subs[f.name] => out'[d] = out[d]
             /\ d \in subs[f.name] =>
                  /\ DOMAIN out'[d] = 1..Len(out[d]) + 1
                  /\ out'[d][Len(out[d]) + 1] = f
                  /\ \A i \in 1..Len(out[d]) : out'[d][i] = out[d][i]
  <2>1. out[d] \in Seq(ForwardsBy(issued))
    BY DeviceFacts DEF Base, HandlesIssued
  <2>2. Len(out[d]) \in Nat /\ DOMAIN out[d] = 1..Len(out[d])
    BY <2>1, LenProperties
  <2>3. out'[d] = IF d \in subs[f.name] THEN Append(out[d], f) ELSE out[d]
    BY DeviceFacts DEF Send
  <2>4. /\ DOMAIN Append(out[d], f) = 1..Len(out[d]) + 1
        /\ Append(out[d], f)[Len(out[d]) + 1] = f
        /\ \A i \in 1..Len(out[d]) : Append(out[d], f)[i] = out[d][i]
    BY <2>2
  <2> QED
    BY <2>2, <2>3, <2>4
<1>3. ForwardsGood'
  <2>1. ASSUME NEW d \in Devices, NEW i \in DOMAIN out'[d]
        PROVE  GoodAfter(out'[d][i])
    <3>1. out'[d][i] = f \/ (i \in DOMAIN out[d] /\ out'[d][i] = out[d][i])
      BY <1>2
    <3>2. i \in DOMAIN out[d] => GoodAfter(out[d][i])
      BY <1>1 DEF LevelInv, ForwardsGood
    <3> QED
      BY <3>1, <3>2
  <2> QED
    BY <2>1, ForwardsGoodAfter
<1>4. ASSUME NEW d \in Devices PROVE LevelHeard(d)'
  <2>1. AwaitsNews(d) => AwaitsNews(d)'
    BY <1>2 DEF AwaitsNews
  <2>2. CASE <<d, LogLevel[d]>> \in told
    BY <2>1, <2>2 DEF LevelInv, LevelHeard, Listens
  <2>3. CASE <<d, LogLevel[d]>> \in told' \ told
    <3>1. f.name = LogLevel[d] /\ d \in subs[f.name]
      BY <2>3 DEF Send
    <3>2. AwaitsNews(d)'
      BY <1>2, <3>1 DEF AwaitsNews
    <3> QED
      BY <3>2 DEF LevelHeard
  <2> QED
    BY <2>2, <2>3 DEF LevelHeard
<1> QED
  BY <1>3, <1>4 DEF LevelInv

LEMMA LevelQuiet ==
  ASSUME LevelInv, Base, status' = "up", SendNothing, UNCHANGED fwdbuf,
         behind' \subseteq behind, UNCHANGED <<at, cache, view, level>>
  PROVE  LevelInv'
<1>1. \A g : Good(g.name, g.hndl) => GoodAfter(g)
  BY StaysGood
<1>2. ForwardsGood'
  <2>1. FwdGoodAfter
    BY <1>1 DEF LevelInv, ForwardsGood, FwdGoodAfter
  <2>2. \A d \in Devices : \A i \in DOMAIN out'[d] : GoodAfter(out'[d][i])
    BY <1>1 DEF LevelInv, ForwardsGood, SendNothing
  <2> QED
    BY <2>1, <2>2, ForwardsGoodAfter
<1>3. ASSUME NEW d \in Devices PROVE LevelHeard(d)'
  BY DEF LevelInv, LevelHeard, SendNothing, AwaitsNews, Listens
<1> QED
  BY <1>2, <1>3 DEF LevelInv

LEMMA LevelFrontend ==
  ASSUME LevelInv, DeviceInv, Base, NEW d \in Devices, HandleFrontend(d),
         UNCHANGED <<at, level>>
  PROVE  LevelInv'
<1> DEFINE m == Head(front[d])
<1>1. HandlesIssued /\ d \in Clients /\ UNCHANGED <<cache, view>>
  BY DeviceFacts DEF Base, HandleFrontend, Take
<1>2. status' = "up" /\ (Leftover \/ \E n \in Names : Updated(n))
  BY <1>1, FrontendOutcomes DEF Base
<1>3. behind' \subseteq behind
  <2>1. Take(d)
    BY DEF HandleFrontend
  <2>2. m = front[d][1] /\ 1 \in DOMAIN front[d]
    BY <1>1, <2>1, FrontTail
  <2>3. DeviceWrite(m)
    BY <1>1, <2>2 DEF DeviceInv, FrontGood
  <2>4. m.op # "SAVE" /\ m.op # "RESTORE"
    BY <2>3 DEF DeviceWrite
  <2> HIDE DEF m
  <2> QED
    BY <2>4 DEF HandleFrontend, m, FrontendCreate, FrontendSet, FrontendItem, FrontendSave,
         FrontendRestore, SendUpdate, SendNoUpdate
<1>4. \A g : Good(g.name, g.hndl) => GoodAfter(g)
  BY <1>2, StaysGood
<1>5. CASE Leftover
  <2>1. UNCHANGED fwdbuf
    BY <1>5 DEF Leftover, SendLeftover
  <2>2. FwdGoodAfter /\ (fwdbuf # Nil => GoodAfter(fwdbuf))
    BY <1>4, <2>1 DEF LevelInv, ForwardsGood, FwdGoodAfter
  <2>3. CASE fwdbuf # Nil /\ Send(fwdbuf)
    BY <1>1, <1>2, <1>3, <2>1, <2>2, <2>3, LevelSent
  <2>4. CASE SendNothing
    BY <1>1, <1>2, <1>3, <2>1, <2>4, LevelQuiet
  <2> QED
    BY <1>5, <2>3, <2>4 DEF Leftover, SendLeftover
<1>6. ASSUME NEW n \in Names, Updated(n)
      PROVE  LevelInv'
  <2>1. /\ n \in Created' /\ Send(fwdbuf')
        /\ fwdbuf' = [name |-> n, hndl |-> gmap'[n].hndl, val |-> gmap'[n].val]
    BY <1>6 DEF Updated, SendUpdate, Forward
  <2>2. GoodAfter(fwdbuf')
    BY <2>1 DEF GoodAfter
  <2> QED
    BY <1>1, <1>2, <1>3, <2>1, <2>2, LevelSent DEF FwdGoodAfter
<1> QED
  BY <1>2, <1>5, <1>6

LEMMA LevelBackend ==
  ASSUME LevelInv, DeviceInv, Base, HandleBackend, UNCHANGED <<at, level>>
  PROVE  LevelInv'
<1> DEFINE n == Head(news)
           f == Forward(gmap, n)
<1>1. UNCHANGED <<vars, cache, view, fwdbuf, behind>> /\ LastValue(n) /\ status' = "up"
  BY DEF HandleBackend, vars
<1>2. CASE n \in Created /\ Send(f)
  <2>1. GoodAfter(f)
    BY <1>1, <1>2 DEF Forward, GoodAfter, Created, vars
  <2>2. FwdGoodAfter
    BY <1>1, StaysGood DEF LevelInv, ForwardsGood, FwdGoodAfter
  <2> HIDE DEF f
  <2> QED
    BY <1>1, <1>2, <2>1, <2>2, LevelSent
<1>3. CASE SendNothing
  BY <1>1, <1>3, LevelQuiet
<1> QED
  BY <1>1, <1>2, <1>3 DEF LastValue

(* A device takes a notification of its log level for what it is, and none of *)
(* another variable for it.                                                   *)
LEMMA LevelNotifiedBy ==
  ASSUME LevelInv, DeviceInv, Base, RestTyped, NEW d \in Devices, ProcessNotifications(d)
  PROVE  LevelInv'
<1> DEFINE f == Head(out[d])
           n == LogLevel[d]
<1>1. /\ at' = at /\ Listens(d) /\ out[d] # <<>>
      /\ UNCHANGED <<vars, cache, fwdbuf, told, behind>>
      /\ out' = [out EXCEPT ![d] = Tail(@)]
      /\ view' = [view EXCEPT ![d][f.name] = f.val]
      /\ level' = [level EXCEPT ![d] = LevelNotified(d, f)]
  BY DEF ProcessNotifications, HandleNotification, DSV_GetNotification, Listens
<1>2. /\ out[d] \in Seq(ForwardsBy(issued)) /\ out'[d] = Tail(out[d])
      /\ \A e \in Devices \ {d} : out'[e] = out[e]
  BY <1>1, DeviceFacts DEF Base, HandlesIssued
<1>3. /\ Len(out[d]) \in Nat /\ DOMAIN out[d] = 1..Len(out[d]) /\ Len(out[d]) > 0
      /\ f = out[d][1] /\ f \in ForwardsBy(issued)
      /\ DOMAIN out'[d] = 1..Len(out[d]) - 1
      /\ \A i \in 1..Len(out[d]) - 1 : out'[d][i] = out[d][i + 1]
  <2>1. Len(out[d]) \in Nat /\ DOMAIN out[d] = 1..Len(out[d]) /\ Len(out[d]) > 0
    BY <1>1, <1>2, LenProperties
  <2>2. /\ f = out[d][1] /\ f \in ForwardsBy(issued)
        /\ Tail(out[d]) \in Seq(ForwardsBy(issued)) /\ Len(Tail(out[d])) = Len(out[d]) - 1
        /\ \A i \in 1..Len(Tail(out[d])) : Tail(out[d])[i] = out[d][i + 1]
    BY <1>1, <1>2, <2>1, HeadTailProperties
  <2>3. DOMAIN Tail(out[d]) = 1..Len(Tail(out[d]))
    BY <2>2, LenProperties
  <2> QED
    BY <1>2, <2>1, <2>2, <2>3
<1>4. /\ f.name \in Names /\ Good(f.name, f.hndl)
      /\ view'[d] = [view[d] EXCEPT ![f.name] = f.val] /\ view[d] \in [Names -> Values \cup {Nil}]
      /\ \A e \in Devices \ {d} : view'[e] = view[e] /\ level'[e] = level[e]
      /\ level'[d] = LevelNotified(d, f)
  <2>1. f.name \in Names /\ Good(f.name, f.hndl)
    BY <1>3 DEF ForwardsBy, LevelInv, ForwardsGood
  <2> HIDE DEF f
  <2> QED
    BY <1>1, <2>1, DeviceFacts DEF RestTyped, LevelInv
<1> HIDE DEF f
<1>5. ForwardsGood'
  <2>1. ASSUME NEW e \in Devices, NEW i \in DOMAIN out'[e]
        PROVE  GoodAfter(out'[e][i])
    <3>1. \E j \in DOMAIN out[e] : out'[e][i] = out[e][j]
      <4>1. CASE e = d
        <5>1. i + 1 \in DOMAIN out[d] /\ out'[d][i] = out[d][i + 1]
          BY <1>3, <4>1
        <5> QED
          BY <4>1, <5>1
      <4>2. CASE e # d
        BY <1>2, <4>2
      <4> QED
        BY <4>1, <4>2
    <3>2. PICK g : out'[e][i] = g /\ Good(g.name, g.hndl)
      BY <3>1 DEF LevelInv, ForwardsGood
    <3> QED
      BY <1>1, <3>2 DEF Good, GoodAfter, Created, vars
  <2>2. FwdGoodAfter
    BY <1>1 DEF LevelInv, ForwardsGood, FwdGoodAfter, Good, GoodAfter, Created, vars
  <2> QED
    BY <2>1, <2>2, ForwardsGoodAfter
<1>6. ASSUME NEW e \in Devices \ {d} PROVE LevelHeard(e)'
  BY <1>1, <1>2, <1>4 DEF LevelInv, LevelHeard, Listens, AwaitsNews
<1>7. LevelHeard(d)'
  <2> SUFFICES ASSUME <<d, n>> \in told, ~AwaitsNews(d)', cache[d][n] # Nil
               PROVE  level'[d] = view'[d][n][1]
    BY <1>1 DEF LevelHeard, Listens
  <2>1. ASSUME NEW i \in DOMAIN out[d], out[d][i].name = n PROVE i = 1
    <3> SUFFICES ASSUME i # 1 PROVE FALSE
      OBVIOUS
    <3>1. i - 1 \in DOMAIN out'[d] /\ out'[d][i - 1] = out[d][i]
      BY <1>3
    <3> QED
      BY <2>1, <3>1 DEF AwaitsNews
  <2>2. Good(n, cache[d][n]) /\ n \in Names
    BY DeviceFacts DEF DeviceInv, CachesGood
  <2>3. CASE f.name = n
    <3>1. f.hndl = cache[d][n]
      BY <1>4, <2>2, <2>3 DEF Good
    <3> QED
      BY <1>4, <2>3, <3>1 DEF LevelNotified
  <2>4. CASE f.name # n
    <3>1. ~AwaitsNews(d)
      BY <1>3, <2>1, <2>4 DEF AwaitsNews
    <3>2. level[d] = view[d][n][1]
      BY <3>1 DEF LevelInv, LevelHeard
    <3>3. f.hndl # cache[d][n]
      BY <1>4, <2>2, <2>4 DEF Good, Base, HandlesDistinct
    <3> QED
      BY <1>4, <2>2, <2>4, <3>2, <3>3 DEF LevelNotified
  <2> QED
    BY <2>3, <2>4
<1> QED
  BY <1>1, <1>5, <1>6, <1>7 DEF LevelInv

LEMMA LevelScript ==
  ASSUME LevelInv, Base, ScriptInv, NEW d \in Devices,
         \/ InitLogmask(d) \/ FindDevlist(d) \/ JoinDevlist(d) \/ CreateUndefined(d)
  PROVE  LevelInv'
<1> USE DeviceFacts
<1>1. /\ UNCHANGED <<vars, out, fwdbuf, told, behind, view, level>>
      /\ \A e \in Devices \ {d} : cache'[e] = cache[e]
  <2>1. ASSUME NEW n, NEW v, \/ DSV_Create(d, n, v) \/ DSV_Set(d, n, v)
                             \/ DSV_AddItemToArray(d, n, v) \/ DSV_Handle(d, n)
                             \/ DSV_SubByName(d, n)
        PROVE  UNCHANGED <<vars, out, fwdbuf, told, behind, view, cache>>
    BY <2>1 DEF DSV_Create, DSV_Set, DSV_AddItemToArray, EditArray, Publish, DSV_Handle,
         Request1, DSV_SubByName, Calls
  <2>2. DSV_Open(d) => UNCHANGED <<vars, out, fwdbuf, told, behind, view, cache>>
    BY DEF DSV_Open, Join
  <2>3. Return(d) => /\ UNCHANGED <<vars, out, fwdbuf, told, behind, view>>
                     /\ \A e \in Devices \ {d} : cache'[e] = cache[e]
    BY DEF Return, Base, HandlesIssued
  <2>4. CASE CreateUndefined(d)
    BY <2>4 DEF CreateUndefined, allvars, cvars
  <2>5. CASE InitLogmask(d)
    BY <2>1, <2>2, <2>3, <2>5 DEF InitLogmask, DSV_LogInit, Step, Answered
  <2>6. CASE FindDevlist(d) \/ JoinDevlist(d)
    BY <2>1, <2>3, <2>6 DEF FindDevlist, JoinDevlist, Step, Answered
  <2> QED
    BY <2>4, <2>5, <2>6
<1>2. ~Listens(d) /\ \A e \in Devices \ {d} : at'[e] = at[e]
  <2>1. at[d] # "listen" /\ \E q : Goto(d, q)
    BY DEF InitLogmask, DSV_LogInit, FindDevlist, JoinDevlist, Step, Answered, CreateUndefined
  <2> QED
    BY <2>1 DEF Goto, Listens, ScriptInv
<1> QED
  BY <1>1, <1>2, LevelKept

LEMMA LevelStep ==
  ASSUME LevelInv, DeviceInv, Base, RestTyped, ScriptInv, [DevmanNext]_devvars
  PROVE  LevelInv'
<1>1. CASE Served
  <2>1. UNCHANGED <<at, level>>
    BY <1>1 DEF Served
  <2>2. CASE \E d \in Devices : Accept(d) \/ HandleReply(d)
    BY <2>1, <2>2, LevelKept DEF Accept, HandleReply
  <2> QED
    BY <1>1, <2>1, <2>2, LevelFrontend, LevelBackend DEF Served
<1>2. CASE UNCHANGED devvars
  BY <1>2, LevelKept DEF devvars, allvars, cvars
<1> QED
  BY <1>1, <1>2, LevelScript, LevelNotifiedBy DEF DevmanNext

(* A device that has read what it was sent of its log level has the level of  *)
(* the variable, whoever created it and whatever overtook what: a default     *)
(* create that arrives late is refused, so it never undoes the level set      *)
(* (devman.cpp:77).                                                           *)
THEOREM LevelsAreCurrent == DevmanSpec => []LevelIsCurrent
<1> DEFINE I == DevmanIInv /\ ScriptInv /\ NotifyInv /\ LevelInv
<1>1. DevmanInit => I
  BY ScriptInvariance, NotifyInit, LevelInit DEF DevmanInit
<1>2. ASSUME I, [DevmanNext]_devvars
      PROVE  I'
  <2>1. DevmanIInv' /\ ScriptInv' /\ [ServerNext]_allvars
    BY <1>2, ScriptInvariance, DevmanStep
  <2>2. NotifyInv' /\ [Next]_vars
    BY <1>2, <2>1, NotifyStep, BaseStep DEF DevmanIInv
  <2>3. Base
    BY <1>2, <2>1, <2>2 DEF DevmanIInv, ServerBase, Base
  <2>4. LevelInv'
    BY <1>2, <2>3, LevelStep DEF DevmanIInv, NotifyInv
  <2> QED
    BY <2>1, <2>2, <2>4
<1>3. I => LevelIsCurrent
  <2> SUFFICES ASSUME I, NEW d \in Devices, at[d] = "listen", cache[d][LogLevel[d]] # Nil,
                      LogLevel[d] \in Created, <<d, LogLevel[d]>> \in told,
                      \A i \in DOMAIN out[d] : out[d][i].name # LogLevel[d]
               PROVE  level[d] = gmap[LogLevel[d]].val[1]
    BY DEF LevelIsCurrent
  <2>1. level[d] = view[d][LogLevel[d]][1]
    BY DEF LevelInv, LevelHeard, AwaitsNews
  <2>2. LastHeard(d, LogLevel[d]) = gmap[LogLevel[d]].val
    BY DeviceFacts DEF NotifyInv, ToldSubscribed, NotifiedIsCurrent, LevelInv
  <2>3. LastHeard(d, LogLevel[d]) = view[d][LogLevel[d]]
    BY LastHeardIs, HeardNothing
  <2> QED
    BY <2>1, <2>2, <2>3
<1> HIDE DEF I
<1> QED
  BY <1>1, <1>2, <1>3, PTL DEF DevmanSpec
=============================================================================
