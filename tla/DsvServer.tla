------------------------------ MODULE DsvServer ------------------------------
(***************************************************************************)
(* The server's main loop (dsv_server/src/dsv_server.cpp) around the       *)
(* variable table of DsvVar, and the clients that talk to it through       *)
(* libdsv: writes travel on a PUB socket and are not answered, reads on a  *)
(* REQ socket the client blocks on, notifications on a SUB socket.  The    *)
(* three connections of a client are not ordered with respect to each      *)
(* other.                                                                  *)
(***************************************************************************)
EXTENDS DsvVar

CONSTANTS Clients,
          Ops,        \* the operations an instance lets happen
          MaxCalls,   \* bound: library calls made by all clients
          Nil         \* no handle, no value, no request

ASSUME ServerAssumption == MaxCalls \in Nat

VARIABLES joined,   \* clients whose PUB socket has the server's subscription
          front,    \* per client: writes on their way to the frontend socket
          subq,     \* per client: subscriptions on their way to the backend
          subs,     \* per name: clients the backend socket has as subscribers
          news,     \* subscriptions the XPUB socket shows the server
          out,      \* per client: forwards on their way to its SUB socket
          call,     \* per client: the request it blocks on, and its answer
          cache,    \* per client and name: the handle it has
          view,     \* per client and name: the value last notified
          fwdbuf,   \* what dsv_handle_frontend last put in its fwd_buf
          told,     \* history: who was sent a value by the present server
          behind,   \* history: names restored and not written since
          calls     \* library calls made

cvars == <<joined, front, subq, subs, news, out, call, cache, view, fwdbuf, told, behind, calls>>
allvars == <<vars, cvars>>

PerName(x) == [n \in Names |-> x]
PerClient(x) == [c \in Clients |-> x]

ServerInit ==
  /\ Init
  /\ joined = {}
  /\ front = PerClient(<<>>)
  /\ subq = PerClient({})
  /\ subs = PerName({})
  /\ news = <<>>
  /\ out = PerClient(<<>>)
  /\ call = PerClient(Nil)
  /\ cache = PerClient(PerName(Nil))
  /\ view = PerClient(PerName(Nil))
  /\ fwdbuf = Nil
  /\ told = {}
  /\ behind = {}
  /\ calls = 0

-----------------------------------------------------------------------------
(* The clients.                                                            *)

\* A client that is not inside a blocking call makes a library call.
Calls(c) == /\ call[c] = Nil
            /\ calls < MaxCalls
            /\ calls' = calls + 1
            /\ UNCHANGED <<vars, news, out, view, subs, fwdbuf, told, behind>>

\* dsv_SendMsg of a write returns once the message is queued: what the socket
\* does with it before the server's subscription has arrived is to drop it,
\* which DSV_Open tries to outwait with its 100 ms.
Publish(c, m) ==
  /\ Calls(c)
  /\ front' = IF c \in joined THEN [front EXCEPT ![c] = Append(@, m)] ELSE front
  /\ UNCHANGED <<joined, subq, call, cache>>

CreateFlags == IF "SAVE" \in Ops THEN {"SAVE"} ELSE {}

DSV_Create(c, n, v) ==
  "CREATE" \in Ops /\ Publish(c, [op |-> "CREATE", name |-> n, val |-> v])

DSV_Set(c, n, v) ==
  /\ "SET" \in Ops
  /\ cache[c][n] # Nil
  /\ Publish(c, [op |-> "SET", name |-> n, hndl |-> cache[c][n], val |-> v])

\* The array operations; an index counts from 1 here.
ItemOps == {"ADD_ITEM", "SET_ITEM", "INS_ITEM", "DEL_ITEM"}

EditArray(c, m) == m.op \in Ops /\ m.hndl # Nil /\ Publish(c, m)

DSV_AddItemToArray(c, n, x) ==
  EditArray(c, [op |-> "ADD_ITEM", name |-> n, hndl |-> cache[c][n], item |-> x])
DSV_SetItemInArray(c, n, i, x) ==
  EditArray(c, [op |-> "SET_ITEM", name |-> n, hndl |-> cache[c][n], idx |-> i, item |-> x])
DSV_InsItemToArray(c, n, i, x) ==
  EditArray(c, [op |-> "INS_ITEM", name |-> n, hndl |-> cache[c][n], idx |-> i, item |-> x])
DSV_DelItemFromArray(c, n, i) ==
  EditArray(c, [op |-> "DEL_ITEM", name |-> n, hndl |-> cache[c][n], idx |-> i])

DSV_Save(c) == "SAVE" \in Ops /\ Publish(c, [op |-> "SAVE"])
DSV_Restore(c) == "RESTORE" \in Ops /\ Publish(c, [op |-> "RESTORE"])

\* The calls that wait for an answer: DSV_Handle by name, the others by handle.
Request1(c, r) ==
  /\ Calls(c)
  /\ call' = [call EXCEPT ![c] = r]
  /\ UNCHANGED <<joined, front, subq, cache>>

DSV_Handle(c, n) == Request1(c, [op |-> "GET_HANDLE", name |-> n])

Reads == {"GET", "GET_TYPE", "GET_LEN", "GET_ITEM"}

ReadBy(c, n, op) ==
  /\ op \in Ops
  /\ cache[c][n] # Nil
  /\ Request1(c, [op |-> op, name |-> n, hndl |-> cache[c][n]])

DSV_Get(c, n) == ReadBy(c, n, "GET")
DSV_Type(c, n) == ReadBy(c, n, "GET_TYPE")
DSV_Len(c, n) == ReadBy(c, n, "GET_LEN")
DSV_GetItemFromArray(c, n) == ReadBy(c, n, "GET_ITEM")

DSV_SubByName(c, n) ==
  /\ "SUB" \in Ops
  /\ c \notin subs[n] /\ n \notin subq[c]
  /\ Calls(c)
  /\ subq' = [subq EXCEPT ![c] = @ \cup {n}]
  /\ UNCHANGED <<joined, front, call, cache>>

\* The client's PUB connection is complete and has the server's subscription.
Join(c) ==
  /\ status = "up"
  /\ c \notin joined
  /\ joined' = joined \cup {c}
  /\ UNCHANGED <<vars, front, subq, subs, news, out, call, cache, view, fwdbuf, told, behind, calls>>

\* The answer arrives and the blocking call returns.
Return(c) ==
  /\ call[c] # Nil /\ call[c].op = "ANSWER"
  /\ call' = [call EXCEPT ![c] = Nil]
  /\ cache' = IF call[c].hndl # Nil
              THEN [cache EXCEPT ![c][call[c].name] = call[c].hndl] ELSE cache
  /\ UNCHANGED <<vars, joined, front, subq, subs, news, out, view, fwdbuf, told, behind, calls>>

DSV_GetNotification(c) ==
  /\ out[c] # <<>>
  /\ out' = [out EXCEPT ![c] = Tail(@)]
  /\ view' = [view EXCEPT ![c][Head(out[c]).name] = Head(out[c]).val]
  /\ UNCHANGED <<vars, joined, front, subq, subs, news, cache, fwdbuf, told, behind, calls>>

\* What a subscriber does with a notification: sv asks for the type before it
\* prints the value, with the handle of the notification.
HandleNotification(c) ==
  /\ call[c] = Nil
  /\ DSV_GetNotification(c)
  /\ call' = IF "PRINT" \in Ops
             THEN [call EXCEPT ![c] = [op |-> "GET_TYPE", name |-> Head(out[c]).name,
                                       hndl |-> Head(out[c]).hndl]]
             ELSE call

\* DSV_Close, or the end of the client: what it has sent is still delivered,
\* what it was to receive is not.
DSV_Close(c) ==
  /\ "CLOSE" \in Ops
  /\ call[c] = Nil
  /\ joined' = joined \ {c}
  /\ subq' = [subq EXCEPT ![c] = {}]
  /\ subs' = [n \in Names |-> subs[n] \ {c}]
  /\ out' = [out EXCEPT ![c] = <<>>]
  /\ cache' = [cache EXCEPT ![c] = PerName(Nil)]
  /\ view' = [view EXCEPT ![c] = PerName(Nil)]
  /\ told' = {p \in told : p[1] # c}
  /\ UNCHANGED <<vars, front, news, call, fwdbuf, behind, calls>>

-----------------------------------------------------------------------------
(* The server.                                                             *)

\* fill_fwd_buf for name n of table t.
Forward(t, n) == [name |-> n, hndl |-> t[n].hndl, val |-> t[n].val]

\* The backend socket sends f to the subscribers of its name.
Send(f) ==
  /\ out' = [c \in Clients |-> IF c \in subs[f.name] THEN Append(out[c], f) ELSE out[c]]
  /\ told' = told \cup {<<c, f.name>> : c \in subs[f.name]}

SendNothing == UNCHANGED <<out, told>>

\* A bug's form: the forward is filled before the table changes.
SendUpdateEarly(n) == /\ fwdbuf' = Forward(IF gmap[n] = Absent THEN gmap' ELSE gmap, n)
                      /\ Send(fwdbuf')
                      /\ behind' = behind \ {n}
SendUpdate(n) == /\ fwdbuf' = Forward(gmap', n)
                 /\ Send(fwdbuf')
                 /\ behind' = behind \ {n}

\* The handler failed or had nothing to do.
SendNoUpdate == SendNothing /\ UNCHANGED <<fwdbuf, behind>>

\* SAVE and RESTORE leave fwd_buf as the stack has it: the forward of an
\* earlier write, or something that is no subscriber's topic (or has a length
\* that ends the process, SendGarbage).
SendLeftover == /\ \/ fwdbuf # Nil /\ Send(fwdbuf)
                   \/ SendNothing
                /\ UNCHANGED fwdbuf

\* The ways to cut the queues of all clients; none holds more than a forward
\* per call and per subscription.
Cuts(q) == {k \in [Clients -> 0..2 * MaxCalls] : \A c \in Clients : k[c] <= Len(q[c])}

\* What the sockets lose when the server's process ends: the first writes of
\* each client (they had arrived), requests that had arrived, and the last
\* forwards.  Clients that wait for a lost request wait on.
LoseConnections ==
  /\ \E k \in Cuts(front) :
       front' = [c \in Clients |-> SubSeq(front[c], k[c] + 1, Len(front[c]))]
  /\ \E k \in Cuts(out) : out' = [c \in Clients |-> SubSeq(out[c], 1, k[c])]
  /\ \E L \in SUBSET {c \in Clients : call[c] # Nil /\ call[c].op # "ANSWER"} :
       call' = [c \in Clients |-> IF c \in L THEN [op |-> "LOST"] ELSE call[c]]
  /\ subq' = [c \in Clients |-> subq[c] \cup {n \in Names : c \in subs[n]}]
  /\ subs' = PerName({})
  /\ news' = <<>>
  /\ told' = {}
  /\ behind' = {}
  /\ fwdbuf' = Nil
  /\ UNCHANGED <<joined, cache, view, calls>>

\* dsv_handle_frontend takes the next write of client c.
Take(c) == /\ status = "up" /\ front[c] # <<>>
           /\ front' = [front EXCEPT ![c] = Tail(@)]
           /\ UNCHANGED <<joined, subq, subs, news, call, cache, view, calls>>

\* A bug's form: the create of a name that exists writes its value.
FrontendCreateWrites(c, m) ==
  /\ m.op = "CREATE"
  /\ \/ \E h \in Handles : VarCreate(m.name, m.val, CreateFlags, FALSE, h)
     \/ /\ m.name \in Created
        /\ gmap' = [gmap EXCEPT ![m.name].val = m.val]
        /\ UNCHANGED <<disk, exists, status, issued, written>>
  /\ SendUpdate(m.name)

FrontendCreate(c, m) ==
  /\ m.op = "CREATE"
  /\ \/ /\ \E h \in Handles : VarCreate(m.name, m.val, CreateFlags, FALSE, h)
        /\ SendUpdate(m.name)
     \/ m.name \in Created /\ UNCHANGED vars /\ SendNoUpdate

FrontendSet(c, m) ==
  /\ m.op = "SET"
  /\ VarSet(m.hndl, m.val)
  /\ \E n \in Names : At(m.hndl, n) /\ SendUpdate(n)

\* An item operation on what is not an array is refused with EINVAL.
EditItem(m) ==
  \/ m.op = "ADD_ITEM" /\ VarAddItem(m.hndl, m.item)
  \/ m.op = "SET_ITEM" /\ VarSetItem(m.hndl, m.idx, m.item)
  \/ m.op = "INS_ITEM" /\ VarInsItem(m.hndl, m.idx, m.item)
  \/ m.op = "DEL_ITEM" /\ VarDelItem(m.hndl, m.idx)

FrontendItem(c, m) ==
  /\ m.op \in ItemOps
  /\ \E n \in Names :
       /\ At(m.hndl, n)
       /\ \/ TypeOf[n] = "ARR" /\ EditItem(m) /\ SendUpdate(n)
          \/ TypeOf[n] # "ARR" /\ UNCHANGED vars /\ SendNoUpdate

FrontendSave(c, m) ==
  /\ m.op = "SAVE"
  /\ VarSave
  /\ IF ToSave(gmap) # {} THEN SendLeftover ELSE SendNothing /\ UNCHANGED fwdbuf
  /\ UNCHANGED behind

FrontendRestore(c, m) ==
  /\ m.op = "RESTORE"
  /\ \/ /\ VarRestore /\ SendLeftover
        /\ behind' = behind \cup {n \in Created : gmap'[n].val # gmap[n].val}
     \/ ~exists /\ UNCHANGED vars /\ SendNoUpdate

HandleFrontend(c) ==
  /\ Take(c)
  /\ LET m == Head(front[c])
     IN \/ FrontendCreate(c, m) \/ FrontendSet(c, m) \/ FrontendItem(c, m)
        \/ FrontendSave(c, m) \/ FrontendRestore(c, m)

\* What follows a save or a restore sends fwd_buf though nothing filled it: if
\* the length in it is no forward's, the process may end reading so far.  (A
\* kill in the middle of a restore is here, too.)
SendGarbage(m) ==
  \/ m.op = "SAVE" /\ ToSave(gmap) # {} /\ Shutdown
  \/ m.op = "RESTORE" /\ CrashInRestore

\* A write through a handle of an earlier server process, an index outside the
\* array, a restore of arrays, a forward that is none.
FrontendMisuse(m) ==
  \/ m.op \in ItemOps \cup {"SET"} /\ VarMisuse(m.hndl)
  \/ m.op \in {"SET_ITEM", "DEL_ITEM"} /\ VarMisindex(m.hndl, m.idx, 0)
  \/ m.op = "INS_ITEM" /\ VarMisindex(m.hndl, m.idx, 1)
  \/ m.op = "RESTORE" /\ (VarRestoreUndefined \/ VarRestoreAborts)
  \/ SendGarbage(m)

HandleFrontendUndefined(c) ==
  /\ front[c] # <<>>
  /\ FrontendMisuse(Head(front[c]))
  /\ LoseConnections

\* The XPUB socket takes a client's subscription; only the first of a topic
\* is shown to the server.
Accept(c) ==
  /\ status = "up"
  /\ \E n \in subq[c] :
       /\ subq' = [subq EXCEPT ![c] = @ \ {n}]
       /\ subs' = [subs EXCEPT ![n] = @ \cup {c}]
       /\ news' = IF subs[n] = {} THEN Append(news, n) ELSE news
  /\ UNCHANGED <<vars, joined, front, out, call, cache, view, fwdbuf, told, behind, calls>>

\* dsv_handle_backend: var_notify fills the last value cached, if any.
LastValueSilent(n) == SendNothing
LastValue(n) == IF n \in Created THEN Send(Forward(gmap, n)) ELSE SendNothing

HandleBackend ==
  /\ status = "up"
  /\ news # <<>>
  /\ news' = Tail(news)
  /\ LastValue(Head(news))
  /\ UNCHANGED <<vars, joined, front, subq, subs, call, cache, view, fwdbuf, behind, calls>>

\* dsv_handle_reply: every request is answered, whatever its result.  A bug's
\* form: the result of a failed request is taken for the handle.
AnswerResult(r) ==
  [op |-> "ANSWER", name |-> r.name,
   hndl |-> IF r.op \in Reads THEN Nil
            ELSE IF r.name \in Created THEN gmap[r.name].hndl ELSE "ENOENT"]
Answer(r) ==
  [op |-> "ANSWER", name |-> r.name,
   hndl |-> IF r.op = "GET_HANDLE" /\ r.name \in Created THEN gmap[r.name].hndl ELSE Nil]

\* A bug's form: a request that fails is not answered.
AnswersFound(r) == status = "up" /\ (r.op = "GET_HANDLE" => r.name \in Created)
Answers(r) == status = "up"

Pending(c) == call[c] # Nil /\ call[c].op \in Reads \cup {"GET_HANDLE"}

\* The type and the length are of the entry, the value and an item of what it
\* points to.
Readable(r) ==
  \E n \in Names : At(r.hndl, n) /\ (r.op \in {"GET_TYPE", "GET_LEN"} \/ Usable(n))

HandleReply(c) ==
  /\ Pending(c)
  /\ Answers(call[c])
  /\ call[c].op \in Reads => Readable(call[c])
  /\ call' = [call EXCEPT ![c] = Answer(call[c])]
  /\ UNCHANGED <<vars, joined, front, subq, subs, news, out, cache, view, fwdbuf, told, behind, calls>>

HandleReplyUndefined(c) ==
  /\ Pending(c)
  /\ call[c].op \in Reads /\ ~Readable(call[c])
  /\ VarMisuse(call[c].hndl)
  /\ LoseConnections

Stop == "STOP" \in Ops /\ (Shutdown \/ Crash) /\ LoseConnections

Restart == Start /\ UNCHANGED cvars

-----------------------------------------------------------------------------
\* The commands of asv, after its lookup of the handle.
ProcessAddItem(c, n) == \E x \in Data : DSV_AddItemToArray(c, n, x)
ProcessSetItem(c, n) == \E i \in 1..MaxLen, x \in Data : DSV_SetItemInArray(c, n, i, x)
ProcessInsItem(c, n) == \E i \in 1..MaxLen, x \in Data : DSV_InsItemToArray(c, n, i, x)
ProcessDelItem(c, n) == \E i \in 1..MaxLen : DSV_DelItemFromArray(c, n, i)
ProcessGetItem(c, n) == DSV_GetItemFromArray(c, n)

ClientWrite(c, n) ==
  \/ \E v \in ValuesOf(TypeOf[n]) : DSV_Create(c, n, v) \/ DSV_Set(c, n, v)
  \/ ProcessAddItem(c, n) \/ ProcessSetItem(c, n)
  \/ ProcessInsItem(c, n) \/ ProcessDelItem(c, n)

ClientRead(c, n) ==
  \/ DSV_Handle(c, n) \/ DSV_SubByName(c, n)
  \/ DSV_Get(c, n) \/ DSV_Type(c, n) \/ DSV_Len(c, n) \/ ProcessGetItem(c, n)

ClientCall(c) ==
  \/ \E n \in Names : ClientWrite(c, n) \/ ClientRead(c, n)
  \/ DSV_Save(c) \/ DSV_Restore(c)

ServerNext ==
  \/ \E c \in Clients : \/ ClientCall(c) \/ Join(c) \/ Return(c)
                        \/ HandleNotification(c) \/ DSV_Close(c)
  \/ \E c \in Clients : \/ HandleFrontend(c) \/ HandleFrontendUndefined(c)
                        \/ Accept(c) \/ HandleReply(c) \/ HandleReplyUndefined(c)
  \/ HandleBackend
  \/ Stop \/ Restart

ServerSpec == ServerInit /\ [][ServerNext]_allvars

\* The main loop polls all its sockets and takes one message of each that is
\* ready in every round; the sockets queue fairly among their peers, and the
\* library's connections are made in the background.  Nothing makes a client
\* call, stop or close, but a subscriber reads its notifications.
Fairness ==
  /\ WF_allvars(HandleBackend)
  /\ \A c \in Clients : /\ WF_allvars(HandleFrontend(c))
                        /\ WF_allvars(HandleReply(c))
                        /\ WF_allvars(Accept(c))
                        /\ WF_allvars(Return(c))
                        /\ WF_allvars(HandleNotification(c))

FairServerSpec == ServerSpec /\ Fairness

-----------------------------------------------------------------------------
(* Properties.                                                             *)

ForwardsBy(H) == [name: Names, hndl: H, val: Values]

\* The writes under way, and what a client blocks on, by handles of the set H.
WritesBy(H) == [op: {"CREATE"}, name: Names, val: Values]
               \cup [op: {"SET"}, name: Names, hndl: H, val: Values]
               \cup [op: {"ADD_ITEM"}, name: Names, hndl: H, item: Data]
               \cup [op: {"DEL_ITEM"}, name: Names, hndl: H, idx: 1..MaxLen]
               \cup [op: {"SET_ITEM", "INS_ITEM"}, name: Names, hndl: H,
                     idx: 1..MaxLen, item: Data]
               \cup [op: {"SAVE", "RESTORE"}]
BlockedBy(H) == [op: {"GET_HANDLE"}, name: Names]
                \cup [op: Reads, name: Names, hndl: H]
                \cup [op: {"ANSWER"}, name: Names, hndl: H \cup {Nil}]
                \cup [op: {"LOST"}]

ServerTypeOK ==
  /\ TypeOK
  /\ joined \subseteq Clients
  /\ front \in [Clients -> Seq(WritesBy(Handles))]
  /\ subq \in [Clients -> SUBSET Names]
  /\ subs \in [Names -> SUBSET Clients]
  /\ news \in Seq(Names)
  /\ out \in [Clients -> Seq(ForwardsBy(Handles))]
  /\ call \in [Clients -> BlockedBy(Handles) \cup {Nil}]
  /\ cache \in [Clients -> [Names -> Handles \cup {Nil}]]
  /\ view \in [Clients -> [Names -> Values \cup {Nil}]]
  /\ fwdbuf \in ForwardsBy(Handles) \cup {Nil}
  /\ told \subseteq Clients \X Names
  /\ behind \subseteq Names
  /\ calls \in Nat

\* Clients hold, send and are answered with handles a server gave out and no
\* others, although they outlive servers and answers to failed requests carry
\* something else: what a handler reads as an address once was one.
HandlesIssued ==
  /\ Live \subseteq issued
  /\ front \in [Clients -> Seq(WritesBy(issued))]
  /\ call \in [Clients -> BlockedBy(issued) \cup {Nil}]
  /\ cache \in [Clients -> [Names -> issued \cup {Nil}]]
  /\ out \in [Clients -> Seq(ForwardsBy(issued))]
  /\ fwdbuf \in ForwardsBy(issued) \cup {Nil}

\* What client c will believe of name n once it has read what was sent to it.
LastHeard(c, n) ==
  LET I == {i \in DOMAIN out[c] : out[c][i].name = n}
  IN IF I = {} THEN view[c][n]
     ELSE out[c][CHOOSE i \in I : \A j \in I : j <= i].val

\* No update is lost, overtaken or undone on the way to a subscriber the
\* present server has sent the variable: once it has read its queue it holds
\* the value in the table, however creates, sets, first subscriptions and
\* restarts interleave (dsv_handle_frontend, dsv_handle_backend).
NotifiedIsCurrent ==
  \A n \in Created \ behind, c \in Clients :
    c \in subs[n] /\ <<c, n>> \in told => LastHeard(c, n) = gmap[n].val

\* What the server forwards is the variable as it stands: "success operation
\* needs forward the value to downstream" (dsv_server.cpp:277).
ForwardIsCurrent ==
  [][\A c \in Clients : Len(out'[c]) > Len(out[c]) =>
       LET f == out'[c][Len(out'[c])]
       IN f.name \in Created' /\ (f.name \notin behind' => f.val = gmap'[f.name].val)]_allvars

\* A step that changes the value of a variable, other than a restore, sends the
\* new one to all its subscribers: "success operation needs forward the value to
\* downstream" (dsv_server.cpp:277).
ChangeIsForwarded ==
  [][\A n \in Created \ behind' : status' = "up" /\ gmap'[n].val # gmap[n].val =>
       \A c \in subs[n] : /\ out'[c] # <<>>
                          /\ out'[c][Len(out'[c])].name = n
                          /\ out'[c][Len(out'[c])].val = gmap'[n].val]_allvars

\* Once the server has seen the subscriptions to a created variable, one of
\* its subscribers has been sent it: the value cached before the first
\* subscription reaches whoever subscribed first (dsv_server.cpp:293).
TopicTold ==
  \A n \in Created : subs[n] # {} /\ (\A i \in DOMAIN news : news[i] # n) =>
    \E c \in subs[n] : <<c, n>> \in told

\* A write on its way is for an entry that exists, through its handle
\* (the handles stay good: dsv_var.cpp:136).
WritesGood ==
  \A c \in Clients : \A i \in DOMAIN front[c] :
    LET m == front[c][i]
    IN status = "up" /\ m.op \in ItemOps \cup {"SET"} =>
         m.name \in Created /\ gmap[m.name].hndl = m.hndl

\* Whatever the clients, connections and restarts do to it, the table behaves
\* as DsvVar says: what is proved of it holds of the server.
TableSpec == Spec

\* A client that waits for an answer gets one: no request is left unanswered
\* because it failed (dsv_handle_reply, dsv_SendMsg).
RequestAnswered == \A c \in Clients : (call[c] # Nil) ~> (call[c] = Nil)

\* Updates end, and then every subscriber that was sent a variable comes to
\* hold its value for good.
ViewsConverge ==
  \A c \in Clients, n \in Names :
    <>[](<<c, n>> \in told => view[c][n] = gmap[n].val)

\* "new subscription from backend, send lvc" (dsv_server.cpp:378): each
\* subscriber is sent the last value cached, not only the first of a topic.
SubscriberTold ==
  \A n \in Created, c \in Clients :
    c \in subs[n] /\ (\A i \in DOMAIN news : news[i] # n) => <<c, n>> \in told
=============================================================================
